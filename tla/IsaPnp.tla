------------------------------- MODULE IsaPnp -------------------------------
(***************************************************************************)
(* isapnp.c: main and try_isolate.  The host tries one read data port      *)
(* after another.  On each it resets all cards, then isolates, numbers and *)
(* dumps them one by one, until an isolation round meets no card.          *)
(*                                                                         *)
(* The cards are external: their state machine (Wait for Key, Sleep,       *)
(* Isolation, Config) is modelled from the commands the host sends.  Some  *)
(* ports are also decoded by other hardware, which may garble what is read *)
(* there; a garbled identifier is assumed to have a wrong checksum.        *)
(***************************************************************************)
EXTENDS Integers, FiniteSets

CONSTANTS
  Cards,       \* the ISA PnP cards of the machine
  NameOf,      \* their PnP ID after sanitizing, the first part of a file's name
  Serial,      \* their serial identifier, a bit per read pair
  NBits,       \* its length (72 in the code)
  NPorts,      \* read data ports the host tries
  Letters,     \* unique identifiers of files (26 in the code)
  SuperIo      \* stands for a UMC Super I/O chip

Ports == 1 .. NPorts
Bits == 1 .. NBits
Names == {NameOf[c] : c \in Cards} \cup {SuperIo}

ASSUME IsaPnpAssumption ==
  /\ IsFiniteSet(Cards)
  /\ NBits \in Nat /\ NPorts \in Nat /\ Letters \in Nat \ {0}
  /\ SuperIo \notin Cards \cup {NameOf[c] : c \in Cards}
  /\ Serial \in [Cards -> [Bits -> {0, 1}]]

(* No two cards have one serial number, and none has an all-zero one.      *)
ASSUME SerialsDiffer ==
  \A c \in Cards :
    /\ \E b \in Bits : Serial[c][b] = 1
    /\ \A d \in Cards \ {c} : Serial[c] # Serial[d]

VARIABLES
  cardState,   \* state of each card
  cardCsn,     \* its Card Select Number, 0 before one is assigned
  noisy,       \* the ports where other hardware answers too
  umc,         \* is there a UMC Super I/O?
  pc,
  port,        \* rd_data
  bit,         \* the pair to read next
  identifier,  \* the bits read so far
  seen55aa, seenLife,
  garbled,     \* history: identifier is not what the cards sent
  csn,
  listed,      \* the list first_card: how often each PnP ID is in it
  files,       \* what each dump file was read from: devices that answered
  lost         \* devices whose last dump file could not be created

cards == <<cardState, cardCsn>>
round == <<bit, identifier, seen55aa, seenLife, garbled>>
dumps == <<listed, files, lost>>
vars == <<cards, noisy, umc, pc, port, round, csn, dumps>>

InState(s) == {c \in Cards : cardState[c] = s}

-----------------------------------------------------------------------------
(* The cards' answers to commands.                                         *)

(* Wake[n]: the cards numbered n leave Sleep, all others go there.         *)
Woken(csns, n) ==
  [c \in Cards |-> IF csns[c] # n THEN "Sleep"
                   ELSE IF n = 0 THEN "Isolation" ELSE "Config"]

(* Writing a CSN: the card left in Isolation takes it.                     *)
Numbered(n) ==
  [c \in Cards |-> IF cardState[c] = "Isolation" THEN n ELSE cardCsn[c]]

(* One pair of reads: a card in Isolation drives 55AA for a 1 bit; one     *)
(* with a 0 bit listens and leaves when it hears 55AA.                     *)
Driving == {c \in InState("Isolation") : Serial[c][bit] = 1}
AfterPair(pattern) ==
  [c \in Cards |->
     IF pattern = "55aa" /\ c \in InState("Isolation") \ Driving
     THEN "Sleep" ELSE cardState[c]]

Patterns ==
  {IF Driving # {} THEN "55aa" ELSE "ffff"}
    \cup (IF port \in noisy THEN {"55aa", "other"} ELSE {})

-----------------------------------------------------------------------------
Init ==
  /\ cardState \in [Cards -> {"WaitForKey", "Config"}]
  /\ cardCsn \in [Cards -> {0, 1}]
  /\ noisy \in SUBSET Ports
  /\ umc \in BOOLEAN
  /\ pc = "port" /\ port = 0
  /\ bit = 1 /\ identifier = [b \in Bits |-> 0]
  /\ seen55aa = FALSE /\ seenLife = FALSE /\ garbled = FALSE
  /\ csn = -1
  /\ listed = [n \in Names |-> 0]
  /\ files = [f \in Names \X (0 .. Letters - 1) |-> {}]
  /\ lost = {}

(* Mutant: the CSNs of an earlier enumeration are not reset.               *)
TryPortKeepsCsns ==
  /\ pc = "port" /\ port < NPorts
  /\ port' = port + 1
  /\ cardState' = Woken(cardCsn, 0)
  /\ csn' = 0
  /\ pc' = IF umc THEN "superio" ELSE "isolate"
  /\ UNCHANGED <<cardCsn, noisy, umc, round, dumps>>

(* The loop of main and the head of try_isolate: unlock (all cards to      *)
(* Sleep), reset the CSNs, wake the cards without one, set the read port.  *)
TryPort ==
  /\ pc = "port" /\ port < NPorts
  /\ port' = port + 1
  /\ cardCsn' = [c \in Cards |-> 0]
  /\ cardState' = Woken(cardCsn', 0)
  /\ csn' = 0
  /\ pc' = IF umc THEN "superio" ELSE "isolate"
  /\ UNCHANGED <<noisy, umc, round, dumps>>

(* Mutant: every file of a PnP ID has the same letter.                     *)
DumpOneLetter(name, devices) ==
  /\ listed' = [listed EXCEPT ![name] = @ + 1]
  /\ \/ /\ files' = [files EXCEPT ![<<name, 0>>] = devices]
        /\ lost' = lost \ devices
     \/ /\ lost' = lost \cup devices
        /\ UNCHANGED files

(* dump_resource_data: the file's letter counts the earlier dumps of this  *)
(* PnP ID; the file holds what the cards in Config answer.                 *)
Dump(name, devices) ==
  LET file == <<name, listed[name] % Letters>>
  IN /\ listed' = [listed EXCEPT ![name] = @ + 1]
     /\ \/ /\ files' = [files EXCEPT ![file] = devices]
           /\ lost' = lost \ devices
        \/ /\ lost' = lost \cup devices        \* fopen failed
           /\ UNCHANGED files

(* A UMC Super I/O chip is dumped before the cards.                        *)
DumpSuperIo ==
  /\ pc = "superio"
  /\ Dump(SuperIo, {SuperIo})
  /\ pc' = "isolate"
  /\ UNCHANGED <<cards, noisy, umc, port, round, csn>>

(* Serial isolation of the cards that are in Isolation.                    *)
StartRound ==
  /\ pc = "isolate"
  /\ bit' = 1
  /\ identifier' = [b \in Bits |-> 0]
  /\ seen55aa' = FALSE /\ seenLife' = FALSE /\ garbled' = FALSE
  /\ pc' = "read"
  /\ UNCHANGED <<cards, noisy, umc, port, csn, dumps>>

ReadPair ==
  /\ pc = "read" /\ bit <= NBits
  /\ \E pattern \in Patterns :
       /\ seenLife' = (seenLife \/ pattern # "ffff")
       /\ seen55aa' = (seen55aa \/ pattern = "55aa")
       /\ identifier' = [identifier EXCEPT ![bit] = IF pattern = "55aa" THEN 1 ELSE 0]
       /\ garbled' = (garbled \/ (pattern = "55aa") # (Driving # {}))
       /\ cardState' = AfterPair(pattern)
  /\ bit' = bit + 1
  /\ UNCHANGED <<cardCsn, noisy, umc, pc, port, csn, dumps>>

(* No 55AA pattern: all cards are done, or the port is not usable.         *)
NoMoreCards ==
  /\ pc = "read" /\ bit > NBits
  /\ ~seen55aa
  /\ csn' = IF csn = 0 /\ seenLife THEN -1 ELSE csn
  /\ pc' = "close"
  /\ UNCHANGED <<cards, noisy, umc, port, round, dumps>>

(* Mutant: the count of cards found so far is returned, negated.           *)
BadChecksumCounts ==
  /\ pc = "read" /\ bit > NBits
  /\ seen55aa /\ garbled
  /\ csn' = -1 - csn
  /\ pc' = "close"
  /\ UNCHANGED <<cards, noisy, umc, port, round, dumps>>

(* Mutant: a return in the middle of try_isolate.                          *)
BadChecksumReturns ==
  /\ pc = "read" /\ bit > NBits
  /\ seen55aa /\ garbled
  /\ csn' = -1
  /\ pc' = IF port = NPorts THEN "done" ELSE "port"
  /\ UNCHANGED <<cards, noisy, umc, port, round, dumps>>

BadChecksum ==
  /\ pc = "read" /\ bit > NBits
  /\ seen55aa /\ garbled
  /\ csn' = -1
  /\ pc' = "close"
  /\ UNCHANGED <<cards, noisy, umc, port, round, dumps>>

(* Mutant: the card is woken by its number before it has it.               *)
AssignWakesFirst ==
  /\ pc = "read" /\ bit > NBits
  /\ seen55aa /\ ~garbled
  /\ csn' = csn + 1
  /\ cardCsn' = Numbered(csn')
  /\ cardState' = Woken(cardCsn, csn')
  /\ pc' = "dump"
  /\ UNCHANGED <<noisy, umc, port, round, dumps>>

(* Assign the next CSN to the isolated card and wake it by that number.    *)
Assign ==
  /\ pc = "read" /\ bit > NBits
  /\ seen55aa /\ ~garbled
  /\ csn' = csn + 1
  /\ cardCsn' = Numbered(csn')
  /\ cardState' = Woken(cardCsn', csn')
  /\ pc' = "dump"
  /\ UNCHANGED <<noisy, umc, port, round, dumps>>

(* The name of the dump file comes from the identifier.                    *)
DumpCard ==
  /\ pc = "dump"
  /\ \E c \in Cards : Serial[c] = identifier /\ Dump(NameOf[c], InState("Config"))
  /\ cardState' = Woken(cardCsn, 0)
  /\ pc' = "isolate"
  /\ UNCHANGED <<cardCsn, noisy, umc, port, round, csn>>

(* Mutant: a bad port is isolated again and again.                         *)
CloseRetries ==
  /\ pc = "close"
  /\ cardState' = [c \in Cards |-> "WaitForKey"]
  /\ pc' = IF csn >= 0 THEN "done" ELSE "isolate"
  /\ UNCHANGED <<cardCsn, noisy, umc, port, round, csn, dumps>>

(* All cards to Wait for Key; main goes on with the next port if this one  *)
(* was no good and there is one.                                           *)
Close ==
  /\ pc = "close"
  /\ cardState' = [c \in Cards |-> "WaitForKey"]
  /\ pc' = IF csn >= 0 \/ port = NPorts THEN "done" ELSE "port"
  /\ UNCHANGED <<cardCsn, noisy, umc, port, round, csn, dumps>>

Ended == pc = "done" /\ UNCHANGED vars

Step == TryPort \/ DumpSuperIo \/ StartRound \/ ReadPair \/ NoMoreCards
          \/ BadChecksum \/ Assign \/ DumpCard \/ Close
Next == Step \/ Ended

Spec == Init /\ [][Next]_vars
(* A sequential program: it takes its next step.                           *)
FairSpec == Spec /\ WF_vars(Step)

-----------------------------------------------------------------------------
TypeOK ==
  /\ cardState \in [Cards -> {"WaitForKey", "Sleep", "Isolation", "Config"}]
  /\ cardCsn \in [Cards -> Nat]
  /\ noisy \subseteq Ports
  /\ umc \in BOOLEAN
  /\ pc \in {"port", "superio", "isolate", "read", "dump", "close", "done"}
  /\ port \in 0 .. NPorts
  /\ bit \in 1 .. NBits + 1
  /\ identifier \in [Bits -> {0, 1}]
  /\ seen55aa \in BOOLEAN /\ seenLife \in BOOLEAN /\ garbled \in BOOLEAN
  /\ csn \in Nat \cup {-1}
  /\ listed \in [Names -> Nat]
  /\ files \in [Names \X (0 .. Letters - 1) -> SUBSET (Cards \cup {SuperIo})]
  /\ lost \subseteq Cards \cup {SuperIo}

(* When a card's resource data is read, exactly one card is configured to  *)
(* answer: the one with the identifier the host has read, under the CSN    *)
(* the host has given it.                                                  *)
OneCardAnswers ==
  pc = "dump" =>
    \E c \in Cards :
      /\ InState("Config") = {c}
      /\ Serial[c] = identifier
      /\ cardCsn[c] = csn

(* Once try_isolate has reset the cards, no two share a number and none    *)
(* has one the host has not counted.                                       *)
CsnsDiffer ==
  pc \notin {"port", "close", "done"} =>
    \A c \in Cards :
      /\ cardCsn[c] <= csn
      /\ \A d \in Cards \ {c} : cardCsn[c] = cardCsn[d] => cardCsn[c] = 0

(* When the tool ends on a port nothing else answers on, its count is the  *)
(* number of cards, and every card has a file of its own, whatever was     *)
(* dumped on ports that turned out bad, unless its file was not created.   *)
(* (On a noisy port a round that meets life but no 55AA ends the           *)
(* enumeration as if no card were left, once one has been found.)          *)
EveryCardDumped ==
  pc = "done" /\ csn >= 0 /\ port \notin noisy /\ Cardinality(Cards) <= Letters =>
    /\ csn = Cardinality(Cards)
    /\ \A c \in Cards \ lost :
         \E i \in 0 .. Letters - 1 : files[<<NameOf[c], i>>] = {c}

(* The tool leaves the bus quiet: every card is back in Wait for Key, on   *)
(* each way out of try_isolate.                                            *)
QuietAtExit == pc = "done" => InState("WaitForKey") = Cards

(* Isolation always comes to an end.                                       *)
Terminates == <>(pc = "done")
=============================================================================
