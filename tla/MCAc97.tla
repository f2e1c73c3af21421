------------------------------- MODULE MCAc97 -------------------------------
(* Four registers: the reset, one that is written, one that is modified,    *)
(* one that is left alone.  I/O space has three ranges of 256 ports.        *)
EXTENDS Ac97

MCSettings == <<<<"write", 1>>, <<"modify", 2>>>>

Dev(kind, decodes, sticks) == [kind |-> kind, decodes |-> decodes, sticks |-> sticks]

One(dev, main, alt) == [hw |-> {}, devices |-> <<dev>>, bars |-> <<<<main, alt>>>>]

(* One controller with ranges from the BIOS, enabled or not.                *)
Assigned ==
  {One(Dev(kind, d, TRUE), First, First + Size("Intel")) : kind \in Kinds, d \in BOOLEAN}

(* One controller that cannot get a range.                                  *)
Hopeless ==
  {One(Dev(kind, TRUE, FALSE), main, alt) :
     kind \in {"EMU10K", "VIA686", "Intel"}, main \in {NoBar, Unassigned, First},
     alt \in {NoBar, Unassigned}}

(* Nothing is in the way; a bit is; or everything is.                       *)
Obstacles == {{}, {First, First + 5}, First .. Units - 1}

(* Two controllers, of the same or of different sizes, without ranges, or   *)
(* the first with one of the BIOS.                                          *)
Pairs ==
  {[hw |-> hw, devices |-> <<Dev(k1, TRUE, TRUE), Dev(k2, TRUE, TRUE)>>,
    bars |-> <<<<b, Unassigned>>, <<Unassigned, Unassigned>>>>] :
     hw \in Obstacles, k1 \in {"EMU10K", "Intel"}, k2 \in {"EMU10K", "Intel"},
     b \in {Unassigned, First + Size("Intel")}}

(* A range of 64 ports in the middle of one that looks free for 256.        *)
Missed ==
  {[hw |-> {}, devices |-> <<Dev("EMU10K", TRUE, TRUE), Dev("Intel", TRUE, TRUE)>>,
    bars |-> <<<<First + 1, NoBar>>, <<Unassigned, NoBar>>>>]}

(* Controllers with I/O off: without ranges, of which the same one may then *)
(* be assigned twice.                                                       *)
Off ==
  {[hw |-> {}, devices |-> <<Dev(k1, d1, TRUE), Dev("Intel", d2, TRUE)>>,
    bars |-> <<<<Unassigned, Unassigned>>, <<Unassigned, Unassigned>>>>] :
     k1 \in {"AudioPCI", "Intel"}, d1 \in BOOLEAN, d2 \in BOOLEAN}

(* Intel's second BAR need not be aligned to 256 ports, and below that it   *)
(* counts as unassigned.                                                    *)
Unaligned ==
  {[hw |-> {}, devices |-> <<Dev("Intel", TRUE, s), Dev("EMU10K", TRUE, TRUE)>>,
    bars |-> <<<<main, alt>>, <<Unassigned, NoBar>>>>] :
     main \in {Unassigned, First}, alt \in {1, First + 1, First + 3, First + 5},
     s \in BOOLEAN}

MCMachines == Missed \cup Assigned \cup Hopeless \cup Pairs \cup Off \cup Unaligned
=============================================================================
