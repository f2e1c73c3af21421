---------------------------- MODULE MCIsaPnpDump ----------------------------
(* A two-byte header and a four-byte buffer, so that it wraps in the        *)
(* header's neighbourhood, inside resources and at their ends.              *)
EXTENDS IsaPnpDump

Good(body) == <<1, 2>> \o body \o <<9, 9>>
Vendor == <<10, 0, 255>>              \* small resource, 2 bytes
Ansi(n) == <<130, n, 0>> \o [i \in 1 .. n |-> 60 + i]
Large(n) == <<132, n, 0>> \o [i \in 1 .. n |-> 121]
Device(n) == <<16 + n>> \o [i \in 1 .. n |-> 40 + i]
End == <<121, 7>>
ShortEnd == <<120, 7>>

MCStreams ==
  {Good(Vendor \o End), Good(Vendor \o Ansi(2) \o Device(5) \o ShortEnd),
   Good(Large(3) \o Device(3) \o End), Good(Ansi(0) \o Device(4) \o End),
   Good(Large(6) \o Vendor \o ShortEnd), Good(Device(6) \o Ansi(5) \o End),
   Good(Vendor \o <<255>> \o End), Good(Vendor \o <<0>>),
   <<0, 0>> \o Vendor \o End, <<255, 255, 121, 7>>, <<0, 255>> \o End,
   <<>>, <<TimedOut, 2, 121, 7>>, <<1, TimedOut, 10, 5, TimedOut, 121, 7, 9>>,
   <<1, 2, 130, 2, TimedOut, 65, 66, 121, 7, 9>>, <<1, 2, 10, TimedOut, 6, 7>>,
   <<1, 2, 132, 3, 1, 5, 5, TimedOut, 5>>}

MCStale == {[i \in 0 .. BufSize - 1 |-> v] : v \in {0, 255, 33}}
=============================================================================
