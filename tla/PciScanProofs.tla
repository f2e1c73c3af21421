--------------------------- MODULE PciScanProofs ----------------------------
(***************************************************************************)
(* No walk reports a function twice, and every walk reports what there is  *)
(* to be found and nothing else, whatever the configuration space, as long *)
(* as its bridges are numbered; and what pcireg -s draws is the tree.      *)
(***************************************************************************)
EXTENDS PciScan, SequenceTheorems, FiniteSetTheorems, TLAPS

AnyCall == [bus : Buses, dev : Nat, func : Nat, counts : BOOLEAN,
            ret : Nat \X Nat, cut : Nat]

Drawing == {k \in DOMAIN stack : ~stack[k].counts}

(* The walk of a call has passed the location.                             *)
Passed(l, call) == \/ Dev(l) < call.dev
                   \/ Dev(l) = call.dev /\ Func(l) < call.func

BridgeReported(bus) == \E k \in DOMAIN lines : space[lines[k].at].to = bus

Shape ==
  /\ space \in Spaces
  /\ stack \in Seq(AnyCall)
  /\ \E S : nesting_buf \in Seq(S)
  /\ \E S : lines \in Seq(S)
  /\ \A k \in DOMAIN lines : lines[k].at \in DOMAIN space

(* The calls in progress are on different buses, outer ones on lower ones. *)
CallsDescend ==
  \A j, k \in Drawing : j < k => stack[j].bus > stack[k].bus

(* What has been reported of a bus being walked is behind the walk.        *)
LinesBehind ==
  \A k \in Drawing : \A j \in DOMAIN lines :
    Bus(lines[j].at) = stack[k].bus => Passed(lines[j].at, stack[k])

(* No bus is walked before its bridge is reported.                         *)
BridgesFirst ==
  /\ \A k \in Drawing : stack[k].bus = Root \/ BridgeReported(stack[k].bus)
  /\ \A k \in DOMAIN lines : Bus(lines[k].at) = Root \/ BridgeReported(Bus(lines[k].at))

IInv == Shape /\ CallsDescend /\ LinesBehind /\ BridgesFirst /\ ReportsOnce

-----------------------------------------------------------------------------
(* What is pushed comes first, and everything else one later.              *)
LEMMA PushAdds ==
  ASSUME NEW call \in AnyCall, NEW calls \in Seq(AnyCall)
  PROVE  /\ Push(call, calls) \in Seq(AnyCall)
         /\ Len(Push(call, calls)) = Len(calls) + 1
         /\ Push(call, calls)[1] = call
         /\ \A k \in 1 .. Len(calls) : Push(call, calls)[k + 1] = calls[k]
<1> DEFINE one == <<call>>
<1>1. one \in Seq(AnyCall) /\ Len(one) = 1 /\ one[1] = call
  OBVIOUS
<1>2. Push(call, calls) = one \o calls
  BY DEF Push
<1> HIDE DEF one
<1>3. one \o calls \in Seq(AnyCall) /\ Len(one \o calls) = Len(calls) + 1
  BY <1>1, ConcatProperties
<1>4. (one \o calls)[1] = call
  BY <1>1, ConcatProperties
<1>5. ASSUME NEW k \in 1 .. Len(calls) PROVE (one \o calls)[k + 1] = calls[k]
  <2>1. k + 1 \in 1 .. Len(one) + Len(calls) /\ ~(k + 1 <= Len(one))
        /\ (k + 1) - Len(one) = k
    BY <1>1
  <2>2. (one \o calls)[k + 1] = calls[(k + 1) - Len(one)]
    BY <1>1, <2>1, ConcatProperties
  <2> QED BY <2>1, <2>2
<1> QED BY <1>2, <1>3, <1>4, <1>5

(* Entering a bus puts its call, and perhaps one that counts, before those *)
(* in progress.                                                            *)
LEMMA EnterAdds ==
  ASSUME NEW bus \in Buses, NEW calls \in Seq(AnyCall)
  PROVE  /\ Enter(bus, calls) \in Seq(AnyCall)
         /\ \E e \in {1, 2} :
              /\ Len(Enter(bus, calls)) = Len(calls) + e
              /\ \A k \in 1 .. Len(calls) : Enter(bus, calls)[k + e] = calls[k]
              /\ Enter(bus, calls)[e] = Scan(bus)
              /\ e = 2 => Enter(bus, calls)[1] = Counting(bus) /\ Enter(bus, calls)[1].counts
              /\ e = 2 <=> tool = "pcireg"
<1>1. Counting(bus) \in AnyCall /\ Scan(bus) \in AnyCall
  BY DEF Scan, Counting, AnyCall
<1>2. Counting(bus).counts
  BY DEF Scan, Counting
<1> DEFINE scans == Push(Scan(bus), calls)
<1>3. /\ scans \in Seq(AnyCall)
      /\ Len(scans) = Len(calls) + 1
      /\ scans[1] = Scan(bus)
      /\ \A k \in 1 .. Len(calls) : scans[k + 1] = calls[k]
  BY <1>1, PushAdds
<1>4. Enter(bus, calls) = IF tool = "pcireg" THEN Push(Counting(bus), scans) ELSE scans
  BY DEF Enter
<1> HIDE DEF scans
<1>5. CASE tool = "pcireg"
  <2>1. /\ Push(Counting(bus), scans) \in Seq(AnyCall)
        /\ Len(Push(Counting(bus), scans)) = Len(scans) + 1
        /\ Push(Counting(bus), scans)[1] = Counting(bus)
        /\ \A k \in 1 .. Len(scans) : Push(Counting(bus), scans)[k + 1] = scans[k]
    BY <1>1, <1>3, PushAdds
  <2>2. Len(calls) \in Nat
    OBVIOUS
  <2>3. \A k \in 1 .. Len(calls) : Enter(bus, calls)[k + 2] = calls[k]
    <3> SUFFICES ASSUME NEW k \in 1 .. Len(calls) PROVE Enter(bus, calls)[k + 2] = calls[k]
      OBVIOUS
    <3>1. k + 1 \in 1 .. Len(scans) /\ (k + 1) + 1 = k + 2
      BY <1>3, <2>2
    <3> QED BY <1>3, <1>4, <1>5, <2>1, <3>1
  <2>4. Enter(bus, calls)[2] = scans[1]
    <3>1. 1 \in 1 .. Len(scans)
      BY <1>3, <2>2
    <3> QED BY <1>4, <1>5, <2>1, <3>1
  <2>5. Len(Enter(bus, calls)) = Len(calls) + 2
    BY <1>3, <1>4, <1>5, <2>1, <2>2
  <2> QED BY <1>2, <1>3, <1>4, <1>5, <2>1, <2>3, <2>4, <2>5
<1>6. CASE tool # "pcireg"
  BY <1>3, <1>4, <1>6
<1> QED BY <1>5, <1>6

(* A call that goes on stays a call of its bus and has passed what it had  *)
(* passed before, and where it was.                                        *)
GoesOn(call, next) ==
  /\ next \in AnyCall
  /\ next.bus = call.bus /\ next.counts = call.counts
  /\ \A l \in Locations : Passed(l, call) => Passed(l, next)
  /\ \A l \in Locations :
       Dev(l) = call.dev /\ Func(l) = call.func => Passed(l, next)

LEMMA NextGoesOn ==
  ASSUME NEW call \in AnyCall, FunctionCount \in Nat
  PROVE  GoesOn(call, NextDevice(call)) /\ GoesOn(call, NextFunction(call))
<1>1. \A l \in Locations : Dev(l) \in Nat /\ Func(l) \in Nat
  BY DEF Locations, Dev, Func
<1>2. ASSUME NEW next \in AnyCall, next.bus = call.bus, next.counts = call.counts,
             \/ next.dev = call.dev + 1
             \/ next.dev = call.dev /\ next.func = call.func + 1
      PROVE  GoesOn(call, next)
  <2>1. call.dev \in Nat /\ call.func \in Nat
    BY DEF AnyCall
  <2>2. ASSUME NEW l \in Locations, Passed(l, call) PROVE Passed(l, next)
    BY <1>1, <1>2, <2>1, <2>2 DEF Passed
  <2>3. ASSUME NEW l \in Locations, Dev(l) = call.dev, Func(l) = call.func
        PROVE  Passed(l, next)
    BY <1>1, <1>2, <2>1, <2>3 DEF Passed
  <2> QED BY <1>2, <2>2, <2>3 DEF GoesOn
<1>3. /\ NextDevice(call) \in AnyCall
      /\ NextDevice(call).bus = call.bus
      /\ NextDevice(call).counts = call.counts
      /\ NextDevice(call).dev = call.dev + 1
  <2> DEFINE dev1 == [call EXCEPT !.dev = @ + 1]
  <2>1. /\ dev1 \in AnyCall /\ dev1.bus = call.bus /\ dev1.counts = call.counts
        /\ dev1.dev = call.dev + 1
    BY DEF AnyCall
  <2>2. NextDevice(call) = [dev1 EXCEPT !.func = 0]
    BY DEF NextDevice, AnyCall
  <2> HIDE DEF dev1
  <2> QED BY <2>1, <2>2 DEF AnyCall
<1>4. GoesOn(call, NextDevice(call))
  BY <1>2, <1>3
<1> DEFINE next == [call EXCEPT !.func = @ + 1]
<1>5. /\ next \in AnyCall /\ next.bus = call.bus /\ next.counts = call.counts
      /\ next.dev = call.dev /\ next.func = call.func + 1
  BY DEF AnyCall
<1>6. GoesOn(call, next)
  BY <1>2, <1>5
<1> QED BY <1>4, <1>6 DEF NextFunction
-----------------------------------------------------------------------------
LEMMA InitIInv == Init => IInv
<1> SUFFICES ASSUME Init PROVE IInv
  OBVIOUS
<1>1. Root \in Buses /\ <<>> \in Seq(AnyCall) /\ Len(<<>>) = 0
  BY PciScanAssumption
<1>2. PICK e \in {1, 2} :
        /\ stack \in Seq(AnyCall) /\ Len(stack) = e
        /\ stack[e] = Scan(Root)
        /\ e = 2 => stack[1].counts
  <2>1. stack = Enter(Root, <<>>)
    BY DEF Init
  <2>2. PICK e \in {1, 2} :
          /\ Len(Enter(Root, <<>>)) = Len(<<>>) + e
          /\ Enter(Root, <<>>)[e] = Scan(Root)
          /\ e = 2 => Enter(Root, <<>>)[1].counts
    BY <1>1, EnterAdds
  <2>3. Enter(Root, <<>>) \in Seq(AnyCall)
    BY <1>1, EnterAdds
  <2>4. Len(<<>>) + e = e
    BY <1>1
  <2>5. Len(stack) = e /\ stack[e] = Scan(Root) /\ (e = 2 => stack[1].counts)
    BY <2>1, <2>2, <2>4
  <2>6. stack \in Seq(AnyCall)
    BY <2>1, <2>3
  <2> QED BY <2>5, <2>6
<1>3. Drawing \subseteq {e}
  BY <1>2 DEF Drawing
<1>4. stack[e].bus = Root
  BY <1>2 DEF Scan
<1>5. \A k \in DOMAIN lines : FALSE
  BY DEF Init
<1>6. Shape
  BY <1>2, <1>5 DEF Shape, Init
<1>7. CallsDescend
  BY <1>3 DEF CallsDescend
<1> QED
  BY <1>3, <1>4, <1>5, <1>6, <1>7 DEF IInv, LinesBehind, BridgesFirst, ReportsOnce

(* What the invariant says of the innermost call.                          *)
LEMMA TopFacts ==
  ASSUME Shape, stack # <<>>
  PROVE  /\ Top \in AnyCall /\ 1 \in DOMAIN stack
         /\ DOMAIN stack = 1 .. Len(stack) /\ Len(stack) \in Nat
         /\ \A k \in DOMAIN stack : stack[k] \in AnyCall
         /\ Spaces # {} /\ DOMAIN space \subseteq Locations
  BY PciScanAssumption DEF Shape, Top

(* Only the innermost call goes on, and nothing is reported.               *)
LEMMA TopGoesOn ==
  ASSUME IInv, stack # <<>>, NEW next, GoesOn(Top, next),
         stack' = [stack EXCEPT ![1] = next],
         UNCHANGED <<space, lines>>, \E S : nesting_buf' \in Seq(S)
  PROVE  IInv'
<1> USE DEF IInv
<1>1. /\ Top \in AnyCall /\ 1 \in DOMAIN stack
      /\ DOMAIN stack = 1 .. Len(stack) /\ Len(stack) \in Nat
      /\ \A k \in DOMAIN stack : stack[k] \in AnyCall
      /\ DOMAIN space \subseteq Locations
  BY TopFacts
<1>2. /\ stack' \in Seq(AnyCall) /\ DOMAIN stack' = DOMAIN stack
      /\ stack'[1] = next
      /\ \A k \in DOMAIN stack : k # 1 => stack'[k] = stack[k]
  BY <1>1 DEF Shape, GoesOn
<1>3. \A k \in DOMAIN stack : stack'[k].bus = stack[k].bus /\ stack'[k].counts = stack[k].counts
  BY <1>2 DEF GoesOn, Top
<1>4. Drawing' = Drawing
  BY <1>2, <1>3 DEF Drawing
<1>5. \A k \in DOMAIN stack : \A l \in Locations : Passed(l, stack[k]) => Passed(l, stack'[k])
  BY <1>2 DEF GoesOn, Top
<1>6. Shape'
  BY <1>2 DEF Shape
<1>7. CallsDescend'
  BY <1>3, <1>4 DEF CallsDescend, Drawing
<1>8. LinesBehind'
  <2> SUFFICES ASSUME NEW k \in Drawing, NEW j \in DOMAIN lines,
                      Bus(lines[j].at) = stack'[k].bus
               PROVE  Passed(lines[j].at, stack'[k])
    BY <1>4 DEF LinesBehind
  <2>1. k \in DOMAIN stack /\ lines[j].at \in Locations
    BY <1>1 DEF Drawing, Shape
  <2>2. Passed(lines[j].at, stack[k])
    BY <1>3, <2>1 DEF LinesBehind
  <2> QED BY <1>5, <2>1, <2>2
<1>9. BridgesFirst' /\ ReportsOnce'
  BY <1>3, <1>4 DEF BridgesFirst, BridgeReported, ReportsOnce, Drawing
<1> QED BY <1>6, <1>7, <1>8, <1>9

(* The innermost call is over.                                             *)
LEMMA TopReturns ==
  ASSUME IInv, stack # <<>>, Len(stack') = Len(stack) - 1, stack' \in Seq(AnyCall),
         \A k \in 1 .. Len(stack) - 1 :
           /\ stack'[k].bus = stack[k + 1].bus
           /\ stack'[k].counts = stack[k + 1].counts
           /\ stack'[k].dev = stack[k + 1].dev
           /\ stack'[k].func = stack[k + 1].func,
         UNCHANGED <<space, lines>>, \E S : nesting_buf' \in Seq(S)
  PROVE  IInv'
<1> USE DEF IInv
<1>1. DOMAIN stack = 1 .. Len(stack) /\ Len(stack) \in Nat
  BY TopFacts
<1>2. DOMAIN stack' = 1 .. Len(stack) - 1
  BY <1>1
<1>3. \A k \in DOMAIN stack' : k + 1 \in DOMAIN stack
  BY <1>1, <1>2
<1>4. \A k \in Drawing' : k + 1 \in Drawing
  BY <1>2, <1>3 DEF Drawing
<1>5. Shape'
  BY DEF Shape
<1>6. CallsDescend'
  <2> SUFFICES ASSUME NEW j \in Drawing', NEW k \in Drawing', j < k
               PROVE  stack'[j].bus > stack'[k].bus
    BY DEF CallsDescend
  <2>1. j + 1 \in Drawing /\ k + 1 \in Drawing /\ j + 1 < k + 1
    BY <1>2, <1>4 DEF Drawing
  <2> QED BY <1>2, <2>1 DEF CallsDescend, Drawing
<1>7. LinesBehind'
  <2> SUFFICES ASSUME NEW k \in Drawing', NEW j \in DOMAIN lines,
                      Bus(lines[j].at) = stack'[k].bus
               PROVE  Passed(lines[j].at, stack'[k])
    BY DEF LinesBehind
  <2>1. Passed(lines[j].at, stack[k + 1])
    BY <1>2, <1>4 DEF LinesBehind, Drawing
  <2> QED BY <1>2, <2>1 DEF Passed, Drawing
<1>8. BridgesFirst' /\ ReportsOnce'
  BY <1>2, <1>4 DEF BridgesFirst, BridgeReported, ReportsOnce, Drawing
<1> QED BY <1>5, <1>6, <1>7, <1>8

(* The innermost call is on the highest bus.  Neither the function it is   *)
(* at has been reported, nor, behind a bridge, the bus it leads to.        *)
LEMMA HereIsNew ==
  ASSUME IInv, stack # <<>>, ~Top.counts, Here \in DOMAIN space
  PROVE  /\ \A j \in DOMAIN lines : lines[j].at # Here
         /\ \A k \in Drawing : k # 1 => stack[k].bus < Top.bus
         /\ space[Here].to # Root =>
              /\ space[Here].to \in Nat /\ space[Here].to > Top.bus
              /\ \A j \in DOMAIN lines : /\ Bus(lines[j].at) # space[Here].to
                                        /\ space[lines[j].at].to # space[Here].to
<1> USE DEF IInv
<1> DEFINE to == space[Here].to
<1>1. /\ Top \in AnyCall /\ 1 \in DOMAIN stack
      /\ DOMAIN stack = 1 .. Len(stack) /\ Len(stack) \in Nat
      /\ \A k \in DOMAIN stack : stack[k] \in AnyCall
      /\ DOMAIN space \subseteq Locations
  BY TopFacts
<1>2. 1 \in Drawing /\ stack[1] = Top
  BY <1>1 DEF Drawing, Top
<1>3. Here \in Locations /\ Bus(Here) = Top.bus /\ Dev(Here) = Top.dev /\ Func(Here) = Top.func
  BY <1>1 DEF Here, Bus, Dev, Func
<1>4. \A j \in DOMAIN lines : lines[j].at # Here
  <2>1. Top.dev \in Nat /\ Top.func \in Nat
    BY <1>1 DEF AnyCall
  <2>2. ~Passed(Here, Top)
    BY <1>3, <2>1 DEF Passed
  <2> QED BY <1>2, <1>3, <2>2 DEF LinesBehind
<1>5. \A k \in Drawing : k # 1 => stack[k].bus < Top.bus
  <2> SUFFICES ASSUME NEW k \in Drawing, k # 1 PROVE stack[k].bus < Top.bus
    OBVIOUS
  <2>1. k \in DOMAIN stack /\ 1 < k
    BY <1>1 DEF Drawing
  <2>2. stack[1].bus > stack[k].bus
    BY <1>2, <2>1 DEF CallsDescend
  <2>3. stack[k].bus \in Nat /\ Top.bus \in Nat
    BY <1>1, <2>1, PciScanAssumption DEF AnyCall
  <2> QED BY <1>2, <2>2, <2>3
<1>6. ASSUME to # Root
      PROVE  /\ to \in Nat /\ to > Top.bus
             /\ \A j \in DOMAIN lines : Bus(lines[j].at) # to /\ space[lines[j].at].to # to
  <2>1. Numbered(space)
    BY PciScanAssumption DEF Shape
  <2>2. to > Top.bus
    BY <1>3, <1>6, <2>1 DEF Numbered
  <2>3. to \in Nat
    BY PciScanAssumption DEF Shape, Headers
  <2>4. \A j \in DOMAIN lines : space[lines[j].at].to # to
    BY <1>4, <1>6, <2>1 DEF Numbered, Shape
  <2>5. ASSUME NEW j \in DOMAIN lines, Bus(lines[j].at) = to PROVE FALSE
    BY <1>6, <2>4, <2>5 DEF BridgesFirst, BridgeReported
  <2> QED BY <2>2, <2>3, <2>4, <2>5
<1> QED BY <1>4, <1>5, <1>6

(* The innermost call reports the function it is at, and goes on, perhaps  *)
(* after a call for the bus behind it.                                     *)
LEMMA TopReports ==
  ASSUME IInv, stack # <<>>, ~Top.counts, Here \in DOMAIN space,
         NEW next, GoesOn(Top, next),
         NEW line, line.at = Here, lines' = Append(lines, line),
         NEW e \in {0, 1, 2},
         stack' \in Seq(AnyCall), Len(stack') = Len(stack) + e,
         \A k \in 1 .. Len(stack) : stack'[k + e] = IF k = 1 THEN next ELSE stack[k],
         \A k \in 1 .. e :
           \/ stack'[k].counts
           \/ k = e /\ space[Here].to # Root /\ stack'[k].bus = space[Here].to,
         UNCHANGED space, \E S : nesting_buf' \in Seq(S)
  PROVE  IInv'
<1> USE DEF IInv
<1> DEFINE to == space[Here].to
<1>1. /\ Top \in AnyCall /\ 1 \in DOMAIN stack
      /\ DOMAIN stack = 1 .. Len(stack) /\ Len(stack) \in Nat
      /\ \A k \in DOMAIN stack : stack[k] \in AnyCall
      /\ DOMAIN space \subseteq Locations
  BY TopFacts
<1>2. 1 \in Drawing /\ stack[1] = Top
  BY <1>1 DEF Drawing, Top
<1>3. Here \in Locations /\ Bus(Here) = Top.bus /\ Dev(Here) = Top.dev /\ Func(Here) = Top.func
  BY <1>1 DEF Here, Bus, Dev, Func
<1>4. \A j \in DOMAIN lines : lines[j].at # Here
  BY HereIsNew
<1>5. /\ Len(lines) \in Nat /\ DOMAIN lines = 1 .. Len(lines)
      /\ DOMAIN lines' = 1 .. Len(lines) + 1
      /\ \A j \in DOMAIN lines : lines'[j].at = lines[j].at
      /\ lines'[Len(lines) + 1].at = Here
  <2>1. PICK S : lines \in Seq(S)
    BY DEF Shape
  <2>2. lines \in Seq(S \cup {line}) /\ line \in S \cup {line}
    BY <2>1
  <2>3. /\ lines' \in Seq(S \cup {line}) /\ Len(lines') = Len(lines) + 1
        /\ \A j \in 1 .. Len(lines) : lines'[j] = lines[j]
        /\ lines'[Len(lines) + 1] = line
    BY <2>2, AppendProperties
  <2> QED BY <2>2, <2>3
<1>6. \A j \in DOMAIN lines' : j \in DOMAIN lines \/ j = Len(lines) + 1
  BY <1>5
<1>7. \A k \in Drawing : k # 1 => stack[k].bus < Top.bus
  BY HereIsNew
<1>8. ASSUME to # Root
      PROVE  to \in Nat /\ to > Top.bus /\ \A j \in DOMAIN lines : Bus(lines[j].at) # to
  BY <1>8, HereIsNew
<1> HIDE DEF to
<1>9. DOMAIN stack' = 1 .. Len(stack) + e
  BY <1>1
<1>10. \A k \in Drawing' :
         \/ k = e /\ to # Root /\ stack'[k].bus = to /\ k >= 1
         \/ /\ k - e \in Drawing /\ k > e
            /\ stack'[k].bus = stack[k - e].bus
            /\ stack'[k] = IF k - e = 1 THEN next ELSE stack[k - e]
  <2> SUFFICES ASSUME NEW k \in Drawing'
               PROVE  \/ k = e /\ to # Root /\ stack'[k].bus = to /\ k >= 1
                      \/ /\ k - e \in Drawing /\ k > e
                         /\ stack'[k].bus = stack[k - e].bus
                         /\ stack'[k] = IF k - e = 1 THEN next ELSE stack[k - e]
    OBVIOUS
  <2>1. k \in 1 .. Len(stack) + e /\ ~stack'[k].counts
    BY <1>9 DEF Drawing
  <2>2. CASE k \in 1 .. e
    BY <2>1, <2>2 DEF to
  <2>3. CASE k > e
    <3>1. k - e \in 1 .. Len(stack) /\ (k - e) + e = k
      BY <1>1, <2>1, <2>3
    <3>2. stack'[k] = IF k - e = 1 THEN next ELSE stack[k - e]
      BY <3>1
    <3>3. stack'[k].bus = stack[k - e].bus /\ stack'[k].counts = stack[k - e].counts
      BY <1>2, <3>2 DEF GoesOn
    <3> QED BY <1>1, <2>1, <2>3, <3>1, <3>2, <3>3 DEF Drawing
  <2> QED BY <2>1, <2>2, <2>3
<1>11. \A k \in Drawing : stack[k].bus \in Nat
  BY <1>1, PciScanAssumption DEF Drawing, AnyCall
<1>12. \A k \in Drawing : k \in Nat /\ k >= 1
  BY <1>1 DEF Drawing
<1>13. Shape'
  <2>1. \E S : lines' \in Seq(S)
    <3>1. PICK S : lines \in Seq(S)
      BY DEF Shape
    <3>2. lines \in Seq(S \cup {line}) /\ line \in S \cup {line}
      BY <3>1
    <3> QED BY <3>2, AppendProperties
  <2>2. \A j \in DOMAIN lines' : lines'[j].at \in DOMAIN space
    BY <1>5, <1>6 DEF Shape
  <2> QED BY <2>1, <2>2 DEF Shape
<1>14. CallsDescend'
  <2> SUFFICES ASSUME NEW j \in Drawing', NEW k \in Drawing', j < k
               PROVE  stack'[j].bus > stack'[k].bus
    BY DEF CallsDescend
  <2>1. k # e
    BY <1>9, <1>10, <1>12 DEF Drawing
  <2>2. k - e \in Drawing /\ stack'[k].bus = stack[k - e].bus
    BY <1>10, <2>1
  <2>3. CASE j = e /\ to # Root /\ stack'[j].bus = to
    <3>1. stack[k - e].bus <= Top.bus
      BY <1>2, <1>7, <1>11, <2>2
    <3> QED BY <1>2, <1>8, <1>11, <2>2, <2>3, <3>1
  <2>4. CASE j - e \in Drawing /\ stack'[j].bus = stack[j - e].bus
    <3>1. j - e < k - e
      BY <1>9 DEF Drawing
    <3> QED BY <2>2, <2>4, <3>1 DEF CallsDescend
  <2> QED BY <1>10, <2>3, <2>4
<1>15. LinesBehind'
  <2> SUFFICES ASSUME NEW k \in Drawing', NEW j \in DOMAIN lines',
                      Bus(lines'[j].at) = stack'[k].bus
               PROVE  Passed(lines'[j].at, stack'[k])
    BY DEF LinesBehind, Passed, Bus, Dev, Func
  <2>1. CASE k = e /\ to # Root /\ stack'[k].bus = to
    <3>1. Top.bus \in Nat /\ to > Top.bus
      BY <1>2, <1>8, <1>11, <2>1
    <3> QED BY <1>3, <1>5, <1>6, <1>8, <2>1, <3>1
  <2>2. CASE /\ k - e \in Drawing /\ stack'[k].bus = stack[k - e].bus
             /\ stack'[k] = IF k - e = 1 THEN next ELSE stack[k - e]
    <3>1. CASE j \in DOMAIN lines
      <4>1. lines'[j].at = lines[j].at /\ lines[j].at \in Locations
        BY <1>1, <1>5, <3>1 DEF Shape
      <4>2. Passed(lines[j].at, stack[k - e])
        BY <2>2, <3>1, <4>1 DEF LinesBehind
      <4> QED BY <1>2, <2>2, <4>1, <4>2 DEF GoesOn
    <3>2. CASE j = Len(lines) + 1
      <4>1. lines'[j].at = Here
        BY <1>5, <3>2
      <4>2. k - e = 1
        BY <1>3, <1>7, <1>11, <2>2, <4>1, <1>2
      <4> QED BY <1>3, <2>2, <4>1, <4>2 DEF GoesOn
    <3> QED BY <1>6, <3>1, <3>2
  <2> QED BY <1>10, <2>1, <2>2
<1>16. BridgesFirst'
  <2> DEFINE reported(bus) == \E k \in DOMAIN lines' : space[lines'[k].at].to = bus
  <2>1. \A bus : BridgeReported(bus) => reported(bus)
    BY <1>5, <1>6 DEF BridgeReported
  <2>2. reported(to)
    <3>1. Len(lines) + 1 \in DOMAIN lines'
      BY <1>5
    <3> QED BY <1>5, <3>1 DEF to
  <2>3. \A k \in Drawing : stack[k].bus = Root \/ reported(stack[k].bus)
    BY <2>1 DEF BridgesFirst
  <2>4. \A j \in DOMAIN lines : Bus(lines[j].at) = Root \/ reported(Bus(lines[j].at))
    BY <2>1 DEF BridgesFirst
  <2>5. Bus(Here) = Root \/ reported(Bus(Here))
    BY <1>2, <1>3, <2>3
  <2> HIDE DEF reported
  <2>6. \A k \in Drawing' : stack'[k].bus = Root \/ reported(stack'[k].bus)
    BY <1>10, <2>2, <2>3
  <2>7. \A j \in DOMAIN lines' : Bus(lines'[j].at) = Root \/ reported(Bus(lines'[j].at))
    BY <1>5, <1>6, <2>4, <2>5
  <2> QED BY <2>6, <2>7 DEF BridgesFirst, BridgeReported, reported, Bus
<1>17. ReportsOnce'
  BY <1>4, <1>5, <1>6 DEF ReportsOnce
<1> QED BY <1>13, <1>14, <1>15, <1>16, <1>17

-----------------------------------------------------------------------------
(* The walk after a header goes on, whatever else the call remembers.      *)
LEMMA AfterGoesOn ==
  ASSUME NEW call \in AnyCall, NEW header
  PROVE  GoesOn(call, After(call, header))
  BY NextGoesOn, PciScanAssumption DEF After

LEMMA GoesOnRemembering ==
  ASSUME NEW call \in AnyCall, NEW next, GoesOn(call, next)
  PROVE  /\ \A ret \in Nat \X Nat : GoesOn(call, [next EXCEPT !.ret = ret])
         /\ \A cut \in Nat : GoesOn(call, [next EXCEPT !.cut = cut])
<1>1. next \in AnyCall
  BY DEF GoesOn
<1>2. ASSUME NEW ret \in Nat \X Nat
      PROVE  GoesOn(call, [next EXCEPT !.ret = ret])
  <2> DEFINE kept == [next EXCEPT !.ret = ret]
  <2>1. /\ kept \in AnyCall /\ kept.bus = next.bus /\ kept.counts = next.counts
        /\ kept.dev = next.dev /\ kept.func = next.func
    BY <1>1 DEF AnyCall
  <2> HIDE DEF kept
  <2>2. GoesOn(call, kept)
    BY <2>1 DEF GoesOn, Passed
  <2> QED BY <2>2 DEF kept
<1>3. ASSUME NEW cut \in Nat
      PROVE  GoesOn(call, [next EXCEPT !.cut = cut])
  <2> DEFINE kept == [next EXCEPT !.cut = cut]
  <2>1. /\ kept \in AnyCall /\ kept.bus = next.bus /\ kept.counts = next.counts
        /\ kept.dev = next.dev /\ kept.func = next.func
    BY <1>1 DEF AnyCall
  <2> HIDE DEF kept
  <2>2. GoesOn(call, kept)
    BY <2>1 DEF GoesOn, Passed
  <2> QED BY <2>2 DEF kept
<1> QED BY <1>2, <1>3

LEMMA AbsentIInv == IInv /\ Absent => IInv'
<1> SUFFICES ASSUME IInv, Absent PROVE IInv'
  OBVIOUS
<1> DEFINE next == IF Top.func = 0 THEN NextDevice(Top) ELSE NextFunction(Top)
<1>1. stack # <<>> /\ stack' = [stack EXCEPT ![1] = next]
  BY DEF Absent, Scanning, Top
<1>2. Top \in AnyCall
  BY <1>1, TopFacts DEF IInv
<1>3. GoesOn(Top, next)
  BY <1>2, NextGoesOn, PciScanAssumption
<1>4. \E S : nesting_buf' \in Seq(S)
  BY DEF IInv, Shape, Absent
<1>5. UNCHANGED <<space, lines>>
  BY DEF Absent
<1> HIDE DEF next
<1> QED BY <1>1, <1>3, <1>4, <1>5, TopGoesOn

LEMMA CountIInv == IInv /\ Count => IInv'
<1> SUFFICES ASSUME IInv, Count PROVE IInv'
  OBVIOUS
<1> DEFINE next == [After(Top, space[Here]) EXCEPT !.ret = <<Top.dev, Top.func>>]
<1>1. stack # <<>> /\ stack' = [stack EXCEPT ![1] = next]
  BY DEF Count, Scanning, Top
<1>2. Top \in AnyCall
  BY <1>1, TopFacts DEF IInv
<1>3. <<Top.dev, Top.func>> \in Nat \X Nat
  BY <1>2 DEF AnyCall
<1>4. GoesOn(Top, next)
  BY <1>2, <1>3, AfterGoesOn, GoesOnRemembering
<1>5. \E S : nesting_buf' \in Seq(S)
  BY DEF IInv, Shape, Count
<1>6. UNCHANGED <<space, lines>>
  BY DEF Count
<1> HIDE DEF next
<1> QED BY <1>1, <1>4, <1>5, <1>6, TopGoesOn

LEMMA DeviceIInv == IInv /\ Device => IInv'
<1> SUFFICES ASSUME IInv, Device PROVE IInv'
  OBVIOUS
<1> DEFINE next == After(Top, space[Here])
<1>1. /\ stack # <<>> /\ stack' = [stack EXCEPT ![1] = next]
      /\ ~Top.counts /\ Here \in DOMAIN space
  BY DEF Device, Scanning, Found, Top
<1>2. /\ Top \in AnyCall /\ 1 \in DOMAIN stack
      /\ DOMAIN stack = 1 .. Len(stack) /\ Len(stack) \in Nat
      /\ stack \in Seq(AnyCall)
  BY <1>1, TopFacts DEF IInv, Shape
<1>3. GoesOn(Top, next) /\ next \in AnyCall
  BY <1>2, AfterGoesOn DEF GoesOn
<1>4. \E S : nesting_buf' \in Seq(S)
  BY DEF IInv, Shape, Device
<1>5. lines' = Append(lines, Line) /\ Line.at = Here /\ UNCHANGED space
  BY DEF Device, Line
<1> HIDE DEF next
<1>6. /\ stack' \in Seq(AnyCall) /\ Len(stack') = Len(stack) + 0
      /\ \A k \in 1 .. Len(stack) : stack'[k + 0] = IF k = 1 THEN next ELSE stack[k]
  BY <1>1, <1>2, <1>3
<1>7. \A k \in 1 .. 0 : FALSE
  OBVIOUS
<1> QED BY <1>1, <1>3, <1>4, <1>5, <1>6, <1>7, TopReports

(* What is put on the stack when a bridge is met.                          *)
BehindBridge == [After(Top, space[Here]) EXCEPT !.cut = Len(nesting_buf)]

LEMMA BridgePushes ==
  ASSUME IInv, Bridge
  PROVE  /\ stack # <<>> /\ ~Top.counts /\ Here \in DOMAIN space
         /\ GoesOn(Top, BehindBridge)
         /\ lines' = Append(lines, Line) /\ Line.at = Here /\ UNCHANGED space
         /\ stack' \in Seq(AnyCall)
         /\ \E e \in {1, 2} :
              /\ Len(stack') = Len(stack) + e
              /\ \A k \in 1 .. Len(stack) :
                   stack'[k + e] = IF k = 1 THEN BehindBridge ELSE stack[k]
              /\ stack'[e] = Scan(space[Here].to) /\ space[Here].to # Root
              /\ \A k \in 1 .. e : k = e \/ stack'[k].counts
              /\ e = 2 => stack'[1] = Counting(space[Here].to)
              /\ e = 2 <=> tool = "pcireg"
<1> DEFINE to == space[Here].to
           calls == [stack EXCEPT ![1] = BehindBridge]
<1>1. /\ stack # <<>> /\ stack' = Enter(to, calls)
      /\ ~Top.counts /\ Here \in DOMAIN space /\ to # Root
  BY DEF Bridge, Scanning, Found, Top, BehindBridge
<1>2. /\ Top \in AnyCall /\ 1 \in DOMAIN stack
      /\ DOMAIN stack = 1 .. Len(stack) /\ Len(stack) \in Nat
      /\ stack \in Seq(AnyCall)
  BY <1>1, TopFacts DEF IInv, Shape
<1>3. PICK S : nesting_buf \in Seq(S)
  BY DEF IInv, Shape
<1>4. GoesOn(Top, BehindBridge) /\ BehindBridge \in AnyCall
  <2>1. Len(nesting_buf) \in Nat
    BY <1>3
  <2>2. GoesOn(Top, After(Top, space[Here]))
    BY <1>2, AfterGoesOn
  <2>3. GoesOn(Top, BehindBridge)
    BY <1>2, <2>1, <2>2, GoesOnRemembering DEF BehindBridge
  <2> QED BY <2>3 DEF GoesOn
<1>5. lines' = Append(lines, Line) /\ Line.at = Here /\ UNCHANGED space
  BY DEF Bridge, Line
<1>6. to \in Buses
  BY <1>1, PciScanAssumption DEF IInv, Shape, Headers
<1> HIDE DEF to
<1>7. /\ calls \in Seq(AnyCall) /\ Len(calls) = Len(stack)
      /\ \A k \in 1 .. Len(stack) : calls[k] = IF k = 1 THEN BehindBridge ELSE stack[k]
  BY <1>1, <1>2, <1>4
<1> HIDE DEF calls
<1>8. PICK e \in {1, 2} :
        /\ Len(Enter(to, calls)) = Len(calls) + e
        /\ \A k \in 1 .. Len(calls) : Enter(to, calls)[k + e] = calls[k]
        /\ Enter(to, calls)[e] = Scan(to)
        /\ e = 2 => Enter(to, calls)[1] = Counting(to) /\ Enter(to, calls)[1].counts
        /\ e = 2 <=> tool = "pcireg"
  BY <1>6, <1>7, EnterAdds
<1>9. stack' \in Seq(AnyCall)
  BY <1>1, <1>6, <1>7, EnterAdds
<1>10. /\ Len(stack') = Len(stack) + e
       /\ \A k \in 1 .. Len(stack) : stack'[k + e] = IF k = 1 THEN BehindBridge ELSE stack[k]
  BY <1>1, <1>7, <1>8
<1>11. stack'[e] = Scan(space[Here].to) /\ space[Here].to # Root
  BY <1>1, <1>8 DEF to
<1>12. \A k \in 1 .. e : k = e \/ stack'[k].counts
  BY <1>1, <1>8
<1>13. (e = 2 => stack'[1] = Counting(space[Here].to)) /\ (e = 2 <=> tool = "pcireg")
  BY <1>1, <1>8 DEF to
<1> QED BY <1>1, <1>4, <1>5, <1>9, <1>10, <1>11, <1>12, <1>13

LEMMA BridgeIInv == IInv /\ Bridge => IInv'
<1> SUFFICES ASSUME IInv, Bridge PROVE IInv'
  OBVIOUS
<1>1. /\ stack # <<>> /\ ~Top.counts /\ Here \in DOMAIN space
      /\ GoesOn(Top, BehindBridge)
      /\ lines' = Append(lines, Line) /\ Line.at = Here /\ UNCHANGED space
      /\ stack' \in Seq(AnyCall)
  BY BridgePushes
<1>2. PICK e \in {1, 2} :
        /\ Len(stack') = Len(stack) + e
        /\ \A k \in 1 .. Len(stack) :
             stack'[k + e] = IF k = 1 THEN BehindBridge ELSE stack[k]
        /\ stack'[e] = Scan(space[Here].to) /\ space[Here].to # Root
        /\ \A k \in 1 .. e : k = e \/ stack'[k].counts
  BY BridgePushes
<1>3. \A k \in 1 .. e :
        \/ stack'[k].counts
        \/ k = e /\ space[Here].to # Root /\ stack'[k].bus = space[Here].to
  BY <1>2 DEF Scan
<1>4. \E T : nesting_buf' \in Seq(T)
  <2>1. PICK S : nesting_buf \in Seq(S)
    BY DEF IInv, Shape
  <2>2. nesting_buf \in Seq(S \cup {IsLast}) /\ IsLast \in S \cup {IsLast}
    BY <2>1
  <2>3. Append(nesting_buf, IsLast) \in Seq(S \cup {IsLast})
    BY <2>2, AppendProperties
  <2>4. nesting_buf' = Append(nesting_buf, IsLast) \/ nesting_buf' = nesting_buf
    BY DEF Bridge
  <2> QED BY <2>2, <2>3, <2>4
<1>5. e \in {0, 1, 2}
  OBVIOUS
<1> QED BY <1>1, <1>2, <1>3, <1>4, <1>5, TopReports

(* One call less; the others are where they were.                          *)
Popped ==
  /\ Len(stack') = Len(stack) - 1 /\ stack' \in Seq(AnyCall)
  /\ \A k \in 1 .. Len(stack) - 1 :
       /\ stack'[k].bus = stack[k + 1].bus
       /\ stack'[k].counts = stack[k + 1].counts
       /\ stack'[k].dev = stack[k + 1].dev
       /\ stack'[k].func = stack[k + 1].func

LEMMA CountedPops ==
  ASSUME IInv, Counted
  PROVE  Popped
<1>1. /\ stack # <<>> /\ stack' = [Tail(stack) EXCEPT ![1].ret = Top.ret]
      /\ UNCHANGED <<space, nesting_buf, lines>>
  BY DEF Counted
<1>2. Top \in AnyCall /\ stack \in Seq(AnyCall) /\ Len(stack) \in Nat
  BY <1>1, TopFacts DEF IInv, Shape
<1> DEFINE rest == Tail(stack)
<1>3. /\ rest \in Seq(AnyCall) /\ Len(rest) = Len(stack) - 1
      /\ \A k \in 1 .. Len(rest) : rest[k] = stack[k + 1]
  BY <1>1, <1>2, HeadTailProperties
<1> HIDE DEF rest
<1>4. DOMAIN rest = 1 .. Len(rest) /\ \A k \in DOMAIN rest : rest[k] \in AnyCall
  BY <1>3
<1>5. stack' = [rest EXCEPT ![1] = [rest[1] EXCEPT !.ret = Top.ret]]
  BY <1>1 DEF rest
<1>6. \A call \in AnyCall :
        /\ [call EXCEPT !.ret = Top.ret] \in AnyCall
        /\ [call EXCEPT !.ret = Top.ret].bus = call.bus
        /\ [call EXCEPT !.ret = Top.ret].counts = call.counts
        /\ [call EXCEPT !.ret = Top.ret].dev = call.dev
        /\ [call EXCEPT !.ret = Top.ret].func = call.func
  BY <1>2 DEF AnyCall
<1>7. DOMAIN stack' = DOMAIN rest
  BY <1>5
<1>8. \A k \in DOMAIN rest :
        stack'[k] = IF k = 1 THEN [rest[k] EXCEPT !.ret = Top.ret] ELSE rest[k]
  BY <1>5
<1>9. \A k \in DOMAIN rest :
        /\ stack'[k] \in AnyCall
        /\ stack'[k].bus = rest[k].bus /\ stack'[k].counts = rest[k].counts
        /\ stack'[k].dev = rest[k].dev /\ stack'[k].func = rest[k].func
  BY <1>4, <1>6, <1>8
<1>10. stack' \in Seq(AnyCall) /\ Len(stack') = Len(stack) - 1
  <2>1. stack' \in [1 .. Len(rest) -> AnyCall]
    BY <1>4, <1>5, <1>7, <1>9
  <2>2. Len(rest) \in Nat
    BY <1>3
  <2> QED BY <1>3, <2>1, <2>2
<1>11. \A k \in 1 .. Len(stack) - 1 :
         /\ stack'[k].bus = stack[k + 1].bus
         /\ stack'[k].counts = stack[k + 1].counts
         /\ stack'[k].dev = stack[k + 1].dev
         /\ stack'[k].func = stack[k + 1].func
  BY <1>3, <1>4, <1>9
<1> QED BY <1>10, <1>11 DEF Popped

LEMMA CountedIInv == IInv /\ Counted => IInv'
<1> SUFFICES ASSUME IInv, Counted PROVE IInv'
  OBVIOUS
<1>1. stack # <<>> /\ UNCHANGED <<space, nesting_buf, lines>>
  BY DEF Counted
<1>2. \E S : nesting_buf' \in Seq(S)
  BY <1>1 DEF IInv, Shape
<1> QED BY <1>1, <1>2, CountedPops, TopReturns DEF Popped

LEMMA ReturnPops ==
  ASSUME IInv, Return
  PROVE  Popped
<1>1. stack # <<>> /\ stack' = Tail(stack) /\ UNCHANGED <<space, lines>>
  BY DEF Return
<1>2. stack \in Seq(AnyCall) /\ Len(stack) \in Nat
  BY <1>1, TopFacts DEF IInv, Shape
<1>3. /\ stack' \in Seq(AnyCall) /\ Len(stack') = Len(stack) - 1
      /\ \A k \in 1 .. Len(stack) - 1 : stack'[k] = stack[k + 1]
  BY <1>1, <1>2, HeadTailProperties
<1> QED BY <1>3 DEF Popped

LEMMA ReturnIInv == IInv /\ Return => IInv'
<1> SUFFICES ASSUME IInv, Return PROVE IInv'
  OBVIOUS
<1>1. stack # <<>> /\ stack' = Tail(stack) /\ UNCHANGED <<space, lines>>
  BY DEF Return
<1>2. stack \in Seq(AnyCall) /\ Len(stack) \in Nat
  BY <1>1, TopFacts DEF IInv, Shape
<1>3. /\ stack' \in Seq(AnyCall) /\ Len(stack') = Len(stack) - 1
      /\ \A k \in 1 .. Len(stack) - 1 : stack'[k] = stack[k + 1]
  BY <1>1, <1>2, HeadTailProperties
<1>4. \E S : nesting_buf' \in Seq(S)
  <2>1. PICK S : nesting_buf \in Seq(S)
    BY DEF IInv, Shape
  <2>2. CASE nesting_buf' = nesting_buf
    BY <2>1, <2>2
  <2>3. CASE stack' # <<>> /\ nesting_buf' = SubSeq(nesting_buf, 1, stack'[1].cut)
    <3> DEFINE kept == stack'[1].cut
    <3>1. stack'[1] \in AnyCall
      BY <1>3, <2>3
    <3>2. kept \in Nat
      BY <3>1 DEF AnyCall
    <3> DEFINE T == {nesting_buf[i] : i \in 1 .. kept}
    <3>3. nesting_buf' = SubSeq(nesting_buf, 1, kept)
      BY <2>3
    <3> HIDE DEF kept
    <3>4. SubSeq(nesting_buf, 1, kept) = [i \in 1 .. kept |-> nesting_buf[i]]
      BY <2>1, <3>2
    <3>5. [i \in 1 .. kept |-> nesting_buf[i]] \in Seq(T)
      BY <3>2
    <3> QED BY <3>3, <3>4, <3>5
  <2> QED BY <2>2, <2>3 DEF Return
<1> QED BY <1>1, <1>3, <1>4, TopReturns

LEMMA NextIInv == IInv /\ [Next]_vars => IInv'
<1> SUFFICES ASSUME IInv, [Next]_vars PROVE IInv'
  OBVIOUS
<1>1. CASE UNCHANGED vars
  BY <1>1 DEF IInv, Shape, CallsDescend, LinesBehind, BridgesFirst, BridgeReported,
              ReportsOnce, Drawing, vars
<1>2. CASE Walk
  BY <1>2, AbsentIInv, CountIInv, DeviceIInv, BridgeIInv, CountedIInv, ReturnIInv
     DEF Walk
<1> QED BY <1>1, <1>2 DEF Next, Ended

(* However many buses, devices and bridges there are, neither pci_scan_bus *)
(* nor pcireg -s reports a function twice.                                 *)
THEOREM NoFunctionTwice == Spec => []ReportsOnce
<1>1. IInv => ReportsOnce
  BY DEF IInv
<1> QED BY <1>1, InitIInv, NextIInv, PTL DEF Spec
-----------------------------------------------------------------------------
(* Every visible function is reported, and no other.                       *)
Reported(l) == \E k \in DOMAIN lines : lines[k].at = l

First(l) == <<Bus(l), Dev(l), 0>>

(* Where a call that reports can be: beyond function 0 only behind one     *)
(* that says that there are others.                                        *)
Placed(call) ==
  /\ call.bus \in Buses
  /\ call.dev \in 0 .. DeviceCount /\ call.func \in 0 .. FunctionCount - 1
  /\ call.func > 0 => /\ <<call.bus, call.dev, 0>> \in DOMAIN space
                      /\ space[<<call.bus, call.dev, 0>>].multi

Places == \A k \in Drawing : Placed(stack[k]) /\ stack[k].bus \in BusesReached

LinesVisible ==
  \A k \in DOMAIN lines : Answers(lines[k].at) /\ Bus(lines[k].at) \in BusesReached

(* What a walk has passed it has reported.                                 *)
PassedReported ==
  \A k \in Drawing : \A l \in DOMAIN space :
    Bus(l) = stack[k].bus /\ Answers(l) /\ Passed(l, stack[k]) => Reported(l)

(* A bus whose bridge is reported is being walked or all reported.         *)
WalkedReported ==
  \A bus \in Buses :
    /\ bus = Root \/ BridgeReported(bus)
    /\ \A k \in Drawing : stack[k].bus # bus
    => \A l \in DOMAIN space : Bus(l) = bus /\ Answers(l) => Reported(l)

CInv == Places /\ LinesVisible /\ PassedReported /\ WalkedReported

LEMMA RootReached == Root \in BusesReached
BY PciScanAssumption DEF BusesReached, Closed

LEMMA BridgeReaches ==
  ASSUME NEW l \in DOMAIN space, space[l].to \in Buses, Answers(l), Bus(l) \in BusesReached
  PROVE  space[l].to \in BusesReached
BY DEF BusesReached, Closed

(* The walk leaves out nothing but functions that cannot be seen.          *)
Careful(call, next) ==
  /\ Placed(next) /\ next.bus = call.bus /\ next.counts = call.counts
  /\ \A l \in DOMAIN space :
       Bus(l) = call.bus /\ Answers(l) /\ Passed(l, next) =>
         Passed(l, call) \/ l = <<call.bus, call.dev, call.func>>

LEMMA LocationParts ==
  ASSUME NEW l \in Locations
  PROVE  /\ l = <<Bus(l), Dev(l), Func(l)>>
         /\ Bus(l) \in Buses /\ Dev(l) \in 0 .. DeviceCount - 1
         /\ Func(l) \in 0 .. FunctionCount - 1
BY DEF Locations, Bus, Dev, Func

LEMMA NextParts ==
  ASSUME NEW call \in AnyCall
  PROVE  /\ NextDevice(call).bus = call.bus /\ NextDevice(call).counts = call.counts
         /\ NextDevice(call).dev = call.dev + 1 /\ NextDevice(call).func = 0
         /\ call.func + 1 = FunctionCount => NextFunction(call) = NextDevice(call)
         /\ call.func + 1 # FunctionCount =>
              /\ NextFunction(call).bus = call.bus /\ NextFunction(call).counts = call.counts
              /\ NextFunction(call).dev = call.dev /\ NextFunction(call).func = call.func + 1
<1> DEFINE dev1 == [call EXCEPT !.dev = @ + 1]
<1>1. /\ dev1 \in AnyCall /\ dev1.bus = call.bus /\ dev1.counts = call.counts
      /\ dev1.dev = call.dev + 1
  BY DEF AnyCall
<1>2. NextDevice(call) = [dev1 EXCEPT !.func = 0]
  BY DEF NextDevice, AnyCall
<1> HIDE DEF dev1
<1>3. /\ NextDevice(call).bus = call.bus /\ NextDevice(call).counts = call.counts
      /\ NextDevice(call).dev = call.dev + 1 /\ NextDevice(call).func = 0
  BY <1>1, <1>2 DEF AnyCall
<1>4. ASSUME call.func + 1 # FunctionCount
      PROVE  NextFunction(call) = [call EXCEPT !.func = @ + 1]
  BY <1>4 DEF NextFunction
<1>5. call.func + 1 = FunctionCount => NextFunction(call) = NextDevice(call)
  BY DEF NextFunction
<1> QED BY <1>3, <1>4, <1>5 DEF AnyCall

(* To the next device: the others of this one are not there to be found.   *)
LEMMA NextDeviceCareful ==
  ASSUME Shape, NEW call \in AnyCall, Placed(call), call.dev < DeviceCount, call.func = 0,
         \/ <<call.bus, call.dev, call.func>> \notin DOMAIN space
         \/ ~space[<<call.bus, call.dev, call.func>>].multi
  PROVE  Careful(call, NextDevice(call))
<1> DEFINE next == NextDevice(call)
<1>1. /\ next.bus = call.bus /\ next.counts = call.counts
      /\ next.dev = call.dev + 1 /\ next.func = 0
  BY NextParts
<1> HIDE DEF next
<1>2. Placed(next)
  BY <1>1, PciScanAssumption DEF Placed
<1>3. ASSUME NEW l \in DOMAIN space, Bus(l) = call.bus, Answers(l), Passed(l, next)
      PROVE  Passed(l, call) \/ l = <<call.bus, call.dev, call.func>>
  <2>1. /\ l = <<Bus(l), Dev(l), Func(l)>> /\ Dev(l) \in Nat /\ Func(l) \in Nat
    BY LocationParts, PciScanAssumption DEF Shape
  <2>2. call.dev \in Nat
    BY DEF AnyCall
  <2>3. Dev(l) < call.dev \/ Dev(l) = call.dev
    BY <1>1, <1>3, <2>1, <2>2 DEF Passed
  <2>4. CASE Dev(l) < call.dev
    BY <2>4 DEF Passed
  <2>5. CASE Dev(l) = call.dev /\ Func(l) = 0
    BY <1>3, <2>1, <2>5
  <2>6. CASE Dev(l) = call.dev /\ Func(l) # 0
    <3>1. <<call.bus, call.dev, 0>> \in DOMAIN space /\ space[<<call.bus, call.dev, 0>>].multi
      BY <1>3, <2>6 DEF Answers
    <3> QED BY <3>1
  <2> QED BY <2>3, <2>4, <2>5, <2>6
<1> QED BY <1>1, <1>2, <1>3 DEF Careful, next

LEMMA NextFunctionCareful ==
  ASSUME Shape, NEW call \in AnyCall, Placed(call), call.dev < DeviceCount,
         call.func = 0 => /\ <<call.bus, call.dev, 0>> \in DOMAIN space
                          /\ space[<<call.bus, call.dev, 0>>].multi
  PROVE  Careful(call, NextFunction(call))
<1> DEFINE next == NextFunction(call)
<1>1. call.dev \in Nat /\ call.func \in Nat
  BY DEF AnyCall
<1>2. \A l \in DOMAIN space :
        /\ l = <<Bus(l), Dev(l), Func(l)>> /\ Dev(l) \in Nat
        /\ Func(l) \in Nat /\ Func(l) <= FunctionCount - 1
  BY LocationParts, PciScanAssumption DEF Shape
<1>3. CASE call.func + 1 = FunctionCount
  <2>1. /\ next.bus = call.bus /\ next.counts = call.counts
        /\ next.dev = call.dev + 1 /\ next.func = 0
    BY <1>3, NextParts
  <2> HIDE DEF next
  <2>2. Placed(next)
    BY <2>1, PciScanAssumption DEF Placed
  <2>3. ASSUME NEW l \in DOMAIN space, Bus(l) = call.bus, Passed(l, next)
        PROVE  Passed(l, call) \/ l = <<call.bus, call.dev, call.func>>
    <3>1. Dev(l) < call.dev \/ Dev(l) = call.dev
      BY <1>1, <1>2, <2>1, <2>3 DEF Passed
    <3>2. Func(l) < call.func \/ Func(l) = call.func
      BY <1>1, <1>2, <1>3, PciScanAssumption
    <3> QED BY <1>2, <2>3, <3>1, <3>2 DEF Passed
  <2> QED BY <2>1, <2>2, <2>3 DEF Careful, next
<1>4. CASE call.func + 1 # FunctionCount
  <2>1. /\ next.bus = call.bus /\ next.counts = call.counts
        /\ next.dev = call.dev /\ next.func = call.func + 1
    BY <1>4, NextParts
  <2> HIDE DEF next
  <2>2. Placed(next)
    <3>1. call.func > 0 \/ call.func = 0
      BY <1>1
    <3>2. <<call.bus, call.dev, 0>> \in DOMAIN space /\ space[<<call.bus, call.dev, 0>>].multi
      BY <3>1 DEF Placed
    <3>3. next.func \in 0 .. FunctionCount - 1
      BY <1>1, <1>4, <2>1, PciScanAssumption DEF Placed
    <3> QED BY <2>1, <3>2, <3>3 DEF Placed
  <2>3. ASSUME NEW l \in DOMAIN space, Bus(l) = call.bus, Passed(l, next)
        PROVE  Passed(l, call) \/ l = <<call.bus, call.dev, call.func>>
    <3>1. \/ Dev(l) < call.dev
          \/ Dev(l) = call.dev /\ (Func(l) < call.func \/ Func(l) = call.func)
      BY <1>1, <1>2, <2>1, <2>3 DEF Passed
    <3> QED BY <1>2, <2>3, <3>1 DEF Passed
  <2> QED BY <2>1, <2>2, <2>3 DEF Careful, next
<1> QED BY <1>3, <1>4
LEMMA CarefulRemembering ==
  ASSUME NEW call, NEW next \in AnyCall, Careful(call, next)
  PROVE  \A cut \in Nat : Careful(call, [next EXCEPT !.cut = cut])
<1> SUFFICES ASSUME NEW cut \in Nat PROVE Careful(call, [next EXCEPT !.cut = cut])
  OBVIOUS
<1> DEFINE kept == [next EXCEPT !.cut = cut]
<1>1. /\ kept.bus = next.bus /\ kept.counts = next.counts
      /\ kept.dev = next.dev /\ kept.func = next.func
  BY DEF AnyCall
<1> HIDE DEF kept
<1>2. Careful(call, kept)
  BY <1>1 DEF Careful, Placed, Passed
<1> QED BY <1>2 DEF kept

LEMMA AfterCareful ==
  ASSUME Shape, NEW call \in AnyCall, Placed(call), call.dev < DeviceCount,
         <<call.bus, call.dev, call.func>> \in DOMAIN space
  PROVE  Careful(call, After(call, space[<<call.bus, call.dev, call.func>>]))
<1> DEFINE header == space[<<call.bus, call.dev, call.func>>]
<1>1. CASE call.func = 0 /\ ~header.multi
  BY <1>1, NextDeviceCareful DEF After
<1>2. CASE ~(call.func = 0 /\ ~header.multi)
  <2>1. call.func = 0 => /\ <<call.bus, call.dev, 0>> \in DOMAIN space
                         /\ space[<<call.bus, call.dev, 0>>].multi
    BY <1>2
  <2> QED BY <1>2, <2>1, NextFunctionCareful DEF After
<1> QED BY <1>1, <1>2

(* What the innermost call does while nothing is reported.                 *)
LEMMA TopGoesOnCompletely ==
  ASSUME IInv, CInv, stack # <<>>, NEW next, next.counts = Top.counts,
         ~Top.counts => Careful(Top, next) /\ Here \notin DOMAIN space,
         stack' = [stack EXCEPT ![1] = next], UNCHANGED <<space, lines>>
  PROVE  CInv'
<1> USE DEF CInv
<1>1. /\ 1 \in DOMAIN stack /\ DOMAIN stack' = DOMAIN stack /\ stack'[1] = next
      /\ \A k \in DOMAIN stack : k # 1 => stack'[k] = stack[k]
  BY TopFacts DEF IInv
<1>2. Drawing' = Drawing
  BY <1>1 DEF Drawing, Top
<1>3. \A k \in Drawing : k # 1 => stack'[k] = stack[k]
  BY <1>1 DEF Drawing
<1>4. 1 \in Drawing => Careful(Top, next) /\ Top = stack[1] /\ Here \notin DOMAIN space
  BY DEF Drawing, Top
<1>5. \A k \in Drawing : stack'[k].bus = stack[k].bus
  BY <1>1, <1>3, <1>4 DEF Careful
<1>6. /\ BusesReached' = BusesReached
      /\ \A l : Answers(l)' = Answers(l) /\ Reported(l)' = Reported(l)
      /\ \A bus : BridgeReported(bus)' = BridgeReported(bus)
  BY DEF BusesReached, Closed, Answers, Reported, BridgeReported
<1>7. Places'
  <2> SUFFICES ASSUME NEW k \in Drawing
               PROVE  Placed(stack'[k]) /\ stack'[k].bus \in BusesReached
    BY <1>2, <1>6 DEF Places, Placed
  <2>1. Placed(stack[k]) /\ stack[k].bus \in BusesReached
    BY DEF Places
  <2>2. CASE k = 1
    BY <1>1, <1>4, <1>5, <2>1, <2>2 DEF Careful
  <2>3. CASE k # 1
    BY <1>3, <2>1, <2>3
  <2> QED BY <2>2, <2>3
<1>8. LinesVisible'
  BY <1>6 DEF LinesVisible, Answers
<1>9. PassedReported'
  <2> SUFFICES ASSUME NEW k \in Drawing, NEW l \in DOMAIN space,
                      Bus(l) = stack'[k].bus, Answers(l), Passed(l, stack'[k])
               PROVE  Reported(l)
    BY <1>2, <1>6 DEF PassedReported, Passed, Bus, Dev, Func, Answers
  <2>1. CASE k # 1
    BY <1>3, <2>1 DEF PassedReported
  <2>2. CASE k = 1
    <3>1. Passed(l, Top) \/ l = Here
      BY <1>1, <1>4, <1>5, <2>2 DEF Careful, Here
    <3> QED BY <1>4, <1>5, <2>2, <3>1 DEF PassedReported
  <2> QED BY <2>1, <2>2
<1>10. WalkedReported'
  BY <1>2, <1>5, <1>6 DEF WalkedReported, Answers, Bus
<1> QED BY <1>7, <1>8, <1>9, <1>10

(* The innermost call is over; a bus whose walk is over has been passed.   *)
LEMMA TopReturnsCompletely ==
  ASSUME IInv, CInv, stack # <<>>, Top.dev = DeviceCount,
         Len(stack') = Len(stack) - 1, stack' \in Seq(AnyCall),
         \A k \in 1 .. Len(stack) - 1 :
           /\ stack'[k].bus = stack[k + 1].bus
           /\ stack'[k].counts = stack[k + 1].counts
           /\ stack'[k].dev = stack[k + 1].dev
           /\ stack'[k].func = stack[k + 1].func,
         UNCHANGED <<space, lines>>
  PROVE  CInv'
<1> USE DEF CInv
<1>1. DOMAIN stack = 1 .. Len(stack) /\ Len(stack) \in Nat /\ 1 \in DOMAIN stack
  BY TopFacts DEF IInv
<1>2. DOMAIN stack' = 1 .. Len(stack) - 1
  BY <1>1
<1>3. \A k \in Drawing' : /\ k + 1 \in Drawing
                          /\ stack'[k].bus = stack[k + 1].bus
                          /\ stack'[k].dev = stack[k + 1].dev
                          /\ stack'[k].func = stack[k + 1].func
  BY <1>1, <1>2 DEF Drawing
<1>4. \A k \in Drawing : k # 1 => k - 1 \in Drawing' /\ stack'[k - 1].bus = stack[k].bus
  <2> SUFFICES ASSUME NEW k \in Drawing, k # 1
               PROVE  k - 1 \in Drawing' /\ stack'[k - 1].bus = stack[k].bus
    OBVIOUS
  <2>1. k \in 1 .. Len(stack) /\ k - 1 \in 1 .. Len(stack) - 1 /\ (k - 1) + 1 = k
    BY <1>1 DEF Drawing
  <2>2. stack'[k - 1].bus = stack[k].bus /\ stack'[k - 1].counts = stack[k].counts
    BY <2>1
  <2> QED BY <1>2, <2>1, <2>2 DEF Drawing
<1>5. /\ BusesReached' = BusesReached
      /\ \A l : Answers(l)' = Answers(l) /\ Reported(l)' = Reported(l)
      /\ \A bus : BridgeReported(bus)' = BridgeReported(bus)
  BY DEF BusesReached, Closed, Answers, Reported, BridgeReported
<1>6. Places'
  BY <1>3, <1>5 DEF Places, Placed
<1>7. LinesVisible'
  BY <1>5 DEF LinesVisible, Answers
<1>8. PassedReported'
  BY <1>3, <1>5 DEF PassedReported, Passed, Answers, Bus, Dev, Func
<1>9. WalkedReported'
  <2> SUFFICES ASSUME NEW bus \in Buses, bus = Root \/ BridgeReported(bus),
                      \A k \in Drawing' : stack'[k].bus # bus,
                      NEW l \in DOMAIN space, Bus(l) = bus, Answers(l)
               PROVE  Reported(l)
    BY <1>5 DEF WalkedReported, Answers, Bus
  <2>1. \A k \in Drawing : k # 1 => stack[k].bus # bus
    BY <1>4
  <2>2. CASE 1 \in Drawing /\ stack[1].bus = bus
    <3>1. l \in Locations
      BY PciScanAssumption DEF IInv, Shape
    <3>3. Dev(l) < DeviceCount
      BY <3>1, LocationParts, PciScanAssumption
    <3>2. Passed(l, stack[1])
      BY <3>3 DEF Passed, Top
    <3> QED BY <2>2, <3>2 DEF PassedReported
  <2>3. CASE ~(1 \in Drawing /\ stack[1].bus = bus)
    BY <2>1, <2>3 DEF WalkedReported
  <2> QED BY <2>2, <2>3
<1> QED BY <1>6, <1>7, <1>8, <1>9

(* The innermost call reports the function it is at.                       *)
LEMMA TopReportsCompletely ==
  ASSUME IInv, CInv, stack # <<>>, ~Top.counts, Here \in DOMAIN space,
         NEW next, Careful(Top, next),
         NEW line, line.at = Here, lines' = Append(lines, line),
         NEW e \in {0, 1, 2},
         stack' \in Seq(AnyCall), Len(stack') = Len(stack) + e,
         \A k \in 1 .. Len(stack) : stack'[k + e] = IF k = 1 THEN next ELSE stack[k],
         \A k \in 1 .. e :
           \/ stack'[k].counts
           \/ k = e /\ space[Here].to # Root /\ stack'[k] = Scan(space[Here].to),
         e > 0 => stack'[e] = Scan(space[Here].to),
         e = 0 => space[Here].to = Root,
         UNCHANGED space
  PROVE  CInv'
<1> USE DEF CInv
<1> DEFINE to == space[Here].to
<1>1. /\ Top \in AnyCall /\ DOMAIN stack = 1 .. Len(stack) /\ Len(stack) \in Nat
      /\ 1 \in DOMAIN stack /\ DOMAIN space \subseteq Locations /\ to \in Buses
  BY TopFacts, PciScanAssumption DEF IInv, Shape, Headers
<1>2. 1 \in Drawing /\ Top = stack[1]
  BY <1>1 DEF Drawing, Top
<1>3. Bus(Here) = Top.bus /\ Dev(Here) = Top.dev /\ Func(Here) = Top.func
  BY DEF Here, Bus, Dev, Func
<1>4. Placed(Top) /\ Top.bus \in BusesReached
  BY <1>2 DEF Places
<1>5. Answers(Here)
  <2>1. Top.func = 0 \/ Top.func > 0
    BY <1>4 DEF Placed
  <2> QED BY <1>3, <1>4, <2>1 DEF Answers, Placed
<1>6. to \in BusesReached
  BY <1>1, <1>3, <1>4, <1>5, BridgeReaches
<1>7. /\ Len(lines) \in Nat /\ DOMAIN lines = 1 .. Len(lines)
      /\ DOMAIN lines' = 1 .. Len(lines) + 1
      /\ \A j \in DOMAIN lines : lines'[j].at = lines[j].at
      /\ lines'[Len(lines) + 1].at = Here
  <2>1. PICK S : lines \in Seq(S)
    BY DEF IInv, Shape
  <2>2. lines \in Seq(S \cup {line}) /\ line \in S \cup {line}
    BY <2>1
  <2>3. /\ lines' \in Seq(S \cup {line}) /\ Len(lines') = Len(lines) + 1
        /\ \A j \in 1 .. Len(lines) : lines'[j] = lines[j]
        /\ lines'[Len(lines) + 1] = line
    BY <2>2, AppendProperties
  <2> QED BY <2>2, <2>3
<1>8. /\ Len(lines) + 1 \in DOMAIN lines'
      /\ \A j \in DOMAIN lines : j \in DOMAIN lines'
      /\ \A j \in DOMAIN lines' : j \in DOMAIN lines \/ j = Len(lines) + 1
  BY <1>7
<1>9. /\ \A l : Reported(l)' <=> Reported(l) \/ l = Here
      /\ \A bus : BridgeReported(bus)' <=> BridgeReported(bus) \/ bus = to
  BY <1>7, <1>8 DEF Reported, BridgeReported
<1>10. BusesReached' = BusesReached /\ \A l : Answers(l)' = Answers(l)
  BY DEF BusesReached, Closed, Answers
<1> HIDE DEF to
<1>11. DOMAIN stack' = 1 .. Len(stack) + e
  BY <1>1
<1>12. \A k \in Drawing' :
         \/ e > 0 /\ k = e /\ to # Root /\ stack'[k] = Scan(to)
         \/ /\ k - e \in Drawing
            /\ stack'[k] = IF k - e = 1 THEN next ELSE stack[k - e]
  <2> SUFFICES ASSUME NEW k \in Drawing'
               PROVE  \/ e > 0 /\ k = e /\ to # Root /\ stack'[k] = Scan(to)
                      \/ /\ k - e \in Drawing
                         /\ stack'[k] = IF k - e = 1 THEN next ELSE stack[k - e]
    OBVIOUS
  <2>1. k \in 1 .. Len(stack) + e /\ ~stack'[k].counts
    BY <1>11 DEF Drawing
  <2>2. CASE k \in 1 .. e
    BY <2>1, <2>2 DEF to
  <2>3. CASE k > e
    <3>1. k - e \in 1 .. Len(stack) /\ (k - e) + e = k
      BY <1>1, <2>1, <2>3
    <3>2. stack'[k] = IF k - e = 1 THEN next ELSE stack[k - e]
      BY <3>1
    <3>3. ~stack[k - e].counts
      BY <1>2, <2>1, <3>2 DEF Careful
    <3> QED BY <1>1, <3>1, <3>2, <3>3 DEF Drawing
  <2> QED BY <2>1, <2>2, <2>3
<1>13. \A k \in Drawing : k + e \in Drawing' /\ stack'[k + e].bus = stack[k].bus
  <2> SUFFICES ASSUME NEW k \in Drawing
               PROVE  k + e \in Drawing' /\ stack'[k + e].bus = stack[k].bus
    OBVIOUS
  <2>1. k \in 1 .. Len(stack) /\ ~stack[k].counts /\ k + e \in 1 .. Len(stack) + e
    BY <1>1 DEF Drawing
  <2>2. stack'[k + e] = IF k = 1 THEN next ELSE stack[k]
    BY <2>1
  <2>3. stack'[k + e].bus = stack[k].bus /\ stack'[k + e].counts = stack[k].counts
    BY <1>2, <2>2 DEF Careful
  <2> QED BY <1>11, <2>1, <2>3 DEF Drawing
<1>14. Scan(to).bus = to /\ Scan(to).dev = 0 /\ Scan(to).func = 0 /\ ~Scan(to).counts
  BY DEF Scan
<1>15. to # Root => e \in Drawing' /\ stack'[e].bus = to
  <2> SUFFICES ASSUME to # Root PROVE e \in Drawing' /\ stack'[e].bus = to
    OBVIOUS
  <2>1. e > 0 /\ stack'[e] = Scan(to)
    BY DEF to
  <2>2. e \in 1 .. Len(stack) + e
    BY <1>1, <2>1
  <2> QED BY <1>11, <1>14, <2>1, <2>2 DEF Drawing
<1>16. Places'
  <2> SUFFICES ASSUME NEW k \in Drawing'
               PROVE  Placed(stack'[k]) /\ stack'[k].bus \in BusesReached
    BY <1>10 DEF Places, Placed
  <2>1. CASE stack'[k] = Scan(to)
    BY <1>1, <1>6, <1>14, <2>1, PciScanAssumption DEF Placed
  <2>2. CASE k - e \in Drawing /\ stack'[k] = IF k - e = 1 THEN next ELSE stack[k - e]
    BY <1>4, <2>2 DEF Places, Careful
  <2> QED BY <1>12, <2>1, <2>2
<1>17. LinesVisible'
  <2> SUFFICES ASSUME NEW j \in DOMAIN lines'
               PROVE  Answers(lines'[j].at) /\ Bus(lines'[j].at) \in BusesReached
    BY <1>10 DEF LinesVisible, Answers, Bus, Dev, Func
  <2>1. CASE j \in DOMAIN lines
    BY <1>7, <2>1 DEF LinesVisible
  <2>2. CASE j = Len(lines) + 1
    BY <1>3, <1>4, <1>5, <1>7, <2>2
  <2> QED BY <1>8, <2>1, <2>2
<1>18. PassedReported'
  <2> SUFFICES ASSUME NEW k \in Drawing', NEW l \in DOMAIN space,
                      Bus(l) = stack'[k].bus, Answers(l), Passed(l, stack'[k])
               PROVE  Reported(l) \/ l = Here
    BY <1>9, <1>10 DEF PassedReported, Passed, Answers, Bus, Dev, Func
  <2>1. CASE stack'[k] = Scan(to)
    <3>1. Dev(l) \in Nat /\ Func(l) \in Nat
      BY <1>1, LocationParts, PciScanAssumption
    <3> QED BY <1>14, <2>1, <3>1 DEF Passed
  <2>2. CASE k - e \in Drawing /\ stack'[k] = IF k - e = 1 THEN next ELSE stack[k - e]
    <3>1. CASE k - e = 1
      <4>1. Passed(l, Top) \/ l = Here
        BY <2>2, <3>1 DEF Careful, Here
      <4>2. Bus(l) = Top.bus
        BY <2>2, <3>1 DEF Careful
      <4> QED BY <1>2, <4>1, <4>2 DEF PassedReported
    <3>2. CASE k - e # 1
      BY <2>2, <3>2 DEF PassedReported
    <3> QED BY <3>1, <3>2
  <2> QED BY <1>12, <2>1, <2>2
<1>19. WalkedReported'
  <2> SUFFICES ASSUME NEW bus \in Buses, bus = Root \/ BridgeReported(bus) \/ bus = to,
                      \A k \in Drawing' : stack'[k].bus # bus,
                      NEW l \in DOMAIN space, Bus(l) = bus, Answers(l)
               PROVE  Reported(l) \/ l = Here
    BY <1>9, <1>10 DEF WalkedReported, Answers, Bus
  <2>1. bus = Root \/ BridgeReported(bus)
    BY <1>15
  <2>2. \A k \in Drawing : stack[k].bus # bus
    BY <1>13
  <2> QED BY <2>1, <2>2 DEF WalkedReported
<1> QED BY <1>16, <1>17, <1>18, <1>19
LEMMA InitCInv == Init => CInv
<1> SUFFICES ASSUME Init PROVE CInv
  OBVIOUS
<1>1. Root \in Buses /\ <<>> \in Seq(AnyCall) /\ Len(<<>>) = 0
  BY PciScanAssumption
<1>2. PICK e \in {1, 2} :
        /\ Len(Enter(Root, <<>>)) = Len(<<>>) + e
        /\ Enter(Root, <<>>)[e] = Scan(Root)
        /\ e = 2 => Enter(Root, <<>>)[1].counts
  BY <1>1, EnterAdds
<1>3. stack = Enter(Root, <<>>) /\ stack \in Seq(AnyCall) /\ Len(stack) = e
  <2>1. stack = Enter(Root, <<>>)
    BY DEF Init
  <2>2. Enter(Root, <<>>) \in Seq(AnyCall)
    BY <1>1, EnterAdds
  <2>3. Len(<<>>) + e = e
    BY <1>1
  <2> QED BY <1>2, <2>1, <2>2, <2>3
<1>4. stack[e] = Scan(Root) /\ (e = 2 => stack[1].counts)
  BY <1>2, <1>3
<1>5. Drawing = {e}
  BY <1>3, <1>4 DEF Drawing, Scan
<1>6. /\ stack[e].bus = Root /\ stack[e].dev = 0 /\ stack[e].func = 0
  BY <1>4 DEF Scan
<1>7. Places
  BY <1>1, <1>5, <1>6, RootReached, PciScanAssumption DEF Places, Placed
<1>8. \A l \in DOMAIN space : ~Passed(l, stack[e])
  <2>1. \A l \in DOMAIN space : Dev(l) \in Nat /\ Func(l) \in Nat
    BY LocationParts, PciScanAssumption DEF Init
  <2> QED BY <1>6, <2>1 DEF Passed
<1>9. PassedReported
  BY <1>5, <1>8 DEF PassedReported
<1>10. lines = <<>>
  BY DEF Init
<1>11. LinesVisible /\ WalkedReported
  BY <1>5, <1>6, <1>10 DEF LinesVisible, WalkedReported, BridgeReported
<1> QED BY <1>7, <1>9, <1>11 DEF CInv

LEMMA TopPlaced ==
  ASSUME IInv, CInv, Scanning, ~Top.counts
  PROVE  Shape /\ Top \in AnyCall /\ Placed(Top) /\ Top.dev < DeviceCount
<1>1. Top \in AnyCall /\ 1 \in DOMAIN stack
  BY TopFacts DEF IInv, Scanning
<1>2. 1 \in Drawing
  BY <1>1 DEF Drawing, Top
<1> QED BY <1>1, <1>2 DEF CInv, Places, Top, Scanning, IInv

LEMMA NextCInv == IInv /\ CInv /\ [Next]_vars => CInv'
<1> SUFFICES ASSUME IInv, CInv, [Next]_vars PROVE CInv'
  OBVIOUS
<1>1. CASE Absent
  <2> DEFINE next == IF Top.func = 0 THEN NextDevice(Top) ELSE NextFunction(Top)
  <2>1. /\ stack # <<>> /\ stack' = [stack EXCEPT ![1] = next]
        /\ Scanning /\ Here \notin DOMAIN space /\ UNCHANGED <<space, lines>>
    BY <1>1 DEF Absent, Scanning, Found, Top
  <2>2. next.counts = Top.counts
    <3>1. Top \in AnyCall
      BY <2>1, TopFacts DEF IInv
    <3> QED BY <3>1, NextGoesOn, PciScanAssumption DEF GoesOn
  <2>3. ASSUME ~Top.counts PROVE Careful(Top, next)
    <3>1. Shape /\ Top \in AnyCall /\ Placed(Top) /\ Top.dev < DeviceCount
      BY <2>1, <2>3, TopPlaced
    <3>2. Here = <<Top.bus, Top.dev, Top.func>>
      BY DEF Here
    <3>3. CASE Top.func = 0
      BY <2>1, <3>1, <3>2, <3>3, NextDeviceCareful
    <3>4. CASE Top.func # 0
      BY <3>1, <3>4, NextFunctionCareful
    <3> QED BY <3>3, <3>4
  <2> HIDE DEF next
  <2> QED BY <2>1, <2>2, <2>3, TopGoesOnCompletely
<1>2. CASE Count
  <2> DEFINE next == [After(Top, space[Here]) EXCEPT !.ret = <<Top.dev, Top.func>>]
  <2>1. /\ stack # <<>> /\ stack' = [stack EXCEPT ![1] = next]
        /\ Top.counts /\ UNCHANGED <<space, lines>>
    BY <1>2 DEF Count, Scanning, Top
  <2>2. Top \in AnyCall
    BY <2>1, TopFacts DEF IInv
  <2>3. <<Top.dev, Top.func>> \in Nat \X Nat
    BY <2>2 DEF AnyCall
  <2>4. GoesOn(Top, next)
    BY <2>2, <2>3, AfterGoesOn, GoesOnRemembering
  <2> HIDE DEF next
  <2>5. next.counts = Top.counts
    BY <2>4 DEF GoesOn
  <2> QED BY <2>1, <2>5, TopGoesOnCompletely
<1>3. CASE Device
  <2> DEFINE next == After(Top, space[Here])
  <2>1. /\ stack # <<>> /\ stack' = [stack EXCEPT ![1] = next]
        /\ Scanning /\ ~Top.counts /\ Here \in DOMAIN space /\ space[Here].to = Root
    BY <1>3 DEF Device, Scanning, Found, Top
  <2>2. /\ 1 \in DOMAIN stack /\ DOMAIN stack = 1 .. Len(stack) /\ Len(stack) \in Nat
        /\ stack \in Seq(AnyCall)
    BY <2>1, TopFacts DEF IInv, Shape
  <2>3. Shape /\ Top \in AnyCall /\ Placed(Top) /\ Top.dev < DeviceCount
    BY <2>1, TopPlaced
  <2>4. Careful(Top, next)
    BY <2>1, <2>3, AfterCareful DEF Here
  <2>5. next \in AnyCall
    BY <2>3, AfterGoesOn DEF GoesOn
  <2>6. lines' = Append(lines, Line) /\ Line.at = Here /\ UNCHANGED space
    BY <1>3 DEF Device, Line
  <2> HIDE DEF next
  <2>7. /\ stack' \in Seq(AnyCall) /\ Len(stack') = Len(stack) + 0
        /\ \A k \in 1 .. Len(stack) : stack'[k + 0] = IF k = 1 THEN next ELSE stack[k]
    BY <2>1, <2>2, <2>5
  <2>8. \A k \in 1 .. 0 :
          \/ stack'[k].counts
          \/ k = 0 /\ space[Here].to # Root /\ stack'[k] = Scan(space[Here].to)
    OBVIOUS
  <2>9. 0 \in {0, 1, 2} /\ ~(0 > 0)
    OBVIOUS
  <2> QED BY <2>1, <2>4, <2>6, <2>7, <2>8, <2>9, TopReportsCompletely
<1>4. CASE Bridge
  <2>1. /\ stack # <<>> /\ ~Top.counts /\ Here \in DOMAIN space
        /\ lines' = Append(lines, Line) /\ Line.at = Here /\ UNCHANGED space
        /\ stack' \in Seq(AnyCall)
    BY <1>4, BridgePushes
  <2>2. PICK e \in {1, 2} :
          /\ Len(stack') = Len(stack) + e
          /\ \A k \in 1 .. Len(stack) :
               stack'[k + e] = IF k = 1 THEN BehindBridge ELSE stack[k]
          /\ stack'[e] = Scan(space[Here].to) /\ space[Here].to # Root
          /\ \A k \in 1 .. e : k = e \/ stack'[k].counts
    BY <1>4, BridgePushes
  <2>3. Careful(Top, BehindBridge)
    <3>1. Shape /\ Top \in AnyCall /\ Placed(Top) /\ Top.dev < DeviceCount
      BY <1>4, <2>1, TopPlaced DEF Bridge
    <3>2. Careful(Top, After(Top, space[Here]))
      BY <2>1, <3>1, AfterCareful DEF Here
    <3>3. After(Top, space[Here]) \in AnyCall
      BY <3>1, AfterGoesOn DEF GoesOn
    <3>4. Len(nesting_buf) \in Nat
      BY DEF IInv, Shape
    <3> QED BY <3>2, <3>3, <3>4, CarefulRemembering DEF BehindBridge
  <2>4. \A k \in 1 .. e :
          \/ stack'[k].counts
          \/ k = e /\ space[Here].to # Root /\ stack'[k] = Scan(space[Here].to)
    BY <2>2
  <2>5. e \in {0, 1, 2} /\ e > 0
    OBVIOUS
  <2> QED BY <2>1, <2>2, <2>3, <2>4, <2>5, TopReportsCompletely
<1>5. CASE Counted
  <2>1. /\ stack # <<>> /\ Top.dev = DeviceCount /\ UNCHANGED <<space, lines>>
    BY <1>5 DEF Counted
  <2> QED BY <1>5, <2>1, CountedPops, TopReturnsCompletely DEF Popped
<1>6. CASE Return
  <2>1. /\ stack # <<>> /\ Top.dev = DeviceCount /\ UNCHANGED <<space, lines>>
    BY <1>6 DEF Return
  <2> QED BY <1>6, <2>1, ReturnPops, TopReturnsCompletely DEF Popped
<1>7. CASE UNCHANGED vars
  <2>1. stack' = stack /\ space' = space /\ lines' = lines
    BY <1>7 DEF vars
  <2>2. Drawing' = Drawing /\ BusesReached' = BusesReached
    BY <2>1 DEF Drawing, BusesReached, Closed, Answers
  <2>3. Places' /\ LinesVisible'
    BY <2>1, <2>2 DEF CInv, Places, Placed, LinesVisible, Answers
  <2>4. PassedReported' /\ WalkedReported'
    BY <2>1, <2>2 DEF CInv, PassedReported, WalkedReported, Reported, BridgeReported,
                      Passed, Answers
  <2> QED BY <2>3, <2>4 DEF CInv
<1> QED BY <1>1, <1>2, <1>3, <1>4, <1>5, <1>6, <1>7 DEF Next, Walk, Ended

(* In the end the buses whose bridges are reported are a closed set.       *)
LEMMA InTheEnd ==
  ASSUME IInv, CInv, stack = <<>>
  PROVE  {lines[k].at : k \in DOMAIN lines} = Visible
<1> DEFINE seen == {bus \in Buses : bus = Root \/ BridgeReported(bus)}
<1>1. Drawing = {}
  BY DEF Drawing
<1>2. ASSUME NEW l \in DOMAIN space, Bus(l) \in seen, Answers(l) PROVE Reported(l)
  BY <1>1, <1>2 DEF CInv, WalkedReported
<1>3. Closed(seen)
  <2>1. Root \in seen
    BY PciScanAssumption
  <2>2. ASSUME NEW l \in DOMAIN space, Bus(l) \in seen, Answers(l) PROVE space[l].to \in seen
    <3>1. Reported(l)
      BY <1>2, <2>2
    <3>2. space[l].to \in Buses
      BY <2>2, PciScanAssumption DEF IInv, Shape, Headers
    <3> QED BY <3>1, <3>2 DEF Reported, BridgeReported
  <2> HIDE DEF seen
  <2> QED BY <2>1, <2>2 DEF Closed
<1>4. BusesReached \subseteq seen
  <2>1. seen \in SUBSET Buses
    OBVIOUS
  <2> HIDE DEF seen
  <2> QED BY <1>3, <2>1 DEF BusesReached
<1> HIDE DEF seen
<1>5. ASSUME NEW l \in Visible PROVE \E k \in DOMAIN lines : lines[k].at = l
  BY <1>2, <1>4 DEF Visible, Reported
<1>6. ASSUME NEW k \in DOMAIN lines PROVE lines[k].at \in Visible
  BY DEF CInv, LinesVisible, Visible, IInv, Shape
<1> QED BY <1>5, <1>6

(* pci_scan_bus and pcireg -s report every function that answers on a bus  *)
(* that bridges lead to, and nothing that is hidden, on any machine.       *)
THEOREM EveryFunctionReported == Spec => []ReportsAll
<1>1. IInv /\ CInv => ReportsAll
  BY InTheEnd DEF ReportsAll
<1> QED BY <1>1, InitIInv, NextIInv, InitCInv, NextCInv, PTL DEF Spec
-----------------------------------------------------------------------------
(* The tree: how the calls are stacked, and what they share.               *)
Inner == IF Top.counts THEN 2 ELSE 1

(* Only the innermost call can be one that counts, for the one that called *)
(* it; the outermost one draws the root bus.                               *)
Stacked ==
  /\ tool \in {"clib", "pcireg"}
  /\ \A k \in DOMAIN stack : Placed(stack[k])
  /\ stack # <<>> =>
       /\ Len(stack) >= Inner
       /\ \A k \in Inner .. Len(stack) : ~stack[k].counts
       /\ stack[Len(stack)].bus = Root
       /\ Top.counts => tool = "pcireg" /\ stack[2].bus = Top.bus

(* How much of nesting_buf is a call's own.                                *)
Level(k) == IF tool = "pcireg" /\ Len(stack) - k > 1 THEN Len(stack) - k - 1 ELSE 0
Own(k) == SubSeq(nesting_buf, 1, Level(k))

Cuts ==
  /\ nesting_buf \in Seq(BOOLEAN)
  /\ stack = <<>> => nesting_buf = <<>>
  /\ stack # <<>> =>
       /\ Len(nesting_buf) = Level(Inner)
       /\ \A k \in Inner + 1 .. Len(stack) : stack[k].cut = Level(k)

(* Of the functions to be found on a bus none comes after this place.      *)
NotAfter(l, dev, func) == Dev(l) < dev \/ (Dev(l) = dev /\ Func(l) <= func)
Ends(bus, dev, func) ==
  \A l \in DOMAIN space : Bus(l) = bus /\ Answers(l) => NotAfter(l, dev, func)

(* What the walk without a buffer has come to.                             *)
Counts(call) ==
  /\ \/ call.ret = <<0, 0>>
     \/ LET l == <<call.bus, call.ret[1], call.ret[2]>> IN l \in DOMAIN space /\ Answers(l)
  /\ IF call.counts
     THEN \A l \in DOMAIN space : Bus(l) = call.bus /\ Answers(l) /\ Passed(l, call) =>
            NotAfter(l, call.ret[1], call.ret[2])
     ELSE Ends(call.bus, call.ret[1], call.ret[2])

Told == tool = "pcireg" => \A k \in DOMAIN stack : (k = 2 /\ Top.counts) \/ Counts(stack[k])

LastsRight ==
  /\ \A j \in DOMAIN lines : lines[j].last \in BOOLEAN /\ lines[j].nesting \in Seq(BOOLEAN)
  /\ tool = "pcireg" =>
       \A j \in DOMAIN lines :
         lines[j].last <=> Ends(Bus(lines[j].at), Dev(lines[j].at), Func(lines[j].at))

(* What is before the lines of the bus behind a bridge.                    *)
Behind(line) == IF Bus(line.at) = Root THEN <<>> ELSE Append(line.nesting, line.last)

NestingsRight ==
  tool = "pcireg" =>
    /\ \A k \in Drawing, j \in DOMAIN lines :
         /\ Bus(lines[j].at) = stack[k].bus => lines[j].nesting = Own(k)
         /\ stack[k].bus # Root /\ space[lines[j].at].to = stack[k].bus =>
              Own(k) = Behind(lines[j])
    /\ \A i, j \in DOMAIN lines :
         Bus(lines[j].at) # Root /\ space[lines[i].at].to = Bus(lines[j].at) =>
           lines[j].nesting = Behind(lines[i])

TInv == Stacked /\ Cuts /\ Told /\ LastsRight /\ NestingsRight
-----------------------------------------------------------------------------
LEMMA StackIs ==
  ASSUME IInv, Stacked, stack # <<>>
  PROVE  /\ Len(stack) \in Nat /\ Len(stack) >= Inner /\ Inner \in {1, 2}
         /\ DOMAIN stack = 1 .. Len(stack) /\ Drawing = Inner .. Len(stack)
         /\ Top = stack[1] /\ Top \in AnyCall
         /\ \A k \in DOMAIN stack : stack[k] \in AnyCall
<1>1. /\ Top \in AnyCall /\ DOMAIN stack = 1 .. Len(stack) /\ Len(stack) \in Nat
      /\ \A k \in DOMAIN stack : stack[k] \in AnyCall
  BY TopFacts DEF IInv
<1>2. Top = stack[1]
  BY DEF Top
<1>3. Inner \in {1, 2} /\ Len(stack) >= Inner /\ \A k \in Inner .. Len(stack) : ~stack[k].counts
  BY DEF Inner, Stacked
<1>4. \A k \in Drawing : k >= Inner
  <2>1. Inner = 2 => stack[1].counts
    BY <1>2 DEF Inner
  <2> QED BY <1>1, <1>3, <2>1 DEF Drawing
<1>5. Drawing = Inner .. Len(stack)
  BY <1>1, <1>3, <1>4 DEF Drawing
<1> QED BY <1>1, <1>2, <1>3, <1>5

(* The innermost call goes on; what it remembers may change.               *)
TopMoves(next) ==
  /\ stack # <<>> /\ stack' = [stack EXCEPT ![1] = next]
  /\ next \in AnyCall /\ next.bus = Top.bus /\ next.counts = Top.counts
  /\ UNCHANGED <<tool, space, nesting_buf>>

LEMMA TopMovesIs ==
  ASSUME IInv, Stacked, NEW next, TopMoves(next)
  PROVE  /\ stack' \in Seq(AnyCall) /\ Len(stack') = Len(stack) /\ DOMAIN stack' = DOMAIN stack
         /\ stack'[1] = next /\ stack' # <<>>
         /\ \A k \in DOMAIN stack : k # 1 => stack'[k] = stack[k]
         /\ \A k \in DOMAIN stack : stack'[k].bus = stack[k].bus
         /\ Inner' = Inner /\ Drawing' = Drawing
<1>1. stack # <<>> /\ stack \in Seq(AnyCall)
  BY DEF TopMoves, IInv, Shape
<1>2. 1 \in DOMAIN stack /\ Top = stack[1]
  BY <1>1 DEF Top
<1>3. /\ stack' \in Seq(AnyCall) /\ Len(stack') = Len(stack) /\ DOMAIN stack' = DOMAIN stack
      /\ stack'[1] = next /\ \A k \in DOMAIN stack : k # 1 => stack'[k] = stack[k]
  BY <1>1, <1>2 DEF TopMoves
<1>4. \A k \in DOMAIN stack : stack'[k].bus = stack[k].bus /\ stack'[k].counts = stack[k].counts
  BY <1>2, <1>3 DEF TopMoves
<1>5. Inner' = Inner /\ Drawing' = Drawing
  BY <1>2, <1>3, <1>4 DEF Inner, Top, Drawing
<1> QED BY <1>1, <1>2, <1>3, <1>4, <1>5

LEMMA TopMovesStacked ==
  ASSUME IInv, Stacked, NEW next, TopMoves(next), Placed(next)
  PROVE  Stacked'
<1>1. /\ Len(stack') = Len(stack) /\ DOMAIN stack' = DOMAIN stack
      /\ stack'[1] = next /\ stack' # <<>> /\ Inner' = Inner
      /\ \A k \in DOMAIN stack : k # 1 => stack'[k] = stack[k]
      /\ \A k \in DOMAIN stack : stack'[k].bus = stack[k].bus
  BY TopMovesIs
<1>2. /\ Len(stack) \in Nat /\ Len(stack) >= Inner /\ Inner \in {1, 2}
      /\ DOMAIN stack = 1 .. Len(stack) /\ Top = stack[1] /\ stack # <<>>
  BY StackIs DEF TopMoves
<1>3. \A k \in DOMAIN stack : Placed(stack[k])'
  BY <1>1 DEF Stacked, Placed, TopMoves
<1>4. \A k \in Inner .. Len(stack) : ~stack'[k].counts
  BY <1>1, <1>2 DEF Stacked, TopMoves
<1>5. stack'[Len(stack)].bus = Root
  BY <1>1, <1>2 DEF Stacked
<1>6. Top'.counts => tool = "pcireg" /\ stack'[2].bus = Top'.bus
  <2> SUFFICES ASSUME Top'.counts PROVE tool = "pcireg" /\ stack'[2].bus = Top'.bus
    OBVIOUS
  <2>1. Top' = next /\ Top.counts
    BY <1>1 DEF Top, TopMoves
  <2>2. 2 \in DOMAIN stack
    BY <1>2, <2>1 DEF Inner
  <2> QED BY <1>1, <2>1, <2>2 DEF Stacked, TopMoves
<1> QED BY <1>1, <1>2, <1>3, <1>4, <1>5, <1>6 DEF Stacked, TopMoves

LEMMA TopMovesCuts ==
  ASSUME IInv, Stacked, Cuts, NEW next, TopMoves(next)
  PROVE  Cuts' /\ \A k : Own(k)' = Own(k)
<1>1. /\ Len(stack') = Len(stack) /\ DOMAIN stack' = DOMAIN stack
      /\ stack' # <<>> /\ Inner' = Inner
      /\ \A k \in DOMAIN stack : k # 1 => stack'[k] = stack[k]
  BY TopMovesIs
<1>2. /\ Len(stack) \in Nat /\ Inner \in {1, 2}
      /\ DOMAIN stack = 1 .. Len(stack) /\ stack # <<>>
  BY StackIs DEF TopMoves
<1>3. \A k : Level(k)' = Level(k) /\ Own(k)' = Own(k)
  BY <1>1 DEF Level, Own, TopMoves
<1>4. \A k \in Inner + 1 .. Len(stack) : k \in DOMAIN stack /\ k # 1
  BY <1>2
<1>5. nesting_buf' = nesting_buf
  BY DEF TopMoves
<1> QED BY <1>1, <1>2, <1>3, <1>4, <1>5 DEF Cuts

(* The innermost call has ended, and the one before has what it remembers. *)
TopEnds ==
  /\ stack # <<>> /\ stack' \in Seq(AnyCall) /\ Len(stack') = Len(stack) - 1
  /\ \A k \in 1 .. Len(stack) - 1 :
       /\ stack'[k].bus = stack[k + 1].bus
       /\ stack'[k].counts = stack[k + 1].counts
       /\ stack'[k].dev = stack[k + 1].dev
       /\ stack'[k].func = stack[k + 1].func
       /\ stack'[k].cut = stack[k + 1].cut
  /\ \A k \in 2 .. Len(stack) - 1 : stack'[k] = stack[k + 1]
  /\ UNCHANGED <<tool, space, lines>>

LEMMA TopEndsIs ==
  ASSUME IInv, Stacked, TopEnds
  PROVE  /\ DOMAIN stack' = 1 .. Len(stack) - 1 /\ Drawing' = 1 .. Len(stack) - 1
         /\ \A k \in Drawing' : k + 1 \in Drawing
         /\ \A k \in Nat : Level(k)' = Level(k + 1)
         /\ stack' # <<>> => Inner' = 1 /\ 1 \in DOMAIN stack'
<1>1. /\ Len(stack) \in Nat /\ Len(stack) >= Inner /\ Inner \in {1, 2}
      /\ DOMAIN stack = 1 .. Len(stack) /\ Drawing = Inner .. Len(stack)
  BY StackIs DEF TopEnds
<1>2. DOMAIN stack' = 1 .. Len(stack) - 1
  BY <1>1 DEF TopEnds
<1>3. \A k \in 1 .. Len(stack) - 1 : k + 1 \in Drawing /\ ~stack'[k].counts
  BY <1>1 DEF TopEnds, Drawing
<1>4. Drawing' = 1 .. Len(stack) - 1
  BY <1>2, <1>3 DEF Drawing
<1>5. stack' # <<>> => 1 \in DOMAIN stack'
  BY <1>1, <1>2 DEF TopEnds
<1>6. stack' # <<>> => Inner' = 1
  BY <1>2, <1>3, <1>5 DEF Inner, Top
<1>7. ASSUME NEW k \in Nat PROVE Level(k)' = Level(k + 1)
  <2>1. Len(stack') - k = Len(stack) - (k + 1) /\ tool' = tool
    BY <1>1 DEF TopEnds
  <2>2. Len(stack') - k - 1 = Len(stack) - (k + 1) - 1
    BY <2>1
  <2> QED BY <2>1, <2>2 DEF Level
<1> QED BY <1>2, <1>3, <1>4, <1>5, <1>6, <1>7

(* What a call remembers means the same as long as the machine does.       *)
LEMMA SameMachine ==
  ASSUME UNCHANGED space
  PROVE  /\ \A l : Answers(l)' <=> Answers(l)
         /\ \A bus, dev, func : Ends(bus, dev, func)' <=> Ends(bus, dev, func)
         /\ \A call : Counts(call)' <=> Counts(call)
<1>1. \A l : Answers(l)' <=> Answers(l)
  BY DEF Answers
<1>2. \A bus, dev, func : Ends(bus, dev, func)' <=> Ends(bus, dev, func)
  BY <1>1 DEF Ends
<1>3. \A call : Counts(call)' <=> Counts(call)
  BY <1>1, <1>2 DEF Counts
<1> QED BY <1>1, <1>2, <1>3

LEMMA SameCount ==
  ASSUME NEW call, NEW next, next.bus = call.bus, next.ret = call.ret,
         ~call.counts, ~next.counts
  PROVE  Counts(call) <=> Counts(next)
BY DEF Counts

LEMMA TopMovesTold ==
  ASSUME IInv, Stacked, Told, NEW next, TopMoves(next), tool = "pcireg" => Counts(next)
  PROVE  Told'
<1>1. /\ DOMAIN stack' = DOMAIN stack /\ stack'[1] = next
      /\ \A k \in DOMAIN stack : k # 1 => stack'[k] = stack[k]
  BY TopMovesIs
<1>2. /\ \A call : Counts(call)' <=> Counts(call)
      /\ tool' = tool /\ Top'.counts = Top.counts
  BY <1>1, SameMachine DEF TopMoves, Top
<1>3. ASSUME NEW k \in DOMAIN stack, tool = "pcireg", ~(k = 2 /\ Top.counts)
      PROVE  Counts(stack'[k])
  <2>1. CASE k = 1
    BY <1>1, <1>3, <2>1
  <2>2. CASE k # 1
    BY <1>1, <1>3, <2>2 DEF Told
  <2> QED BY <2>1, <2>2
<1>4. \A k \in DOMAIN stack : Counts(stack[k])' <=> Counts(stack'[k])
  BY <1>2
<1> QED BY <1>1, <1>2, <1>3, <1>4 DEF Told

LEMMA TopMovesTree ==
  ASSUME IInv, TInv, NEW next, TopMoves(next), Placed(next), UNCHANGED lines,
         tool = "pcireg" => Counts(next)
  PROVE  TInv'
<1>1. Stacked' /\ Cuts' /\ Told' /\ \A k : Own(k)' = Own(k)
  BY TopMovesStacked, TopMovesCuts, TopMovesTold DEF TInv
<1>2. tool' = tool /\ space' = space /\ lines' = lines
  BY DEF TopMoves
<1>3. LastsRight'
  BY <1>2, SameMachine DEF TInv, LastsRight
<1>4. /\ Drawing' = Drawing
      /\ \A k \in DOMAIN stack : stack'[k].bus = stack[k].bus
  BY TopMovesIs DEF TInv
<1>5. NestingsRight'
  <2>1. \A k \in Drawing : stack'[k].bus = stack[k].bus
    BY <1>4 DEF Drawing
  <2>2. NestingsRight
    BY DEF TInv
  <2> QED BY <1>1, <1>2, <1>4, <2>1, <2>2 DEF NestingsRight, Behind
<1> QED BY <1>1, <1>3, <1>5 DEF TInv

(* The innermost call is where it can be, whether it counts or not.        *)
LEMMA TopIsPlaced ==
  ASSUME IInv, TInv, Scanning
  PROVE  /\ Shape /\ Top \in AnyCall /\ Placed(Top) /\ Top.dev < DeviceCount
         /\ tool = "pcireg" => Counts(Top)
         /\ Here \in DOMAIN space => Answers(Here)
<1>1. Top = stack[1] /\ 1 \in DOMAIN stack /\ Top \in AnyCall
  BY TopFacts DEF Top, IInv, Scanning
<1>2. Placed(Top)
  BY <1>1 DEF TInv, Stacked
<1>3. tool = "pcireg" => Counts(Top)
  BY <1>1 DEF TInv, Told
<1>4. Here \in DOMAIN space => Answers(Here)
  <2>1. Bus(Here) = Top.bus /\ Dev(Here) = Top.dev /\ Func(Here) = Top.func
    BY DEF Here, Bus, Dev, Func
  <2>2. Top.func = 0 \/ Top.func > 0
    BY <1>2 DEF Placed
  <2> QED BY <1>2, <2>1, <2>2 DEF Answers, Placed
<1> QED BY <1>1, <1>2, <1>3, <1>4 DEF IInv, Scanning

LEMMA AbsentTree == IInv /\ TInv /\ Absent => TInv'
<1> SUFFICES ASSUME IInv, TInv, Absent PROVE TInv'
  OBVIOUS
<1> DEFINE next == IF Top.func = 0 THEN NextDevice(Top) ELSE NextFunction(Top)
<1>1. /\ Scanning /\ stack # <<>> /\ stack' = [stack EXCEPT ![1] = next]
      /\ Here \notin DOMAIN space /\ UNCHANGED <<tool, space, nesting_buf, lines>>
  BY DEF Absent, Scanning, Found, Top
<1>2. Shape /\ Top \in AnyCall /\ Placed(Top) /\ Top.dev < DeviceCount
  BY <1>1, TopIsPlaced
<1>3. Here = <<Top.bus, Top.dev, Top.func>>
  BY DEF Here
<1>4. Careful(Top, next)
  <2>1. CASE Top.func = 0
    BY <1>1, <1>2, <1>3, <2>1, NextDeviceCareful
  <2>2. CASE Top.func # 0
    BY <1>2, <2>2, NextFunctionCareful
  <2> QED BY <2>1, <2>2
<1>5. next.ret = Top.ret
  <2>1. NextDevice(Top).ret = Top.ret /\ NextFunction(Top).ret = Top.ret
    BY <1>2 DEF NextDevice, NextFunction, AnyCall
  <2> QED BY <2>1
<1>6. GoesOn(Top, next)
  BY <1>2, NextGoesOn, PciScanAssumption
<1> HIDE DEF next
<1>7. TopMoves(next)
  BY <1>1, <1>6 DEF TopMoves, GoesOn
<1>8. ASSUME tool = "pcireg" PROVE Counts(next)
  <2>1. Counts(Top)
    BY <1>1, <1>8, TopIsPlaced
  <2>2. \A l \in DOMAIN space :
          Bus(l) = Top.bus /\ Answers(l) /\ Passed(l, next) => Passed(l, Top)
    BY <1>1, <1>3, <1>4 DEF Careful
  <2> QED BY <1>5, <1>7, <2>1, <2>2 DEF Counts, TopMoves
<1> QED BY <1>1, <1>4, <1>7, <1>8, TopMovesTree DEF Careful

LEMMA CountTree == IInv /\ TInv /\ Count => TInv'
<1> SUFFICES ASSUME IInv, TInv, Count PROVE TInv'
  OBVIOUS
<1> DEFINE on == After(Top, space[Here])
           here == <<Top.dev, Top.func>>
           next == [on EXCEPT !.ret = here]
<1>1. /\ Scanning /\ stack # <<>> /\ stack' = [stack EXCEPT ![1] = next]
      /\ Top.counts
      /\ Here \in DOMAIN space /\ UNCHANGED <<tool, space, nesting_buf, lines>>
  BY DEF Count, Scanning, Found, Top
<1>2. Shape /\ Top \in AnyCall /\ Placed(Top) /\ Top.dev < DeviceCount /\ Answers(Here)
  BY <1>1, TopIsPlaced
<1>3. Careful(Top, on) /\ on \in AnyCall
  <2>1. Careful(Top, on)
    BY <1>1, <1>2, AfterCareful DEF Here
  <2>2. on \in AnyCall
    BY <1>2, AfterGoesOn DEF GoesOn
  <2> QED BY <2>1, <2>2
<1>4. here \in Nat \X Nat
  BY <1>2 DEF AnyCall
<1> HIDE DEF on, here
<1>5. /\ next \in AnyCall /\ next.bus = on.bus /\ next.counts = on.counts
      /\ next.dev = on.dev /\ next.func = on.func /\ next.ret = here
  BY <1>3, <1>4 DEF AnyCall
<1> HIDE DEF next
<1>6. Placed(next) /\ next.bus = Top.bus /\ next.counts = Top.counts
  BY <1>3, <1>5 DEF Careful, Placed
<1>7. \A l \in DOMAIN space :
        Bus(l) = Top.bus /\ Answers(l) /\ Passed(l, next) => Passed(l, Top) \/ l = Here
  BY <1>3, <1>5 DEF Careful, Passed, Here
<1>8. TopMoves(next)
  BY <1>1, <1>5, <1>6 DEF TopMoves
<1>9. Counts(next)
  <2>1. here[1] = Top.dev /\ here[2] = Top.func /\ Here = <<Top.bus, here[1], here[2]>>
    BY DEF here, Here
  <2>2. Top.dev \in Nat /\ Top.func \in Nat
    BY <1>2 DEF AnyCall
  <2>3. \A l \in DOMAIN space : Dev(l) \in Nat /\ Func(l) \in Nat
    BY <1>2, LocationParts, PciScanAssumption DEF Shape
  <2>4. NotAfter(Here, Top.dev, Top.func)
    BY <2>2 DEF NotAfter, Here, Dev, Func
  <2>5. ASSUME NEW l \in DOMAIN space, Passed(l, Top) PROVE NotAfter(l, Top.dev, Top.func)
    BY <2>2, <2>3, <2>5 DEF NotAfter, Passed
  <2>6. \A l \in DOMAIN space : Bus(l) = next.bus /\ Answers(l) /\ Passed(l, next) =>
          NotAfter(l, next.ret[1], next.ret[2])
    BY <1>5, <1>6, <1>7, <2>1, <2>4, <2>5
  <2>7. <<next.bus, next.ret[1], next.ret[2]>> = Here
    BY <1>5, <1>6, <2>1
  <2> QED BY <1>1, <1>2, <1>6, <2>6, <2>7 DEF Counts
<1> QED BY <1>1, <1>6, <1>8, <1>9, TopMovesTree

(* The whole of nesting_buf is the innermost drawing call's own.           *)
LEMMA OwnIsAll ==
  ASSUME IInv, Stacked, Cuts, stack # <<>>
  PROVE  /\ Own(Inner) = nesting_buf /\ nesting_buf \in Seq(BOOLEAN)
         /\ Len(nesting_buf) = Level(Inner)
<1>1. nesting_buf \in Seq(BOOLEAN) /\ Len(nesting_buf) = Level(Inner)
  BY DEF Cuts
<1>2. SubSeq(nesting_buf, 1, Len(nesting_buf)) = nesting_buf
  BY <1>1
<1> QED BY <1>1, <1>2 DEF Own

(* What the line of the function that the innermost call is at says.       *)
LEMMA LineIsRight ==
  ASSUME IInv, TInv, Scanning, Found, ~Top.counts
  PROVE  /\ Line.at = Here /\ Line.nesting = nesting_buf /\ Line.last = IsLast
         /\ Line.last \in BOOLEAN /\ Line.nesting \in Seq(BOOLEAN)
         /\ Line.nesting = Own(1)
         /\ tool = "pcireg" => (Line.last <=> Ends(Top.bus, Top.dev, Top.func))
<1>1. /\ Line.at = Here /\ Line.nesting = nesting_buf /\ Line.last = IsLast
      /\ Inner = 1 /\ stack # <<>>
  BY DEF Line, Inner, Scanning
<1>2. IsLast \in BOOLEAN
  BY DEF IsLast
<1>3. nesting_buf \in Seq(BOOLEAN) /\ Own(1) = nesting_buf
  BY <1>1, OwnIsAll DEF TInv
<1>4. ASSUME tool = "pcireg" PROVE IsLast <=> Ends(Top.bus, Top.dev, Top.func)
  <2>1. /\ Shape /\ Top \in AnyCall /\ Placed(Top) /\ Top.dev < DeviceCount
        /\ Counts(Top) /\ Answers(Here)
    BY <1>4, TopIsPlaced DEF Found
  <2> DEFINE dev == Top.ret[1]
             func == Top.ret[2]
  <2>2. Top.dev \in Nat /\ Top.func \in Nat /\ dev \in Nat /\ func \in Nat
    BY <2>1 DEF AnyCall
  <2>3. \A l \in DOMAIN space : Dev(l) \in Nat /\ Func(l) \in Nat
    BY <2>1, LocationParts, PciScanAssumption DEF Shape
  <2>4. Ends(Top.bus, dev, func)
    BY <2>1 DEF Counts
  <2>5. Bus(Here) = Top.bus /\ Dev(Here) = Top.dev /\ Func(Here) = Top.func
    BY DEF Here, Bus, Dev, Func
  <2>6. IsLast <=> Top.dev > dev \/ (Top.dev = dev /\ Top.func >= func)
    BY DEF IsLast
  <2>7. Top.ret = <<0, 0>> => dev = 0 /\ func = 0
    OBVIOUS
  <2>8. \/ Top.ret = <<0, 0>>
        \/ LET l == <<Top.bus, dev, func>> IN l \in DOMAIN space /\ Answers(l)
    BY <2>1 DEF Counts
  <2> HIDE DEF dev, func
  <2>9. ASSUME IsLast PROVE Ends(Top.bus, Top.dev, Top.func)
    BY <2>2, <2>3, <2>4, <2>6, <2>9 DEF Ends, NotAfter
  <2>10. ASSUME Ends(Top.bus, Top.dev, Top.func) PROVE IsLast
    <3>1. CASE Top.ret = <<0, 0>>
      BY <2>2, <2>6, <2>7, <3>1
    <3>2. CASE LET l == <<Top.bus, dev, func>> IN l \in DOMAIN space /\ Answers(l)
      <4> DEFINE l == <<Top.bus, dev, func>>
      <4>1. l \in DOMAIN space /\ Answers(l) /\ Bus(l) = Top.bus /\ Dev(l) = dev /\ Func(l) = func
        BY <3>2 DEF Bus, Dev, Func
      <4> HIDE DEF l
      <4>2. NotAfter(l, Top.dev, Top.func)
        BY <2>10, <4>1 DEF Ends
      <4> QED BY <2>2, <2>6, <4>1, <4>2 DEF NotAfter
    <3> QED BY <2>8, <3>1, <3>2
  <2> QED BY <2>9, <2>10
<1> QED BY <1>1, <1>2, <1>3, <1>4

LEMMA LinesGrow ==
  ASSUME IInv, lines' = Append(lines, Line)
  PROVE  /\ Len(lines) + 1 \in DOMAIN lines' /\ lines'[Len(lines) + 1] = Line
         /\ \A j \in DOMAIN lines : j \in DOMAIN lines' /\ lines'[j] = lines[j]
         /\ \A j \in DOMAIN lines' : j \in DOMAIN lines \/ j = Len(lines) + 1
<1>1. PICK S : lines \in Seq(S)
  BY DEF IInv, Shape
<1>2. lines \in Seq(S \cup {Line}) /\ Line \in S \cup {Line}
  BY <1>1
<1>3. /\ lines' \in Seq(S \cup {Line}) /\ Len(lines') = Len(lines) + 1
      /\ \A j \in 1 .. Len(lines) : lines'[j] = lines[j]
      /\ lines'[Len(lines) + 1] = Line
  BY <1>2, AppendProperties
<1>4. /\ Len(lines) \in Nat /\ DOMAIN lines = 1 .. Len(lines)
      /\ DOMAIN lines' = 1 .. Len(lines) + 1
  BY <1>2, <1>3
<1> QED BY <1>3, <1>4

(* What is before each line, as far as the bridges' lines say.             *)
Repeats ==
  \A i, j \in DOMAIN lines :
    Bus(lines[j].at) # Root /\ space[lines[i].at].to = Bus(lines[j].at) =>
      lines[j].nesting = Behind(lines[i])

(* A line drawn at the right place leaves those that there are right.      *)
LEMMA ReportsTree ==
  ASSUME IInv, TInv, Scanning, Found, ~Top.counts,
         lines' = Append(lines, Line), UNCHANGED <<tool, space>>
  PROVE  LastsRight' /\ (tool = "pcireg" => Repeats')
<1>1. /\ Line.at = Here
      /\ Line.last \in BOOLEAN /\ Line.nesting \in Seq(BOOLEAN)
      /\ Line.nesting = Own(1)
      /\ tool = "pcireg" => (Line.last <=> Ends(Top.bus, Top.dev, Top.func))
  BY LineIsRight
<1>2. /\ Len(lines) + 1 \in DOMAIN lines' /\ lines'[Len(lines) + 1] = Line
      /\ \A j \in DOMAIN lines : j \in DOMAIN lines' /\ lines'[j] = lines[j]
      /\ \A j \in DOMAIN lines' : j \in DOMAIN lines \/ j = Len(lines) + 1
  BY LinesGrow
<1>3. Bus(Here) = Top.bus /\ Dev(Here) = Top.dev /\ Func(Here) = Top.func
  BY DEF Here, Bus, Dev, Func
<1>4. LastsRight
  BY DEF TInv
<1>5. \A j \in DOMAIN lines' : lines'[j].last \in BOOLEAN /\ lines'[j].nesting \in Seq(BOOLEAN)
  BY <1>1, <1>2, <1>4 DEF LastsRight
<1>6. ASSUME tool = "pcireg", NEW j \in DOMAIN lines'
      PROVE  lines'[j].last <=> Ends(Bus(lines'[j].at), Dev(lines'[j].at), Func(lines'[j].at))
  <2>1. CASE j \in DOMAIN lines
    BY <1>2, <1>4, <1>6, <2>1 DEF LastsRight
  <2>2. CASE j = Len(lines) + 1
    BY <1>1, <1>2, <1>3, <1>6, <2>2
  <2> QED BY <1>2, <2>1, <2>2
<1>7. LastsRight'
  <2>1. \A j \in DOMAIN lines' :
          Ends(Bus(lines[j].at), Dev(lines[j].at), Func(lines[j].at))'
            <=> Ends(Bus(lines'[j].at), Dev(lines'[j].at), Func(lines'[j].at))
    BY SameMachine DEF Bus, Dev, Func
  <2> QED BY <1>5, <1>6, <2>1 DEF LastsRight
<1>8. ASSUME tool = "pcireg", NEW i \in DOMAIN lines', NEW j \in DOMAIN lines',
             Bus(lines'[j].at) # Root, space[lines'[i].at].to = Bus(lines'[j].at)
      PROVE  lines'[j].nesting = Behind(lines'[i])
  <2>1. /\ \A k \in DOMAIN lines : lines[k].at # Here
        /\ space[Here].to # Root =>
              /\ space[Here].to \in Nat /\ space[Here].to > Top.bus
              /\ \A k \in DOMAIN lines : Bus(lines[k].at) # space[Here].to
    BY HereIsNew DEF Found, Scanning
  <2>2. NestingsRight /\ 1 \in Drawing /\ stack[1] = Top
    <3>1. 1 \in DOMAIN stack
      BY TopFacts DEF IInv, Scanning
    <3> QED BY <3>1 DEF TInv, Drawing, Top
  <2>3. CASE i = Len(lines) + 1
    <3>1. space[Here].to # Root /\ Bus(lines'[j].at) = space[Here].to
      BY <1>1, <1>2, <1>8, <2>3
    <3>2. j = Len(lines) + 1
      BY <1>2, <2>1, <3>1
    <3>3. Top.bus = space[Here].to
      BY <1>1, <1>2, <1>3, <3>1, <3>2
    <3> QED BY <2>1, <3>1, <3>3
  <2>4. CASE i \in DOMAIN lines /\ j = Len(lines) + 1
    <3>1. Bus(lines'[j].at) = Top.bus /\ lines'[j].nesting = Own(1) /\ lines'[i] = lines[i]
      BY <1>1, <1>2, <1>3, <2>4
    <3> QED BY <1>8, <2>2, <2>4, <3>1 DEF NestingsRight
  <2>5. CASE i \in DOMAIN lines /\ j \in DOMAIN lines
    <3>1. lines'[j] = lines[j] /\ lines'[i] = lines[i]
      BY <1>2, <2>5
    <3> QED BY <1>8, <2>2, <2>5, <3>1 DEF NestingsRight
  <2> QED BY <1>2, <2>3, <2>4, <2>5
<1>9. tool = "pcireg" => Repeats'
  BY <1>8 DEF Repeats, Bus, Behind
<1> QED BY <1>7, <1>9

LEMMA DeviceTree == IInv /\ TInv /\ Device => TInv'
<1> SUFFICES ASSUME IInv, TInv, Device PROVE TInv'
  OBVIOUS
<1> DEFINE next == After(Top, space[Here])
<1>1. /\ Scanning /\ Found /\ ~Top.counts /\ stack # <<>>
      /\ Here \in DOMAIN space /\ space[Here].to = Root
      /\ stack' = [stack EXCEPT ![1] = next]
      /\ lines' = Append(lines, Line) /\ UNCHANGED <<tool, space, nesting_buf>>
  BY DEF Device, Scanning, Found, Top
<1>2. Shape /\ Top \in AnyCall /\ Placed(Top) /\ Top.dev < DeviceCount
      /\ (tool = "pcireg" => Counts(Top))
  BY <1>1, TopIsPlaced
<1>3. Careful(Top, next) /\ next \in AnyCall
  BY <1>1, <1>2, AfterCareful, AfterGoesOn DEF Here, GoesOn
<1>4. next.ret = Top.ret
  BY <1>2 DEF After, NextDevice, NextFunction, AnyCall
<1> HIDE DEF next
<1>5. TopMoves(next) /\ Placed(next)
  BY <1>1, <1>3 DEF TopMoves, Careful
<1>6. tool = "pcireg" => Counts(next)
  BY <1>1, <1>2, <1>3, <1>4, SameCount DEF Careful
<1>7. Stacked' /\ Cuts' /\ Told' /\ \A k : Own(k)' = Own(k)
  BY <1>5, <1>6, TopMovesStacked, TopMovesCuts, TopMovesTold DEF TInv
<1>8. LastsRight' /\ (tool = "pcireg" => Repeats')
  BY <1>1, ReportsTree
<1>9. /\ Len(lines) + 1 \in DOMAIN lines' /\ lines'[Len(lines) + 1] = Line
      /\ \A j \in DOMAIN lines : j \in DOMAIN lines' /\ lines'[j] = lines[j]
      /\ \A j \in DOMAIN lines' : j \in DOMAIN lines \/ j = Len(lines) + 1
  BY <1>1, LinesGrow
<1>10. /\ Drawing' = Drawing
       /\ \A k \in Drawing : stack'[k].bus = stack[k].bus
  BY <1>5, TopMovesIs DEF TInv, Drawing
<1>11. ASSUME tool = "pcireg", NEW k \in Drawing, NEW j \in DOMAIN lines'
       PROVE  /\ Bus(lines'[j].at) = stack[k].bus => lines'[j].nesting = Own(k)
              /\ stack[k].bus # Root /\ space[lines'[j].at].to = stack[k].bus =>
                   Own(k) = Behind(lines'[j])
  <2>1. CASE j \in DOMAIN lines
    BY <1>9, <1>11, <2>1 DEF TInv, NestingsRight
  <2>2. CASE j = Len(lines) + 1
    <3>1. lines'[j] = Line /\ Line.at = Here /\ Line.nesting = Own(1)
      BY <1>1, <1>9, <2>2, LineIsRight
    <3>2. Bus(Here) = Top.bus
      BY DEF Here, Bus
    <3>3. \A i \in Drawing : i # 1 => stack[i].bus < Top.bus
      BY <1>1, HereIsNew
    <3>4. Top.bus \in Nat
      BY <1>2, PciScanAssumption DEF AnyCall
    <3>5. Bus(lines'[j].at) = stack[k].bus => k = 1
      BY <3>1, <3>2, <3>3, <3>4
    <3> QED BY <1>1, <3>1, <3>5
  <2> QED BY <1>9, <2>1, <2>2
<1>12. NestingsRight'
  BY <1>1, <1>7, <1>8, <1>10, <1>11 DEF NestingsRight, Repeats, Bus, Behind
<1> QED BY <1>7, <1>8, <1>12 DEF TInv

(* A prefix of a prefix is a prefix.                                       *)
LEMMA PrefixOfPrefix ==
  ASSUME NEW s \in Seq(BOOLEAN), NEW m \in Nat, NEW n \in Nat, m <= n, n <= Len(s)
  PROVE  /\ SubSeq(s, 1, n) \in Seq(BOOLEAN) /\ Len(SubSeq(s, 1, n)) = n
         /\ SubSeq(SubSeq(s, 1, n), 1, m) = SubSeq(s, 1, m)
<1>1. Len(s) \in Nat /\ DOMAIN s = 1 .. Len(s) /\ \A i \in 1 .. Len(s) : s[i] \in BOOLEAN
  OBVIOUS
<1>2. SubSeq(s, 1, n) = [i \in 1 .. n |-> s[i]]
  BY <1>1
<1> DEFINE t == [i \in 1 .. n |-> s[i]]
<1>3. \A i \in 1 .. n : s[i] \in BOOLEAN
  BY <1>1
<1>4. t \in Seq(BOOLEAN) /\ Len(t) = n /\ \A i \in 1 .. n : t[i] = s[i]
  BY <1>3
<1> HIDE DEF t
<1>5. SubSeq(t, 1, m) = [i \in 1 .. m |-> t[i]]
  BY <1>4
<1>6. SubSeq(s, 1, m) = [i \in 1 .. m |-> s[i]]
  BY <1>1
<1>7. \A i \in 1 .. m : t[i] = s[i]
  BY <1>4
<1> QED BY <1>2, <1>4, <1>5, <1>6, <1>7 DEF t

LEMMA Levels ==
  ASSUME IInv, Stacked, stack # <<>>
  PROVE  /\ \A k \in Inner .. Len(stack) : Level(k) \in Nat /\ Level(k) <= Level(Inner)
         /\ \A j, k \in Inner .. Len(stack) : j <= k => Level(k) <= Level(j)
<1>1. Len(stack) \in Nat /\ Inner \in {1, 2} /\ Len(stack) >= Inner
  BY StackIs
<1>2. ASSUME NEW k \in Inner .. Len(stack) PROVE Level(k) \in Nat
  BY <1>1 DEF Level
<1>3. ASSUME NEW j \in Inner .. Len(stack), NEW k \in Inner .. Len(stack), j <= k
      PROVE  Level(k) <= Level(j)
  BY <1>1, <1>3 DEF Level
<1>4. Inner \in Inner .. Len(stack) /\ \A k \in Inner .. Len(stack) : Inner <= k
  BY <1>1
<1> QED BY <1>2, <1>3, <1>4

(* When the innermost call ends the others go on as they were.             *)
LEMMA TopEndsTree ==
  ASSUME IInv, TInv, TopEnds,
         nesting_buf' \in Seq(BOOLEAN),
         stack' = <<>> => nesting_buf' = <<>>,
         stack' # <<>> => Len(nesting_buf') = Level(2),
         \A k \in 2 .. Len(stack) : Own(k) = SubSeq(nesting_buf', 1, Level(k)),
         stack' # <<>> /\ tool = "pcireg" => Counts(stack'[1])
  PROVE  TInv'
<1>1. /\ Len(stack) \in Nat /\ Len(stack) >= Inner /\ Inner \in {1, 2}
      /\ DOMAIN stack = 1 .. Len(stack) /\ Drawing = Inner .. Len(stack)
  BY StackIs DEF TopEnds, TInv
<1>2. /\ DOMAIN stack' = 1 .. Len(stack) - 1 /\ Drawing' = 1 .. Len(stack) - 1
      /\ \A k \in Drawing' : k + 1 \in Drawing
      /\ \A k \in Nat : Level(k)' = Level(k + 1)
      /\ stack' # <<>> => Inner' = 1 /\ 1 \in DOMAIN stack'
  BY TopEndsIs DEF TInv
<1>3. /\ tool' = tool /\ space' = space /\ lines' = lines
      /\ stack # <<>> /\ Len(stack') = Len(stack) - 1
      /\ \A k \in 1 .. Len(stack) - 1 :
           /\ stack'[k].bus = stack[k + 1].bus
           /\ stack'[k].counts = stack[k + 1].counts
           /\ stack'[k].dev = stack[k + 1].dev
           /\ stack'[k].func = stack[k + 1].func
           /\ stack'[k].cut = stack[k + 1].cut
      /\ \A k \in 2 .. Len(stack) - 1 : stack'[k] = stack[k + 1]
  BY DEF TopEnds
<1>4. \A k \in 1 .. Len(stack) - 1 : k \in Nat /\ k + 1 \in DOMAIN stack /\ k + 1 \in 2 .. Len(stack)
  BY <1>1
<1>5. stack' # <<>> => Len(stack) >= 2
  BY <1>1, <1>2
<1>6. Stacked'
  <2>1. tool' \in {"clib", "pcireg"}
    BY <1>3 DEF TInv, Stacked
  <2>2. \A k \in DOMAIN stack' : Placed(stack[k + 1])
    BY <1>2, <1>4 DEF TInv, Stacked
  <2>3. \A k \in DOMAIN stack' : Placed(stack[k])'
    BY <1>2, <1>3, <2>2 DEF Placed
  <2>4. \A k \in DOMAIN stack' : ~stack'[k].counts
    BY <1>2 DEF Drawing
  <2>5. ASSUME stack' # <<>>
        PROVE  /\ Len(stack') >= Inner' /\ \A k \in Inner' .. Len(stack') : ~stack'[k].counts
               /\ stack'[Len(stack')].bus = Root /\ ~Top'.counts
    <3>1. Inner' = 1 /\ 1 \in DOMAIN stack' /\ Len(stack') = Len(stack) - 1 /\ Len(stack) >= 2
      BY <1>2, <1>3, <1>5, <2>5
    <3>2. ~Top'.counts
      BY <2>4, <3>1 DEF Top
    <3>3. stack[Len(stack)].bus = Root
      BY <1>3 DEF TInv, Stacked
    <3>4. Len(stack) - 1 \in 1 .. Len(stack) - 1 /\ (Len(stack) - 1) + 1 = Len(stack)
      BY <1>1, <3>1
    <3>5. stack'[Len(stack')].bus = Root
      BY <1>3, <3>1, <3>3, <3>4
    <3>6. Len(stack') >= 1
      BY <1>1, <3>1
    <3> QED BY <1>2, <2>4, <3>1, <3>2, <3>5, <3>6
  <2> QED BY <2>1, <2>3, <2>5 DEF Stacked
<1>7. Cuts'
  <2>1. ASSUME stack' # <<>>
        PROVE  /\ Len(nesting_buf') = Level(Inner)'
               /\ \A k \in Inner' + 1 .. Len(stack') : stack'[k].cut = Level(k)'
    <3>1. Inner' = 1 /\ Len(stack') = Len(stack) - 1
      BY <1>2, <1>3, <2>1
    <3>2. Level(1)' = Level(2)
      <4>1. 1 \in Nat /\ 1 + 1 = 2
        OBVIOUS
      <4> QED BY <1>2, <4>1
    <3>3. Level(Inner)' = Level(1)'
      BY <3>1 DEF Level
    <3>4. ASSUME NEW k \in 2 .. Len(stack) - 1 PROVE stack'[k].cut = Level(k)'
      <4>1. k \in Nat /\ k \in 1 .. Len(stack) - 1 /\ k + 1 \in Inner + 1 .. Len(stack)
        BY <1>1
      <4>2. stack[k + 1].cut = Level(k + 1)
        BY <1>3, <4>1 DEF TInv, Cuts
      <4> QED BY <1>2, <1>3, <4>1, <4>2
    <3> QED BY <2>1, <3>1, <3>2, <3>3, <3>4
  <2> QED BY <2>1 DEF Cuts
<1>8. \A k \in Drawing' : Own(k)' = Own(k + 1)
  <2> SUFFICES ASSUME NEW k \in Drawing' PROVE Own(k)' = Own(k + 1)
    OBVIOUS
  <2>1. k \in Nat /\ k + 1 \in 2 .. Len(stack) /\ Level(k)' = Level(k + 1)
    BY <1>2, <1>4
  <2> QED BY <2>1 DEF Own
<1>9. Told'
  <2> SUFFICES ASSUME tool = "pcireg", NEW k \in DOMAIN stack' PROVE Counts(stack'[k])
    BY <1>3, SameMachine DEF Told
  <2>1. CASE k = 1
    BY <1>2, <2>1
  <2>2. CASE k # 1
    <3>1. k \in 1 .. Len(stack) - 1
      BY <1>2
    <3>2. k + 1 \in DOMAIN stack
      BY <1>4, <3>1
    <3>3. k \in 2 .. Len(stack) - 1 /\ k + 1 # 2
      <4>1. Len(stack) - 1 \in Int
        BY <1>1
      <4> QED BY <2>2, <3>1, <4>1
    <3>4. Counts(stack[k + 1])
      BY <3>2, <3>3 DEF TInv, Told
    <3> QED BY <1>3, <3>3, <3>4
  <2> QED BY <2>1, <2>2
<1>10. LastsRight'
  BY <1>3, SameMachine DEF TInv, LastsRight
<1>11. NestingsRight'
  <2>1. \A k \in Drawing' : k + 1 \in Drawing /\ stack'[k].bus = stack[k + 1].bus
    BY <1>2, <1>3
  <2>2. NestingsRight
    BY DEF TInv
  <2>3. ASSUME tool = "pcireg", NEW k \in Drawing', NEW j \in DOMAIN lines
        PROVE  /\ Bus(lines[j].at) = stack'[k].bus => lines[j].nesting = Own(k)'
               /\ stack'[k].bus # Root /\ space[lines[j].at].to = stack'[k].bus =>
                    Own(k)' = Behind(lines[j])
    BY <1>8, <2>1, <2>2, <2>3 DEF NestingsRight
  <2> QED BY <1>3, <2>2, <2>3 DEF NestingsRight, Bus, Behind
<1> QED BY <1>6, <1>7, <1>9, <1>10, <1>11 DEF TInv

LEMMA CountedTree == IInv /\ TInv /\ Counted => TInv'
<1> SUFFICES ASSUME IInv, TInv, Counted PROVE TInv'
  OBVIOUS
<1>1. /\ stack # <<>> /\ Top.dev = DeviceCount /\ Top.counts
      /\ stack' = [Tail(stack) EXCEPT ![1].ret = Top.ret]
      /\ UNCHANGED <<tool, space, nesting_buf, lines>>
  BY DEF Counted
<1>2. /\ Top \in AnyCall /\ stack \in Seq(AnyCall) /\ Len(stack) \in Nat
      /\ Inner = 2 /\ Len(stack) >= 2 /\ DOMAIN stack = 1 .. Len(stack) /\ Top = stack[1]
      /\ \A k \in 1 .. Len(stack) : stack[k] \in AnyCall
  <2>1. Inner = 2 /\ stack \in Seq(AnyCall)
    BY <1>1 DEF Inner, IInv, Shape
  <2> QED BY <1>1, <2>1, StackIs DEF TInv
<1> DEFINE rest == Tail(stack)
<1>3. /\ rest \in Seq(AnyCall) /\ Len(rest) = Len(stack) - 1
      /\ \A k \in 1 .. Len(rest) : rest[k] = stack[k + 1]
  BY <1>1, <1>2, HeadTailProperties
<1>4. stack' = [rest EXCEPT ![1] = [rest[1] EXCEPT !.ret = Top.ret]]
  BY <1>1
<1> HIDE DEF rest
<1>5. DOMAIN rest = 1 .. Len(stack) - 1 /\ DOMAIN stack' = DOMAIN rest
  BY <1>3, <1>4
<1>6. /\ \A k \in 2 .. Len(stack) - 1 : stack'[k] = stack[k + 1]
      /\ stack'[1] = [stack[2] EXCEPT !.ret = Top.ret]
  <2>1. 1 \in DOMAIN rest /\ 1 \in 1 .. Len(rest)
    BY <1>2, <1>3, <1>5
  <2>2. rest[1] = stack[1 + 1]
    BY <1>3, <2>1
  <2>3. stack'[1] = [stack[2] EXCEPT !.ret = Top.ret]
    BY <1>4, <2>1, <2>2
  <2> QED BY <1>2, <1>3, <1>4, <1>5, <2>3
<1>7. stack[2] \in AnyCall /\ Top.ret \in Nat \X Nat
  <2>1. 2 \in 1 .. Len(stack)
    BY <1>2
  <2> QED BY <1>2, <2>1 DEF AnyCall
<1>8. /\ stack'[1] \in AnyCall /\ stack'[1].ret = Top.ret
      /\ stack'[1].bus = stack[2].bus /\ stack'[1].counts = stack[2].counts
      /\ stack'[1].dev = stack[2].dev /\ stack'[1].func = stack[2].func
      /\ stack'[1].cut = stack[2].cut
  BY <1>6, <1>7 DEF AnyCall
<1>9. \A k \in 1 .. Len(stack) - 1 : k # 1 => k \in 2 .. Len(stack) - 1
  BY <1>2
<1>10. TopEnds
  <2>1. stack' \in Seq(AnyCall) /\ Len(stack') = Len(stack) - 1
    BY <1>1, CountedPops DEF Popped
  <2>2. ASSUME NEW k \in 1 .. Len(stack) - 1
        PROVE  /\ stack'[k].bus = stack[k + 1].bus
               /\ stack'[k].counts = stack[k + 1].counts
               /\ stack'[k].dev = stack[k + 1].dev
               /\ stack'[k].func = stack[k + 1].func
               /\ stack'[k].cut = stack[k + 1].cut
    <3>1. CASE k = 1
      <4>1. k + 1 = 2
        BY <3>1
      <4> QED BY <1>8, <3>1, <4>1
    <3>2. CASE k # 1
      BY <1>6, <1>9, <3>2
    <3> QED BY <3>1, <3>2
  <2> QED BY <1>1, <1>6, <2>1, <2>2 DEF TopEnds
<1>11. /\ nesting_buf' \in Seq(BOOLEAN) /\ Len(nesting_buf') = Level(2)
       /\ stack' # <<>>
       /\ \A k \in 2 .. Len(stack) : Own(k) = SubSeq(nesting_buf', 1, Level(k))
  <2>1. Len(nesting_buf) = Level(2) /\ nesting_buf \in Seq(BOOLEAN)
    BY <1>1, <1>2 DEF TInv, Cuts
  <2>2. 1 \in DOMAIN stack'
    BY <1>2, <1>5
  <2>3. stack' # <<>>
    BY <2>2
  <2> QED BY <1>1, <2>1, <2>3 DEF Own
<1>12. ASSUME tool = "pcireg" PROVE Counts(stack'[1])
  <2>1. Counts(Top)
    <3>1. 1 \in DOMAIN stack
      BY <1>2
    <3> QED BY <1>2, <1>12, <3>1 DEF TInv, Told
  <2>2. stack'[1].bus = Top.bus /\ ~stack'[1].counts /\ stack'[1].ret = Top.ret
    <3>1. 2 \in Inner .. Len(stack)
      BY <1>2
    <3>2. stack[2].bus = Top.bus /\ ~stack[2].counts
      BY <1>1, <3>1 DEF TInv, Stacked
    <3> QED BY <1>8, <3>2
  <2>3. \A l \in DOMAIN space : Passed(l, Top)
    <3>1. \A l \in DOMAIN space : Dev(l) \in 0 .. DeviceCount - 1
      BY LocationParts, PciScanAssumption DEF IInv, Shape
    <3> QED BY <1>1, <3>1, PciScanAssumption DEF Passed
  <2>4. Ends(Top.bus, Top.ret[1], Top.ret[2])
    BY <1>1, <2>1, <2>3 DEF Counts, Ends
  <2> QED BY <2>1, <2>2, <2>4 DEF Counts
<1> QED BY <1>10, <1>11, <1>12, TopEndsTree

LEMMA ReturnTree == IInv /\ TInv /\ Return => TInv'
<1> SUFFICES ASSUME IInv, TInv, Return PROVE TInv'
  OBVIOUS
<1>1. /\ stack # <<>> /\ ~Top.counts /\ stack' = Tail(stack)
      /\ nesting_buf' = IF stack' = <<>> THEN nesting_buf
                                         ELSE SubSeq(nesting_buf, 1, stack'[1].cut)
      /\ UNCHANGED <<tool, space, lines>>
  BY DEF Return
<1>2. /\ stack \in Seq(AnyCall) /\ Len(stack) \in Nat
      /\ Inner = 1 /\ Len(stack) >= 1 /\ DOMAIN stack = 1 .. Len(stack)
  <2>1. Inner = 1 /\ stack \in Seq(AnyCall)
    BY <1>1 DEF Inner, IInv, Shape
  <2> QED BY <1>1, <2>1, StackIs DEF TInv
<1>3. /\ stack' \in Seq(AnyCall) /\ Len(stack') = Len(stack) - 1
      /\ \A k \in 1 .. Len(stack) - 1 : stack'[k] = stack[k + 1]
  BY <1>1, <1>2, HeadTailProperties
<1>4. TopEnds
  <2>1. \A k \in 2 .. Len(stack) - 1 : k \in 1 .. Len(stack) - 1
    BY <1>2
  <2> QED BY <1>1, <1>3, <2>1 DEF TopEnds
<1>5. nesting_buf \in Seq(BOOLEAN) /\ Len(nesting_buf) = Level(1)
  BY <1>1, <1>2 DEF TInv, Cuts
<1>6. CASE stack' = <<>>
  <2>1. Len(stack) = 1
    <3>1. Len(stack') = 0
      BY <1>6
    <3>2. Len(stack') = Len(stack) - 1 /\ Len(stack) \in Nat
      BY <1>2, <1>3
    <3> QED BY <3>1, <3>2
  <2>2. Level(1) = 0
    <3>1. ~(Len(stack) - 1 > 1)
      BY <2>1
    <3> QED BY <3>1 DEF Level
  <2>3. nesting_buf = <<>>
    BY <1>5, <2>2
  <2>4. \A k \in 2 .. Len(stack) : FALSE
    BY <2>1
  <2> QED BY <1>1, <1>4, <1>5, <1>6, <2>3, <2>4, TopEndsTree
<1>7. CASE stack' # <<>>
  <2>1. Len(stack) >= 2 /\ 1 \in 1 .. Len(stack) - 1
    <3>1. Len(stack') # 0
      BY <1>3, <1>7
    <3> QED BY <1>2, <1>3, <3>1
  <2>2. stack'[1] = stack[2] /\ stack[2].cut = Level(2)
    <3>1. stack'[1] = stack[1 + 1]
      BY <1>3, <2>1
    <3>2. 2 \in Inner + 1 .. Len(stack)
      BY <1>2, <2>1
    <3> QED BY <1>1, <3>1, <3>2 DEF TInv, Cuts
  <2>3. nesting_buf' = SubSeq(nesting_buf, 1, Level(2))
    BY <1>1, <1>7, <2>2
  <2>4. \A k \in 2 .. Len(stack) : /\ k \in Inner .. Len(stack)
                                   /\ Level(k) \in Nat /\ Level(k) <= Level(2)
    <3>1. 2 \in Inner .. Len(stack) /\ \A k \in 2 .. Len(stack) : k \in Inner .. Len(stack) /\ 2 <= k
      BY <1>2, <2>1
    <3> QED BY <1>1, <3>1, Levels DEF TInv
  <2>5. Level(2) \in Nat /\ Level(2) <= Len(nesting_buf)
    <3>1. 2 \in Inner .. Len(stack)
      BY <1>2, <2>1
    <3>2. Level(2) \in Nat /\ Level(2) <= Level(Inner)
      BY <1>1, <3>1, Levels DEF TInv
    <3>3. Level(Inner) = Level(1)
      BY <1>2
    <3> QED BY <1>5, <3>2, <3>3
  <2>6. nesting_buf' \in Seq(BOOLEAN) /\ Len(nesting_buf') = Level(2)
    BY <1>5, <2>3, <2>5, PrefixOfPrefix
  <2>7. ASSUME NEW k \in 2 .. Len(stack)
        PROVE  Own(k) = SubSeq(nesting_buf', 1, Level(k))
    BY <1>5, <2>3, <2>4, <2>5, PrefixOfPrefix DEF Own
  <2>8. tool = "pcireg" => Counts(stack'[1])
    <3>1. 2 \in DOMAIN stack
      BY <1>2, <2>1
    <3> QED BY <1>1, <2>2, <3>1 DEF TInv, Told
  <2> QED BY <1>4, <1>7, <2>6, <2>7, <2>8, TopEndsTree
<1> QED BY <1>6, <1>7

(* A call that has just entered a bus.                                     *)
LEMMA EnteredBus ==
  ASSUME NEW bus \in Buses
  PROVE  /\ Scan(bus) \in AnyCall /\ Placed(Scan(bus))
         /\ Counting(bus) \in AnyCall /\ Placed(Counting(bus))
         /\ Scan(bus).bus = bus /\ Counting(bus).bus = bus
         /\ ~Scan(bus).counts /\ Counting(bus).counts
         /\ Shape => Counts(Counting(bus))
<1>1. Scan(bus) \in AnyCall /\ Counting(bus) \in AnyCall
  BY DEF Scan, Counting, AnyCall
<1>2. /\ Scan(bus).bus = bus /\ Scan(bus).dev = 0 /\ Scan(bus).func = 0
      /\ ~Scan(bus).counts
  BY DEF Scan
<1>3. /\ Counting(bus).bus = bus /\ Counting(bus).dev = 0 /\ Counting(bus).func = 0
      /\ Counting(bus).counts /\ Counting(bus).ret = <<0, 0>>
  BY DEF Scan, Counting
<1>4. Placed(Scan(bus)) /\ Placed(Counting(bus))
  BY <1>2, <1>3, PciScanAssumption DEF Placed
<1>5. ASSUME Shape PROVE Counts(Counting(bus))
  <2>1. \A l \in DOMAIN space : Dev(l) \in Nat /\ Func(l) \in Nat
    BY <1>5, LocationParts, PciScanAssumption DEF Shape
  <2>2. \A l \in DOMAIN space : ~Passed(l, Counting(bus))
    BY <1>3, <2>1 DEF Passed
  <2> QED BY <1>3, <2>2 DEF Counts
<1> QED BY <1>1, <1>2, <1>3, <1>4, <1>5

LEMMA InitTree == Init => TInv
<1> SUFFICES ASSUME Init PROVE TInv
  OBVIOUS
<1>1. Root \in Buses /\ <<>> \in Seq(AnyCall) /\ Len(<<>>) = 0
  BY PciScanAssumption
<1>2. IInv /\ Shape
  BY InitIInv DEF IInv
<1>3. PICK e \in {1, 2} :
        /\ stack \in Seq(AnyCall) /\ Len(stack) = e
        /\ stack[e] = Scan(Root)
        /\ e = 2 => stack[1] = Counting(Root)
        /\ e = 2 <=> tool = "pcireg"
  <2>1. stack = Enter(Root, <<>>)
    BY DEF Init
  <2>2. PICK e \in {1, 2} :
          /\ Len(Enter(Root, <<>>)) = Len(<<>>) + e
          /\ Enter(Root, <<>>)[e] = Scan(Root)
          /\ e = 2 => Enter(Root, <<>>)[1] = Counting(Root)
          /\ e = 2 <=> tool = "pcireg"
    BY <1>1, EnterAdds
  <2>3. Enter(Root, <<>>) \in Seq(AnyCall)
    BY <1>1, EnterAdds
  <2>4. Len(<<>>) + e = e
    BY <1>1
  <2>5. /\ Len(stack) = e /\ stack[e] = Scan(Root)
        /\ (e = 2 => stack[1] = Counting(Root)) /\ (e = 2 <=> tool = "pcireg")
    BY <2>1, <2>2, <2>4
  <2>6. stack \in Seq(AnyCall)
    BY <2>1, <2>3
  <2> QED BY <2>5, <2>6
<1>4. /\ DOMAIN stack = 1 .. e /\ e \in 1 .. e
      /\ \A k \in 1 .. e : k = e \/ (k = 1 /\ e = 2)
  BY <1>3
<1>5. stack # <<>> /\ nesting_buf = <<>> /\ lines = <<>> /\ tool \in {"clib", "pcireg"}
  <2>1. e \in DOMAIN stack
    BY <1>4
  <2>2. stack # <<>>
    BY <2>1
  <2> QED BY <2>2 DEF Init
<1>6. /\ Placed(Scan(Root)) /\ Placed(Counting(Root)) /\ Counts(Counting(Root))
      /\ Scan(Root).bus = Root /\ Counting(Root).bus = Root
      /\ ~Scan(Root).counts /\ Counting(Root).counts
  BY <1>1, <1>2, EnteredBus
<1>7. Inner = e
  <2>1. CASE e = 1
    <3>1. ~Top.counts
      BY <1>3, <1>6, <2>1 DEF Top
    <3> QED BY <2>1, <3>1 DEF Inner
  <2>2. CASE e = 2
    <3>1. Top.counts
      BY <1>3, <1>6, <2>2 DEF Top
    <3> QED BY <2>2, <3>1 DEF Inner
  <2> QED BY <2>1, <2>2
<1>8. \A k \in DOMAIN stack : Placed(stack[k])
  BY <1>3, <1>4, <1>6
<1>9. Stacked
  <2>1. \A k \in Inner .. Len(stack) : ~stack[k].counts
    BY <1>3, <1>6, <1>7
  <2>2. Len(stack) >= Inner /\ stack[Len(stack)].bus = Root
    BY <1>3, <1>6, <1>7
  <2>3. Top.counts => tool = "pcireg" /\ stack[2].bus = Top.bus
    <3> SUFFICES ASSUME Top.counts PROVE tool = "pcireg" /\ stack[2].bus = Top.bus
      OBVIOUS
    <3>1. e = 2
      BY <1>7 DEF Inner
    <3> QED BY <1>3, <1>6, <3>1 DEF Top
  <2> QED BY <1>5, <1>8, <2>1, <2>2, <2>3 DEF Stacked
<1>10. Cuts
  <2>1. Level(e) = 0
    <3>1. ~(Len(stack) - e > 1)
      BY <1>3
    <3> QED BY <3>1 DEF Level
  <2>2. nesting_buf \in Seq(BOOLEAN) /\ Len(nesting_buf) = 0
    BY <1>5
  <2>3. \A k \in e + 1 .. Len(stack) : FALSE
    BY <1>3
  <2> QED BY <1>5, <1>7, <2>1, <2>2, <2>3 DEF Cuts
<1>11. Told
  <2> SUFFICES ASSUME tool = "pcireg", NEW k \in DOMAIN stack, ~(k = 2 /\ Top.counts)
               PROVE  Counts(stack[k])
    BY DEF Told
  <2>1. e = 2 /\ stack[1] = Counting(Root)
    BY <1>3
  <2>2. Top.counts
    BY <1>6, <2>1 DEF Top
  <2>3. k = 1
    BY <1>4, <2>1, <2>2
  <2> QED BY <1>6, <2>1, <2>3
<1>12. LastsRight /\ NestingsRight
  <2>1. \A j \in DOMAIN lines : FALSE
    BY <1>5
  <2> QED BY <2>1 DEF LastsRight, NestingsRight
<1> QED BY <1>9, <1>10, <1>11, <1>12 DEF TInv

(* A line above others is taken into nesting_buf.                          *)
LEMMA NestingCounts ==
  ASSUME IInv, Stacked, stack # <<>>, ~Top.counts
  PROVE  Nesting > 0 <=> Len(stack) > 1
<1>1. Len(stack) \in Nat /\ Drawing = 1 .. Len(stack)
  BY StackIs DEF Inner
<1>2. IsFiniteSet(1 .. Len(stack)) /\ Cardinality(1 .. Len(stack)) = Len(stack)
  <2>1. 1 \in Int /\ Len(stack) \in Int
    BY <1>1
  <2>2. Cardinality(1 .. Len(stack)) = IF 1 > Len(stack) THEN 0 ELSE Len(stack) - 1 + 1
    BY <2>1, FS_Interval
  <2> QED BY <1>1, <2>1, <2>2, FS_Interval
<1>3. Nesting = Len(stack) - 1
  BY <1>1, <1>2 DEF Nesting, Drawing
<1> QED BY <1>1, <1>3

(* The innermost call of several is not on the root bus.                   *)
LEMMA RootIsOutermost ==
  ASSUME IInv, Stacked, stack # <<>>, ~Top.counts
  PROVE  Top.bus = Root <=> Len(stack) = 1
<1>1. /\ Len(stack) \in Nat /\ Len(stack) >= 1 /\ Drawing = 1 .. Len(stack) /\ Top = stack[1]
      /\ stack[Len(stack)].bus = Root
  BY StackIs DEF Inner, Stacked
<1>2. CASE Len(stack) = 1
  BY <1>1, <1>2
<1>3. CASE Len(stack) # 1
  <2>1. 1 \in Drawing /\ Len(stack) \in Drawing /\ 1 < Len(stack)
    <3>1. 1 < Len(stack) /\ 1 \in 1 .. Len(stack) /\ Len(stack) \in 1 .. Len(stack)
      <4>1. Len(stack) \in Nat /\ Len(stack) >= 1
        BY <1>1
      <4>2. \A n \in Nat : n >= 1 /\ n # 1 => 1 < n
        OBVIOUS
      <4>3. 1 \in 1 .. Len(stack)
        BY <4>1
      <4>4. Len(stack) \in 1 .. Len(stack)
        BY <4>1
      <4> QED BY <1>3, <4>1, <4>2, <4>3, <4>4
    <3>2. Drawing = 1 .. Len(stack)
      BY <1>1
    <3> QED BY <3>1, <3>2
  <2>2. Top.bus > Root
    BY <1>1, <2>1 DEF IInv, CallsDescend
  <2>3. Top.bus # Root
    BY <2>2 DEF Root
  <2> QED BY <1>3, <2>3
<1> QED BY <1>2, <1>3

(* The stack and nesting_buf when a bridge has been met.                   *)
Pushed(e) ==
  /\ e \in {1, 2} /\ (e = 2 <=> tool = "pcireg")
  /\ stack' \in Seq(AnyCall) /\ Len(stack') = Len(stack) + e
  /\ \A k \in 1 .. Len(stack) : stack'[k + e] = IF k = 1 THEN BehindBridge ELSE stack[k]
  /\ stack'[e] = Scan(space[Here].to)
  /\ e = 2 => stack'[1] = Counting(space[Here].to)
  /\ nesting_buf' = IF tool = "pcireg" /\ Nesting > 0
                     THEN Append(nesting_buf, IsLast) ELSE nesting_buf

LEMMA BridgeFacts ==
  ASSUME IInv, TInv, Bridge
  PROVE  /\ Scanning /\ Found /\ ~Top.counts /\ stack # <<>> /\ Here \in DOMAIN space
         /\ space[Here].to \in Buses /\ space[Here].to # Root
         /\ lines' = Append(lines, Line) /\ UNCHANGED <<tool, space>>
         /\ \E e : Pushed(e)
         /\ Placed(BehindBridge) /\ BehindBridge.bus = Top.bus /\ ~BehindBridge.counts
         /\ BehindBridge.ret = Top.ret /\ BehindBridge.cut = Len(nesting_buf)
<1>1. /\ Scanning /\ Found /\ ~Top.counts /\ stack # <<>> /\ Here \in DOMAIN space
      /\ space[Here].to # Root
      /\ lines' = Append(lines, Line) /\ UNCHANGED <<tool, space>>
      /\ nesting_buf' = IF tool = "pcireg" /\ Nesting > 0
                         THEN Append(nesting_buf, IsLast) ELSE nesting_buf
  BY DEF Bridge, Scanning, Found
<1>2. space[Here].to \in Buses
  BY <1>1, PciScanAssumption DEF IInv, Shape, Headers
<1>3. \E e : Pushed(e)
  <2>1. stack' \in Seq(AnyCall)
    BY BridgePushes
  <2>2. PICK e \in {1, 2} :
              /\ Len(stack') = Len(stack) + e
              /\ \A k \in 1 .. Len(stack) :
                   stack'[k + e] = IF k = 1 THEN BehindBridge ELSE stack[k]
              /\ stack'[e] = Scan(space[Here].to) /\ space[Here].to # Root
              /\ \A k \in 1 .. e : k = e \/ stack'[k].counts
              /\ e = 2 => stack'[1] = Counting(space[Here].to)
              /\ e = 2 <=> tool = "pcireg"
    BY BridgePushes
  <2> QED BY <1>1, <2>1, <2>2 DEF Pushed
<1>4. Shape /\ Top \in AnyCall /\ Placed(Top) /\ Top.dev < DeviceCount
  BY <1>1, TopIsPlaced
<1> DEFINE on == After(Top, space[Here])
<1>5. Careful(Top, on) /\ on \in AnyCall
  BY <1>1, <1>4, AfterCareful, AfterGoesOn DEF Here, GoesOn
<1>6. on.ret = Top.ret
  BY <1>4 DEF After, NextDevice, NextFunction, AnyCall
<1>7. BehindBridge = [on EXCEPT !.cut = Len(nesting_buf)] /\ Len(nesting_buf) \in Nat
  BY DEF BehindBridge, TInv, Cuts
<1> HIDE DEF on
<1>8. /\ BehindBridge.bus = on.bus /\ BehindBridge.counts = on.counts
      /\ BehindBridge.dev = on.dev /\ BehindBridge.func = on.func
      /\ BehindBridge.ret = on.ret /\ BehindBridge.cut = Len(nesting_buf)
  BY <1>5, <1>7 DEF AnyCall
<1>9. Placed(BehindBridge) /\ BehindBridge.bus = Top.bus /\ ~BehindBridge.counts
  BY <1>1, <1>5, <1>8 DEF Careful, Placed
<1> QED BY <1>1, <1>2, <1>3, <1>6, <1>8, <1>9

(* The calls in progress when the bus behind a bridge has been entered.    *)
LEMMA BridgeStack ==
  ASSUME IInv, TInv, Bridge, NEW e, Pushed(e)
  PROVE  /\ Len(stack) \in Nat /\ Len(stack) >= 1 /\ Inner = 1 /\ Top = stack[1]
         /\ DOMAIN stack = 1 .. Len(stack) /\ Drawing = 1 .. Len(stack)
         /\ DOMAIN stack' = 1 .. Len(stack) + e /\ Len(stack') = Len(stack) + e
         /\ Inner' = e /\ (Top'.counts <=> e = 2) /\ stack' # <<>>
         /\ \A k \in 1 .. Len(stack) + e :
              \/ k = e /\ stack'[k] = Scan(space[Here].to)
              \/ k = 1 /\ e = 2 /\ stack'[k] = Counting(space[Here].to)
              \/ k - e = 1 /\ k > e /\ stack'[k] = BehindBridge
              \/ k - e \in 2 .. Len(stack) /\ k > e /\ stack'[k] = stack[k - e]
         /\ Drawing' = e .. Len(stack) + e
         /\ \A k \in Drawing' : k = e \/ k - e \in 1 .. Len(stack)
         /\ stack'[e].bus = space[Here].to
         /\ \A k \in 1 .. Len(stack) : stack'[k + e].bus = stack[k].bus
<1> DEFINE to == space[Here].to
<1>1. /\ ~Top.counts /\ stack # <<>> /\ to \in Buses
      /\ BehindBridge.bus = Top.bus /\ ~BehindBridge.counts
  BY BridgeFacts
<1>2. /\ Scan(to).bus = to /\ Counting(to).bus = to
      /\ ~Scan(to).counts /\ Counting(to).counts
  BY <1>1, EnteredBus
<1>3. /\ e \in {1, 2}
      /\ stack' \in Seq(AnyCall) /\ Len(stack') = Len(stack) + e
      /\ \A k \in 1 .. Len(stack) : stack'[k + e] = IF k = 1 THEN BehindBridge ELSE stack[k]
      /\ stack'[e] = Scan(to)
      /\ e = 2 => stack'[1] = Counting(to)
  BY DEF Pushed
<1> HIDE DEF to
<1>4. Inner = 1
  BY <1>1 DEF Inner
<1>5. /\ Len(stack) \in Nat /\ Len(stack) >= 1 /\ Top = stack[1]
      /\ DOMAIN stack = 1 .. Len(stack) /\ Drawing = 1 .. Len(stack)
  BY <1>1, <1>4, StackIs DEF TInv
<1>6. DOMAIN stack' = 1 .. Len(stack) + e
  BY <1>3, <1>5
<1>7. stack' # <<>>
  <2>1. e \in DOMAIN stack'
    <3>1. e \in 1 .. Len(stack) + e
      BY <1>3, <1>5
    <3> QED BY <1>6, <3>1
  <2> QED BY <2>1
<1>8. Top'.counts <=> e = 2
  <2>1. CASE e = 1
    BY <1>2, <1>3, <2>1 DEF Top
  <2>2. CASE e = 2
    BY <1>2, <1>3, <2>2 DEF Top
  <2> QED BY <1>3, <2>1, <2>2
<1>9. Inner' = e
  BY <1>3, <1>8 DEF Inner
<1>10. ASSUME NEW k \in 1 .. Len(stack) + e
       PROVE  \/ k = e /\ stack'[k] = Scan(to)
              \/ k = 1 /\ e = 2 /\ stack'[k] = Counting(to)
              \/ k - e = 1 /\ k > e /\ stack'[k] = BehindBridge
              \/ k - e \in 2 .. Len(stack) /\ k > e /\ stack'[k] = stack[k - e]
  <2>1. CASE k = e
    BY <1>3, <2>1
  <2>2. CASE k < e
    <3>1. k = 1 /\ e = 2
      BY <1>3, <1>5, <2>2
    <3> QED BY <1>3, <3>1
  <2>3. CASE k > e
    <3>1. k - e \in 1 .. Len(stack) /\ (k - e) + e = k
      BY <1>3, <1>5, <2>3
    <3>2. stack'[k] = IF k - e = 1 THEN BehindBridge ELSE stack[k - e]
      BY <1>3, <3>1
    <3>3. k - e = 1 \/ k - e \in 2 .. Len(stack)
      BY <1>5, <3>1
    <3> QED BY <2>3, <3>2, <3>3
  <2> QED BY <1>3, <1>5, <2>1, <2>2, <2>3
<1>11. \A k \in 1 .. Len(stack) : ~stack[k].counts
  BY <1>5 DEF Drawing
<1>12. \A k \in 1 .. Len(stack) + e : ~stack'[k].counts <=> k >= e
  <2> SUFFICES ASSUME NEW k \in 1 .. Len(stack) + e PROVE ~stack'[k].counts <=> k >= e
    OBVIOUS
  <2>1. CASE k = e /\ stack'[k] = Scan(to)
    BY <1>2, <1>3, <2>1
  <2>2. CASE k = 1 /\ e = 2 /\ stack'[k] = Counting(to)
    BY <1>2, <2>2
  <2>3. CASE k - e = 1 /\ k > e /\ stack'[k] = BehindBridge
    BY <1>1, <1>3, <2>3
  <2>4. CASE k - e \in 2 .. Len(stack) /\ k > e /\ stack'[k] = stack[k - e]
    <3>1. k - e \in 1 .. Len(stack) /\ k >= e
      BY <1>3, <2>4
    <3> QED BY <1>11, <2>4, <3>1
  <2> QED BY <1>10, <2>1, <2>2, <2>3, <2>4
<1>13. Drawing' = e .. Len(stack) + e
  <2>1. Drawing' = {k \in 1 .. Len(stack) + e : ~stack'[k].counts}
    BY <1>6 DEF Drawing
  <2>2. \A k : k \in e .. Len(stack) + e <=> k \in 1 .. Len(stack) + e /\ k >= e
    BY <1>3, <1>5
  <2> QED BY <1>12, <2>1, <2>2
<1>14. \A k \in Drawing' : k = e \/ k - e \in 1 .. Len(stack)
  BY <1>3, <1>5, <1>13
<1>15. stack'[e].bus = to /\ \A k \in 1 .. Len(stack) : stack'[k + e].bus = stack[k].bus
  BY <1>1, <1>2, <1>3, <1>5
<1>16. Len(stack') = Len(stack) + e
  BY <1>3
<1> QED BY <1>4, <1>5, <1>6, <1>7, <1>8, <1>9, <1>10, <1>13, <1>14, <1>15, <1>16 DEF to

LEMMA BridgeStacked ==
  ASSUME IInv, TInv, Bridge, NEW e, Pushed(e)
  PROVE  Stacked'
<1> DEFINE to == space[Here].to
<1>1. /\ Len(stack) \in Nat /\ Len(stack) >= 1 /\ Top = stack[1]
      /\ DOMAIN stack = 1 .. Len(stack)
      /\ DOMAIN stack' = 1 .. Len(stack) + e /\ Len(stack') = Len(stack) + e
      /\ Inner' = e /\ (Top'.counts <=> e = 2)
      /\ \A k \in 1 .. Len(stack) + e :
           \/ k = e /\ stack'[k] = Scan(to)
           \/ k = 1 /\ e = 2 /\ stack'[k] = Counting(to)
           \/ k - e = 1 /\ k > e /\ stack'[k] = BehindBridge
           \/ k - e \in 2 .. Len(stack) /\ k > e /\ stack'[k] = stack[k - e]
      /\ Drawing' = e .. Len(stack) + e
      /\ stack'[e].bus = to
      /\ \A k \in 1 .. Len(stack) : stack'[k + e].bus = stack[k].bus
  BY BridgeStack
<1>2. /\ to \in Buses /\ UNCHANGED <<tool, space>> /\ Placed(BehindBridge) /\ stack # <<>>
  BY BridgeFacts
<1>3. /\ Placed(Scan(to)) /\ Placed(Counting(to)) /\ Counting(to).bus = to
  BY <1>2, EnteredBus
<1>4. e \in {1, 2} /\ (e = 2 <=> tool = "pcireg") /\ (e = 2 => stack'[1] = Counting(to))
  BY DEF Pushed
<1> HIDE DEF to
<1>5. \A k \in DOMAIN stack' : Placed(stack'[k])
  <2>1. \A k \in 2 .. Len(stack) : Placed(stack[k])
    BY <1>1 DEF TInv, Stacked
  <2> QED BY <1>1, <1>2, <1>3, <2>1
<1>6. \A k \in DOMAIN stack' : Placed(stack[k])'
  BY <1>2, <1>5 DEF Placed
<1>7. \A k \in Inner' .. Len(stack') : ~stack'[k].counts
  BY <1>1 DEF Drawing
<1>8. Len(stack') >= Inner'
  BY <1>1, <1>4
<1>9. stack'[Len(stack')].bus = Root
  <2>1. Len(stack) \in 1 .. Len(stack)
    BY <1>1
  <2> QED BY <1>1, <1>2, <2>1 DEF TInv, Stacked
<1>10. Top'.counts => tool' = "pcireg" /\ stack'[2].bus = Top'.bus
  <2> SUFFICES ASSUME Top'.counts PROVE tool' = "pcireg" /\ stack'[2].bus = Top'.bus
    OBVIOUS
  <2>1. e = 2
    BY <1>1
  <2> QED BY <1>1, <1>2, <1>3, <1>4, <2>1 DEF Top
<1>11. tool' \in {"clib", "pcireg"}
  BY <1>2 DEF TInv, Stacked
<1> QED BY <1>6, <1>7, <1>8, <1>9, <1>10, <1>11 DEF Stacked

LEMMA AppendKeepsPrefixes ==
  ASSUME NEW s \in Seq(BOOLEAN), NEW b \in BOOLEAN, NEW m \in Nat, m <= Len(s)
  PROVE  SubSeq(Append(s, b), 1, m) = SubSeq(s, 1, m)
<1> DEFINE t == Append(s, b)
<1>1. t \in Seq(BOOLEAN) /\ Len(t) = Len(s) + 1 /\ \A i \in 1 .. Len(s) : t[i] = s[i]
  BY AppendProperties
<1> HIDE DEF t
<1>2. SubSeq(t, 1, m) = [i \in 1 .. m |-> t[i]] /\ SubSeq(s, 1, m) = [i \in 1 .. m |-> s[i]]
  BY <1>1
<1>3. \A i \in 1 .. m : t[i] = s[i]
  BY <1>1
<1> QED BY <1>2, <1>3 DEF t

LEMMA BridgeCuts ==
  ASSUME IInv, TInv, Bridge, NEW e, Pushed(e)
  PROVE  /\ Cuts'
         /\ \A k \in 1 .. Len(stack) : Own(k + e)' = Own(k)
         /\ tool = "pcireg" => Own(e)' = Behind(Line)
<1>1. /\ Len(stack) \in Nat /\ Len(stack) >= 1 /\ Inner = 1
      /\ Len(stack') = Len(stack) + e /\ Inner' = e /\ stack' # <<>>
      /\ \A k \in 1 .. Len(stack) + e :
           \/ k = e /\ stack'[k] = Scan(space[Here].to)
           \/ k = 1 /\ e = 2 /\ stack'[k] = Counting(space[Here].to)
           \/ k - e = 1 /\ k > e /\ stack'[k] = BehindBridge
           \/ k - e \in 2 .. Len(stack) /\ k > e /\ stack'[k] = stack[k - e]
  BY BridgeStack
<1>2. /\ stack # <<>> /\ ~Top.counts /\ tool' = tool
      /\ BehindBridge.cut = Len(nesting_buf) /\ e \in {1, 2}
      /\ nesting_buf' = IF tool = "pcireg" /\ Nesting > 0
                         THEN Append(nesting_buf, IsLast) ELSE nesting_buf
  BY BridgeFacts DEF Pushed
<1>3. /\ nesting_buf \in Seq(BOOLEAN) /\ Len(nesting_buf) = Level(1)
      /\ \A k \in 2 .. Len(stack) : stack[k].cut = Level(k)
      /\ IsLast \in BOOLEAN
  BY <1>1, <1>2 DEF TInv, Cuts, IsLast
<1>4. Nesting > 0 <=> Len(stack) > 1
  BY <1>2, NestingCounts DEF TInv
<1>5. ASSUME NEW k \in Int PROVE Level(k + e)' = Level(k)
  <2>1. Len(stack') - (k + e) = Len(stack) - k
    BY <1>1, <1>2
  <2>2. Len(stack') - (k + e) - 1 = Len(stack) - k - 1
    BY <2>1
  <2> QED BY <1>2, <2>1, <2>2 DEF Level
<1>6. Level(e)' = IF tool = "pcireg" /\ Len(stack) > 1 THEN Len(stack) - 1 ELSE 0
  <2>1. Len(stack') - e = Len(stack) /\ Len(stack') - e - 1 = Len(stack) - 1
    BY <1>1, <1>2
  <2> QED BY <1>2, <2>1 DEF Level
<1>7. Level(1) = IF tool = "pcireg" /\ Len(stack) > 1 THEN Len(stack) - 2 ELSE 0
  <2>1. CASE tool = "pcireg" /\ Len(stack) > 2
    <3>1. Len(stack) - 1 > 1 /\ Len(stack) - 1 - 1 = Len(stack) - 2 /\ Len(stack) > 1
      BY <1>1, <2>1
    <3> QED BY <2>1, <3>1 DEF Level
  <2>2. CASE Len(stack) = 2
    <3>1. ~(Len(stack) - 1 > 1) /\ Len(stack) - 2 = 0
      BY <2>2
    <3> QED BY <3>1 DEF Level
  <2>3. CASE Len(stack) = 1
    <3>1. ~(Len(stack) - 1 > 1) /\ ~(Len(stack) > 1)
      BY <2>3
    <3> QED BY <3>1 DEF Level
  <2>4. CASE tool # "pcireg"
    BY <2>4 DEF Level
  <2>5. Len(stack) = 1 \/ Len(stack) = 2 \/ Len(stack) > 2
    <3>1. \A n \in Nat : n >= 1 => n = 1 \/ n = 2 \/ n > 2
      OBVIOUS
    <3> QED BY <1>1, <3>1
  <2> QED BY <2>1, <2>2, <2>3, <2>4, <2>5
<1>8. /\ nesting_buf' \in Seq(BOOLEAN) /\ Len(nesting_buf') = Level(e)'
      /\ \A m \in Nat : m <= Len(nesting_buf) =>
           SubSeq(nesting_buf', 1, m) = SubSeq(nesting_buf, 1, m)
  <2>1. CASE tool = "pcireg" /\ Len(stack) > 1
    <3>1. nesting_buf' = Append(nesting_buf, IsLast)
      BY <1>2, <1>4, <2>1
    <3>2. nesting_buf' \in Seq(BOOLEAN) /\ Len(nesting_buf') = Len(nesting_buf) + 1
      BY <1>3, <3>1, AppendProperties
    <3>3. Level(e)' = Len(stack) - 1 /\ Len(nesting_buf) = Len(stack) - 2
      BY <1>3, <1>6, <1>7, <2>1
    <3>4. Len(nesting_buf') = Level(e)'
      BY <1>1, <3>2, <3>3
    <3> QED BY <1>3, <3>1, <3>2, <3>4, AppendKeepsPrefixes
  <2>2. CASE ~(tool = "pcireg" /\ Len(stack) > 1)
    <3>1. nesting_buf' = nesting_buf
      BY <1>2, <1>4, <2>2
    <3>2. Level(e)' = 0 /\ Level(1) = 0
      BY <1>6, <1>7, <2>2
    <3> QED BY <1>3, <3>1, <3>2
  <2> QED BY <2>1, <2>2
<1>9. Cuts'
  <2>1. Len(nesting_buf') = Level(Inner)'
    <3>1. Level(Inner)' = Level(e)'
      BY <1>1 DEF Level
    <3> QED BY <1>8, <3>1
  <2>2. ASSUME NEW k \in Inner' + 1 .. Len(stack') PROVE stack'[k].cut = Level(k)'
    <3>1. /\ k \in 1 .. Len(stack) + e /\ k - e \in Int /\ (k - e) + e = k /\ k # e
          /\ ~(k = 1 /\ e = 2)
      BY <1>1, <1>2
    <3>2. Level(k)' = Level(k - e)
      BY <1>5, <3>1
    <3>3. CASE k - e = 1 /\ stack'[k] = BehindBridge
      BY <1>2, <1>3, <3>2, <3>3
    <3>4. CASE k - e \in 2 .. Len(stack) /\ stack'[k] = stack[k - e]
      BY <1>3, <3>2, <3>4
    <3> QED BY <1>1, <3>1, <3>3, <3>4
  <2> QED BY <1>1, <1>8, <2>1, <2>2 DEF Cuts
<1>10. ASSUME NEW k \in 1 .. Len(stack) PROVE Own(k + e)' = Own(k)
  <2>1. k \in Inner .. Len(stack) /\ k \in Int
    BY <1>1
  <2>2. Level(k) \in Nat /\ Level(k) <= Level(Inner) /\ Level(Inner) = Len(nesting_buf)
    BY <1>1, <1>2, <1>3, <2>1, Levels DEF TInv
  <2>3. Own(k + e)' = SubSeq(nesting_buf', 1, Level(k))
    BY <1>5, <2>1 DEF Own
  <2> QED BY <1>8, <2>2, <2>3 DEF Own
<1>11. ASSUME tool = "pcireg" PROVE Own(e)' = Behind(Line)
  <2>1. Own(e)' = nesting_buf'
    <3>1. SubSeq(nesting_buf', 1, Len(nesting_buf')) = nesting_buf'
      BY <1>8
    <3> QED BY <1>8, <3>1 DEF Own
  <2>2. Line.at = Here /\ Line.nesting = nesting_buf /\ Line.last = IsLast /\ Bus(Here) = Top.bus
    BY DEF Line, Here, Bus
  <2>3. Top.bus = Root <=> Len(stack) = 1
    BY <1>2, RootIsOutermost DEF TInv
  <2>4. CASE Len(stack) = 1
    <3>1. ~(Len(stack) > 1)
      BY <2>4
    <3>2. nesting_buf' = nesting_buf /\ Len(nesting_buf) = 0
      BY <1>2, <1>3, <1>4, <1>7, <3>1
    <3>3. nesting_buf = <<>>
      BY <1>3, <3>2
    <3> QED BY <2>1, <2>2, <2>3, <2>4, <3>2, <3>3 DEF Behind
  <2>5. CASE Len(stack) # 1
    <3>1. Len(stack) > 1
      <4>1. \A n \in Nat : n >= 1 /\ n # 1 => n > 1
        OBVIOUS
      <4> QED BY <1>1, <2>5, <4>1
    <3>2. nesting_buf' = Append(nesting_buf, IsLast)
      BY <1>2, <1>4, <1>11, <3>1
    <3> QED BY <2>1, <2>2, <2>3, <2>5, <3>2 DEF Behind
  <2> QED BY <2>4, <2>5
<1> QED BY <1>9, <1>10, <1>11

LEMMA BridgeTold ==
  ASSUME IInv, TInv, Bridge, NEW e, Pushed(e)
  PROVE  Told'
<1> SUFFICES ASSUME tool' = "pcireg", NEW k \in DOMAIN stack', ~(k = 2 /\ Top'.counts)
             PROVE  Counts(stack[k])'
  BY DEF Told
<1>1. /\ ~Top.counts /\ tool' = tool /\ space' = space /\ space[Here].to \in Buses
      /\ BehindBridge.bus = Top.bus /\ BehindBridge.ret = Top.ret /\ ~BehindBridge.counts
  BY BridgeFacts
<1>2. e = 2
  BY <1>1 DEF Pushed
<1>3. /\ Len(stack) \in Nat /\ Len(stack) >= 1 /\ Top = stack[1] /\ Top'.counts
      /\ DOMAIN stack = 1 .. Len(stack) /\ DOMAIN stack' = 1 .. Len(stack) + e
      /\ \A i \in 1 .. Len(stack) + e :
           \/ i = e /\ stack'[i] = Scan(space[Here].to)
           \/ i = 1 /\ e = 2 /\ stack'[i] = Counting(space[Here].to)
           \/ i - e = 1 /\ i > e /\ stack'[i] = BehindBridge
           \/ i - e \in 2 .. Len(stack) /\ i > e /\ stack'[i] = stack[i - e]
  BY <1>2, BridgeStack
<1>4. Counts(Counting(space[Here].to))
  BY <1>1, EnteredBus DEF IInv
<1>5. Counts(BehindBridge)
  <2>1. 1 \in DOMAIN stack
    BY <1>3
  <2>2. Counts(Top)
    BY <1>1, <1>3, <2>1 DEF TInv, Told
  <2> QED BY <1>1, <2>2, SameCount
<1>6. \A i \in 2 .. Len(stack) : Counts(stack[i])
  BY <1>1, <1>3 DEF TInv, Told
<1>7. k # e
  BY <1>2, <1>3
<1>8. Counts(stack'[k])
  BY <1>3, <1>4, <1>5, <1>6, <1>7
<1> QED BY <1>1, <1>8, SameMachine

LEMMA BridgeTree == IInv /\ TInv /\ Bridge => TInv'
<1> SUFFICES ASSUME IInv, TInv, Bridge PROVE TInv'
  OBVIOUS
<1>1. /\ Scanning /\ Found /\ ~Top.counts /\ stack # <<>> /\ Here \in DOMAIN space
      /\ space[Here].to # Root
      /\ lines' = Append(lines, Line) /\ UNCHANGED <<tool, space>>
  BY BridgeFacts
<1>2. PICK e : Pushed(e)
  BY BridgeFacts
<1>3. Stacked' /\ Told'
  BY <1>2, BridgeStacked, BridgeTold
<1>4. /\ Cuts'
      /\ \A k \in 1 .. Len(stack) : Own(k + e)' = Own(k)
      /\ tool = "pcireg" => Own(e)' = Behind(Line)
  BY <1>2, BridgeCuts
<1>5. LastsRight' /\ (tool = "pcireg" => Repeats')
  BY <1>1, ReportsTree
<1>6. /\ Line.at = Here /\ Line.nesting = Own(1)
  BY <1>1, LineIsRight
<1>7. /\ Len(lines) + 1 \in DOMAIN lines' /\ lines'[Len(lines) + 1] = Line
      /\ \A j \in DOMAIN lines : j \in DOMAIN lines' /\ lines'[j] = lines[j]
      /\ \A j \in DOMAIN lines' : j \in DOMAIN lines \/ j = Len(lines) + 1
  BY <1>1, LinesGrow
<1>8. /\ Len(stack) \in Nat /\ Drawing = 1 .. Len(stack) /\ Top = stack[1]
      /\ \A k \in Drawing' : k = e \/ k - e \in 1 .. Len(stack)
      /\ stack'[e].bus = space[Here].to
      /\ \A k \in 1 .. Len(stack) : stack'[k + e].bus = stack[k].bus
  BY <1>2, BridgeStack
<1>9. /\ space[Here].to \in Nat /\ space[Here].to > Top.bus
      /\ \A j \in DOMAIN lines : /\ Bus(lines[j].at) # space[Here].to
                                /\ space[lines[j].at].to # space[Here].to
      /\ \A k \in 1 .. Len(stack) : k # 1 => stack[k].bus < Top.bus
  BY <1>1, <1>8, HereIsNew
<1>10. Top.bus \in Nat /\ Bus(Here) = Top.bus
  <2>1. Top \in AnyCall
    BY <1>1, TopFacts DEF IInv
  <2> QED BY <2>1, PciScanAssumption DEF AnyCall, Here, Bus
<1>11. \A k \in 1 .. Len(stack) : stack[k].bus \in Nat
  <2>1. DOMAIN stack = 1 .. Len(stack) /\ \A k \in DOMAIN stack : stack[k] \in AnyCall
    BY <1>1, TopFacts DEF IInv
  <2> QED BY <2>1, PciScanAssumption DEF AnyCall
<1>12. ASSUME tool = "pcireg", NEW k \in Drawing', NEW j \in DOMAIN lines'
       PROVE  /\ Bus(lines'[j].at) = stack'[k].bus => lines'[j].nesting = Own(k)'
              /\ stack'[k].bus # Root /\ space[lines'[j].at].to = stack'[k].bus =>
                   Own(k)' = Behind(lines'[j])
  <2>1. CASE k = e /\ j \in DOMAIN lines
    BY <1>7, <1>8, <1>9, <2>1
  <2>2. CASE k = e /\ j = Len(lines) + 1
    <3>1. lines'[j] = Line /\ Bus(lines'[j].at) # stack'[k].bus
      BY <1>6, <1>7, <1>8, <1>9, <1>10, <2>2
    <3> QED BY <1>4, <1>12, <2>2, <3>1
  <2> DEFINE i == k - e
  <2>3. CASE i \in 1 .. Len(stack)
    <3>1. /\ Own(k)' = Own(i) /\ stack'[k].bus = stack[i].bus
      <4>1. i + e = k
        <5>1. k \in Int /\ e \in Int
          <6>1. k \in DOMAIN stack' /\ DOMAIN stack' = 1 .. Len(stack) + e
            BY <1>2, BridgeStack DEF Drawing
          <6>2. e \in {1, 2}
            BY <1>2 DEF Pushed
          <6> QED BY <6>1, <6>2
        <5> QED BY <5>1
      <4> HIDE DEF i
      <4> QED BY <1>4, <1>8, <2>3, <4>1
    <3> HIDE DEF i
    <3>2. CASE j \in DOMAIN lines
      BY <1>7, <1>8, <1>12, <2>3, <3>1, <3>2 DEF TInv, NestingsRight
    <3>3. CASE j = Len(lines) + 1
      <4>1. lines'[j] = Line /\ Bus(lines'[j].at) = Top.bus
        BY <1>6, <1>7, <1>10, <3>3
      <4>2. stack[i].bus = Top.bus => i = 1
        BY <1>9, <1>10, <1>11, <2>3
      <4>3. stack[i].bus # space[Here].to
        BY <1>8, <1>9, <1>10, <1>11, <2>3
      <4> QED BY <1>6, <3>1, <4>1, <4>2, <4>3
    <3> QED BY <1>7, <3>2, <3>3
  <2> HIDE DEF i
  <2>4. k = e \/ i \in 1 .. Len(stack)
    BY <1>8 DEF i
  <2> QED BY <1>7, <2>1, <2>2, <2>3, <2>4
<1>13. NestingsRight'
  <2>1. \A j : Behind(lines[j])' = Behind(lines'[j])
    BY DEF Behind, Bus
  <2> QED BY <1>1, <1>5, <1>12, <2>1 DEF NestingsRight, Repeats, Bus
<1> QED BY <1>3, <1>4, <1>5, <1>13 DEF TInv

LEMMA NextTree == IInv /\ TInv /\ [Next]_vars => TInv'
<1> SUFFICES ASSUME IInv, TInv, [Next]_vars PROVE TInv'
  OBVIOUS
<1>1. CASE UNCHANGED vars
  <2>1. UNCHANGED <<tool, space, stack, nesting_buf, lines>>
    BY <1>1 DEF vars
  <2>2. /\ Top' = Top /\ Inner' = Inner /\ Drawing' = Drawing
        /\ \A k : Level(k)' = Level(k) /\ Own(k)' = Own(k)
    BY <2>1 DEF Top, Inner, Drawing, Level, Own
  <2>3. Stacked' /\ Cuts'
    BY <2>1, <2>2 DEF TInv, Stacked, Cuts, Placed
  <2>4. Told' /\ LastsRight'
    BY <2>1, <2>2, SameMachine DEF TInv, Told, LastsRight
  <2>5. NestingsRight'
    BY <2>1, <2>2 DEF TInv, NestingsRight, Behind
  <2> QED BY <2>3, <2>4, <2>5 DEF TInv
<1>2. CASE Walk
  BY <1>2, AbsentTree, CountTree, DeviceTree, BridgeTree, CountedTree, ReturnTree DEF Walk
<1> QED BY <1>1, <1>2 DEF Next, Ended

(* All that the invariants say draws the tree.                             *)
LEMMA TreeIsDrawn ==
  ASSUME IInv, CInv, TInv
  PROVE  TreeDrawn
<1> SUFFICES ASSUME tool = "pcireg", NEW j \in DOMAIN lines
             PROVE  /\ lines[j].last <=>
                         \A l \in Visible : Bus(l) = Bus(lines[j].at) =>
                           \/ Dev(l) < Dev(lines[j].at)
                           \/ Dev(l) = Dev(lines[j].at) /\ Func(l) <= Func(lines[j].at)
                    /\ \A k \in DOMAIN lines :
                         space[lines[k].at].to = Bus(lines[j].at) /\ Bus(lines[j].at) # Root =>
                           lines[j].nesting = IF Bus(lines[k].at) = Root THEN <<>>
                                              ELSE Append(lines[k].nesting, lines[k].last)
  BY DEF TreeDrawn
<1>1. lines[j].last <=> Ends(Bus(lines[j].at), Dev(lines[j].at), Func(lines[j].at))
  BY DEF TInv, LastsRight
<1>2. Bus(lines[j].at) \in BusesReached
  BY DEF CInv, LinesVisible
<1>3. \A l : l \in Visible /\ Bus(l) = Bus(lines[j].at) <=>
               l \in DOMAIN space /\ Answers(l) /\ Bus(l) = Bus(lines[j].at)
  BY <1>2 DEF Visible
<1>4. lines[j].last <=>
        \A l \in Visible : Bus(l) = Bus(lines[j].at) =>
          \/ Dev(l) < Dev(lines[j].at)
          \/ Dev(l) = Dev(lines[j].at) /\ Func(l) <= Func(lines[j].at)
  BY <1>1, <1>3 DEF Ends, NotAfter
<1>5. \A k \in DOMAIN lines :
        Bus(lines[j].at) # Root /\ space[lines[k].at].to = Bus(lines[j].at) =>
          lines[j].nesting = Behind(lines[k])
  BY DEF TInv, NestingsRight
<1> QED BY <1>4, <1>5 DEF Behind

(* The calls in progress that do not count are on different buses.         *)
LEMMA CallsAreFew ==
  ASSUME IInv, Stacked, stack # <<>>
  PROVE  Cardinality(Buses) \in Nat /\ Len(stack) - Inner + 1 <= Cardinality(Buses)
<1>1. /\ Len(stack) \in Nat /\ Len(stack) >= Inner /\ Inner \in {1, 2}
      /\ DOMAIN stack = 1 .. Len(stack) /\ Drawing = Inner .. Len(stack)
      /\ \A k \in DOMAIN stack : stack[k] \in AnyCall
  BY StackIs
<1>2. IsFiniteSet(Drawing) /\ Cardinality(Drawing) = Len(stack) - Inner + 1
  <2>1. Inner \in Int /\ Len(stack) \in Int /\ ~(Inner > Len(stack))
    BY <1>1
  <2>2. Cardinality(Inner .. Len(stack)) =
          IF Inner > Len(stack) THEN 0 ELSE Len(stack) - Inner + 1
    BY <2>1, FS_Interval
  <2>3. IsFiniteSet(Inner .. Len(stack))
    BY <2>1, FS_Interval
  <2> QED BY <1>1, <2>1, <2>2, <2>3
<1> DEFINE busOf == [k \in Drawing |-> stack[k].bus]
<1>3. busOf \in Injection(Drawing, Buses)
  <2>1. \A k \in Drawing : stack[k].bus \in Buses /\ stack[k].bus \in Nat /\ k \in Nat
    <3> SUFFICES ASSUME NEW k \in Drawing
                 PROVE  stack[k].bus \in Buses /\ stack[k].bus \in Nat /\ k \in Nat
      OBVIOUS
    <3>1. k \in DOMAIN stack
      BY DEF Drawing
    <3>2. stack[k].bus \in Buses
      BY <1>1, <3>1 DEF AnyCall
    <3>3. k \in Nat
      BY <1>1, <3>1
    <3> QED BY <3>2, <3>3, PciScanAssumption
  <2>2. busOf \in [Drawing -> Buses]
    BY <2>1
  <2>3. ASSUME NEW j \in Drawing, NEW k \in Drawing, stack[j].bus = stack[k].bus
        PROVE  j = k
    <3>1. j < k \/ k < j \/ j = k
      BY <2>1
    <3>2. CASE j < k
      BY <2>1, <2>3, <3>2 DEF IInv, CallsDescend
    <3>3. CASE k < j
      BY <2>1, <2>3, <3>3 DEF IInv, CallsDescend
    <3> QED BY <3>1, <3>2, <3>3
  <2>4. \A j, k \in Drawing : busOf[j] = busOf[k] => j = k
    BY <2>3
  <2> QED BY <2>2, <2>4 DEF Injection, IsInjective
<1>4. IsFiniteSet(Buses)
  BY PciScanAssumption
<1>5. Cardinality(Drawing) <= Cardinality(Buses)
  <2> HIDE DEF busOf
  <2>1. \E f : f \in Injection(Drawing, Buses)
    BY <1>3
  <2> QED BY <1>4, <2>1, FS_Injection
<1>6. Cardinality(Buses) \in Nat
  BY <1>4, FS_CardinalityType
<1> QED BY <1>2, <1>5, <1>6

LEMMA TreeTypes ==
  ASSUME IInv, TInv
  PROVE  TypeOK
<1>1. tool \in {"clib", "pcireg"}
  BY DEF TInv, Stacked
<1>2. stack \in Seq(AnyCall) /\ Len(stack) \in Nat /\ DOMAIN stack = 1 .. Len(stack)
  BY DEF IInv, Shape
<1>3. stack \in Seq(Frames)
  <2>1. ASSUME NEW k \in 1 .. Len(stack) PROVE stack[k] \in Frames
    <3>1. stack[k] \in AnyCall /\ Placed(stack[k])
      BY <1>2 DEF TInv, Stacked
    <3> QED BY <3>1 DEF AnyCall, Placed, Frames
  <2> QED BY <1>2, <2>1, IsASeq
<1>4. IsFiniteSet(Buses) /\ Root \in Buses
  BY PciScanAssumption
<1>5. Cardinality(Buses) \in Nat /\ Cardinality(Buses) > 0
  <2>1. Cardinality(Buses) \in Nat
    BY <1>4, FS_CardinalityType
  <2>2. Cardinality(Buses) # 0
    BY <1>4, FS_EmptySet
  <2> QED BY <2>1, <2>2
<1>6. Len(stack) <= Cardinality(Buses) + 1 /\ Len(nesting_buf) < Cardinality(Buses)
  <2>1. CASE stack = <<>>
    <3>1. nesting_buf = <<>>
      BY <2>1 DEF TInv, Cuts
    <3>2. Len(stack) = 0 /\ Len(nesting_buf) = 0
      BY <2>1, <3>1
    <3> QED BY <1>5, <3>2
  <2>2. CASE stack # <<>>
    <3>1. Len(stack) - Inner + 1 <= Cardinality(Buses)
      BY <2>2, CallsAreFew DEF TInv
    <3>2. Inner \in {1, 2} /\ Len(stack) >= Inner
      BY <2>2, StackIs DEF TInv
    <3>3. Len(stack) <= Cardinality(Buses) + 1
      BY <1>2, <1>5, <3>1, <3>2
    <3>4. Len(nesting_buf) = Level(Inner)
      BY <2>2 DEF TInv, Cuts
    <3>5. Level(Inner) = 0 \/ Level(Inner) = Len(stack) - Inner - 1
      BY DEF Level
    <3>6. Level(Inner) < Cardinality(Buses)
      <4>1. CASE Level(Inner) = 0
        BY <1>5, <4>1
      <4>2. CASE Level(Inner) = Len(stack) - Inner - 1
        BY <1>2, <1>5, <3>1, <3>2, <4>2
      <4> QED BY <3>5, <4>1, <4>2
    <3> QED BY <3>3, <3>4, <3>6
  <2> QED BY <2>1, <2>2
<1>7. nesting_buf \in Seq(BOOLEAN)
  BY DEF TInv, Cuts
<1>8. \A k \in DOMAIN lines :
        /\ lines[k].at \in Locations
        /\ lines[k].nesting \in Seq(BOOLEAN) /\ lines[k].last \in BOOLEAN
  <2>1. DOMAIN space \subseteq Locations
    BY PciScanAssumption DEF IInv, Shape
  <2> QED BY <2>1 DEF IInv, Shape, TInv, LastsRight
<1> QED BY <1>1, <1>3, <1>6, <1>7, <1>8 DEF TypeOK

(* The calls of a scan nest no deeper than there are buses, so that the    *)
(* stack and pcireg's nesting_buf are bounded by the number of buses.      *)
THEOREM Typing == Spec => []TypeOK
<1>1. IInv /\ TInv => TypeOK
  BY TreeTypes
<1> QED BY <1>1, InitIInv, NextIInv, InitTree, NextTree, PTL DEF Spec

(* pcireg -s draws the tree of the machine's buses: the corner is at the   *)
(* last function of a bus, which the walk ahead has found, and the bars to *)
(* the left are those of the bridges above.                                *)
THEOREM DrawsTree == Spec => []TreeDrawn
<1>1. IInv /\ CInv /\ TInv => TreeDrawn
  BY TreeIsDrawn
<1> QED
  BY <1>1, InitIInv, NextIInv, InitCInv, NextCInv, InitTree, NextTree, PTL DEF Spec
=============================================================================
