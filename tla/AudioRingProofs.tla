-------------------------- MODULE AudioRingProofs --------------------------
(***************************************************************************)
(* Proofs about AudioRing, for every ring size, frame length, callback     *)
(* length, channel count and bound.                                        *)
(***************************************************************************)
EXTENDS AudioRing, FiniteSetTheorems, TLAPS

USE SizeAssumption, BoundAssumption

\* The next index is one further, or 0 after the last.
LEMMA AdvanceIndex ==
    ASSUME NEW i \in Index
    PROVE  /\ Advance(i) \in Index
           /\ Advance(i) = IF i = Size - 1 THEN 0 ELSE i + 1
<1>1. CASE i = Size - 1
    <2>1. (i + 1) % Size = 0
        BY <1>1
    <2> QED
        BY <1>1, <2>1 DEF Advance, Index
<1>2. CASE i # Size - 1
    <2>1. i + 1 \in 0 .. Size - 1
        BY <1>2 DEF Index
    <2>2. (i + 1) % Size = i + 1
        BY <2>1
    <2> QED
        BY <1>2, <2>1, <2>2 DEF Advance, Index
<1> QED
    BY <1>1, <1>2

\* The state of the ring and of the two threads has the declared type.
THEOREM TypeCorrect == Spec => []TypeOK
<1>1. Init => TypeOK
    BY DEF Init, TypeOK, Index, Silence
<1>2. TypeOK /\ [Next]_vars => TypeOK'
    <2> SUFFICES ASSUME TypeOK, [Next]_vars
                 PROVE  TypeOK'
        OBVIOUS
    <2> USE DEF TypeOK, Silence, mainVars, audioVars
    <2>1. CASE ClockEnter
        BY <2>1 DEF ClockEnter
    <2>2. CASE StoreSample
        BY <2>2, AdvanceIndex DEF StoreSample
    <2>3. CASE DropSample
        BY <2>3 DEF DropSample
    <2>4. CASE ClockLeave
        BY <2>4 DEF ClockLeave
    <2>5. CASE ResetBegin
        BY <2>5 DEF ResetBegin, Index
    <2>6. CASE ResetSlot
        BY <2>6, AdvanceIndex DEF ResetSlot
    <2>7. CASE ResetRd
        BY <2>7 DEF ResetRd, Index
    <2>8. CASE ResetWr
        BY <2>8 DEF ResetWr, Index
    <2>9. CASE ProcessEnter
        BY <2>9 DEF ProcessEnter
    <2>10. CASE CheckMore
        BY <2>10 DEF CheckMore
    <2>11. CASE ProcessLeave
        BY <2>11 DEF ProcessLeave, Index
    <2>12. CASE Mix
        BY <2>12 DEF Mix
    <2>13. CASE AdvanceRd
        BY <2>13, AdvanceIndex DEF AdvanceRd
    <2>14. CASE UNCHANGED vars
        BY <2>14 DEF vars
    <2> QED
        BY <2>1, <2>2, <2>3, <2>4, <2>5, <2>6, <2>7, <2>8, <2>9, <2>10,
           <2>11, <2>12, <2>13, <2>14 DEF Next, Main, Audio
<1> QED
    BY <1>1, <1>2, PTL DEF Spec

-----------------------------------------------------------------------------
(* The ring as a queue                                                     *)

\* Distances are bounded by the ring, and one step of either end of the
\* waiting region changes its length by one.
LEMMA DistanceFacts ==
    ASSUME NEW i \in Index, NEW j \in Index
    PROVE  /\ Distance(i, j) \in Nat
           /\ Distance(i, j) = 0 <=> i = j
           /\ i # j => Distance(Advance(i), j) = Distance(i, j) - 1
           /\ Advance(j) # i => Distance(i, Advance(j)) = Distance(i, j) + 1
BY AdvanceIndex DEF Distance, Index

\* Initially the ring is empty and no thread is inside.
LEMMA RingInit == Init => RingInv
BY DEF Init, RingInv, LockHeld, Cleared, RegistersCurrent, InPlace,
       WaitingInOrder, Blank, Resetting, NextRd, Occupied, Distance, Index, Silence

\* clock() stores behind the newest waiting sample.
LEMMA StoreKeepsOrder ==
    ASSUME TypeOK, RingInv, StoreSample
    PROVE  WaitingInOrder'
<1> USE DEF TypeOK
<1>1. apc = "out" /\ mpc = "clock" /\ NextRd = rd /\ NextRd' = rd /\ ~Resetting
    BY DEF StoreSample, RingInv, LockHeld, NextRd, audioVars, Resetting
<1>2. /\ wr' = Advance(wr) /\ wr' \in Index /\ wr' # rd
      /\ made' = made + 1 /\ heard' = heard
      /\ slots' = [slots EXCEPT ![wr] = made + 1]
    BY AdvanceIndex DEF StoreSample, Full
<1>3. Distance(rd, wr) \in Nat /\ Distance(rd, wr') = Distance(rd, wr) + 1
    BY <1>2, DistanceFacts
<1>4. made - heard \in 0 .. Distance(rd, wr)
    BY <1>1 DEF RingInv, WaitingInOrder
<1>5. made' - heard' \in 0 .. Distance(rd, wr')
    BY <1>2, <1>3, <1>4
<1>6. ASSUME NEW i \in Index, Occupied(i)'
      PROVE  slots'[i] = IF Distance(i, wr') <= made' - heard'
                         THEN made' + 1 - Distance(i, wr') ELSE Silence
    <2>1. Distance(i, wr') \in 1 .. Distance(rd, wr')
        BY <1>1, <1>6 DEF Occupied
    <2>2. CASE i = wr
        <3>1. Distance(wr, wr) = 0 /\ Distance(wr, wr') = 1
            BY <1>2, AdvanceIndex, DistanceFacts
        <3>2. slots'[i] = made + 1
            BY <1>2, <2>2
        <3>3. 1 <= made' - heard' /\ made' + 1 - 1 = made + 1
            BY <1>2, <1>3, <1>4
        <3> QED
            BY <2>2, <3>1, <3>2, <3>3
    <2>3. CASE i # wr
        <3>1. i # wr'
            BY <1>2, <2>1, DistanceFacts
        <3>2. /\ Distance(i, wr) \in Nat \ {0}
              /\ Distance(i, wr') = Distance(i, wr) + 1
            BY <1>2, <2>3, <3>1, DistanceFacts
        <3>3. Occupied(i)
            BY <1>1, <1>3, <2>1, <3>2 DEF Occupied
        <3>4. slots[i] = IF Distance(i, wr) <= made - heard
                         THEN made + 1 - Distance(i, wr) ELSE Silence
            BY <1>1, <3>3 DEF RingInv, WaitingInOrder
        <3>5. slots'[i] = slots[i]
            BY <1>2, <2>3
        <3>6. made' + 1 - Distance(i, wr') = made + 1 - Distance(i, wr)
            BY <1>2, <3>2
        <3>7. (Distance(i, wr') <= made' - heard') <=> (Distance(i, wr) <= made - heard)
            BY <1>2, <3>2
        <3> QED
            BY <3>4, <3>5, <3>6, <3>7
    <2> QED
        BY <2>2, <2>3
<1> QED
    BY <1>1, <1>5, <1>6 DEF WaitingInOrder

\* Outside a reset, process() plays silence or the sample after the last one
\* heard.
LEMMA MixHearsNext ==
    ASSUME TypeOK, RingInv, Mix, ~Resetting
    PROVE  heard' \in {heard, heard + 1} /\ WaitingInOrder'
<1> USE DEF TypeOK
<1>1. CASE Blank
    <2>1. heard' = 0 /\ made' = 0 /\ slots' = slots /\ heard = 0
        BY <1>1 DEF Mix, Blank
    <2>2. Distance(NextRd', wr') \in Nat
        BY AdvanceIndex, DistanceFacts DEF Mix, NextRd
    <2>3. \A i \in Index : Occupied(i)' => ~(Distance(i, wr') <= made' - heard')
        BY <2>1, <2>2 DEF Occupied
    <2>4. WaitingInOrder'
        BY <1>1, <2>1, <2>2, <2>3 DEF WaitingInOrder, Blank
    <2> QED
        BY <2>1, <2>4
<1>2. CASE rdReg = rd /\ wrReg = wr /\ rd # wr
    <2>1. /\ rdReg' = rd /\ rd' = rd /\ wr' = wr /\ slots' = slots /\ made' = made
          /\ heard' = IF slots[rd] = Silence THEN heard ELSE slots[rd]
          /\ apc = "mix" /\ apc' = "advance"
        BY <1>2 DEF Mix
    <2>2. NextRd = rd /\ NextRd' = Advance(rd)
        BY <2>1 DEF NextRd
    <2> DEFINE d == Distance(rd, wr)
    <2>3. d \in Nat /\ d > 0 /\ Distance(Advance(rd), wr) = d - 1
        BY <1>2, DistanceFacts
    <2>4. /\ made - heard \in 0 .. d
          /\ slots[rd] = IF d <= made - heard THEN made + 1 - d ELSE Silence
          /\ \A i \in Index : Distance(i, wr) \in 1 .. d =>
                slots[i] = IF Distance(i, wr) <= made - heard
                           THEN made + 1 - Distance(i, wr) ELSE Silence
        BY <2>2, <2>3 DEF RingInv, WaitingInOrder, Occupied
    <2>5. CASE made - heard = d
        <3>1. slots[rd] = heard + 1
            BY <2>3, <2>4, <2>5
        <3>2. heard' = heard + 1
            BY <2>1, <3>1 DEF Silence
        <3>3. made' - heard' = d - 1
            BY <2>1, <2>5, <3>2
        <3>4. \A i \in Index : Distance(i, wr) \in 1 .. d - 1 =>
                 slots[i] = made + 1 - Distance(i, wr)
            BY <2>3, <2>4, <2>5
        <3>5. WaitingInOrder'
            BY <2>1, <2>2, <2>3, <3>3, <3>4 DEF WaitingInOrder, Occupied
        <3> QED
            BY <3>2, <3>5
    <2>6. CASE made - heard < d
        <3>1. heard' = heard
            BY <2>1, <2>3, <2>4, <2>6 DEF Silence
        <3>2. WaitingInOrder'
            BY <2>1, <2>2, <2>3, <2>4, <2>6, <3>1
            DEF WaitingInOrder, Occupied
        <3> QED
            BY <3>1, <3>2
    <2> QED
        BY <2>3, <2>4, <2>5, <2>6
<1> QED
    BY <1>1, <1>2 DEF RingInv, RegistersCurrent, Mix, Resetting

\* AdvanceRd only publishes what Mix has played already.
LEMMA AdvanceKeepsOrder ==
    ASSUME TypeOK, RingInv, AdvanceRd, mpc \notin {"clear_rd", "clear_wr"}
    PROVE  RegistersCurrent' /\ WaitingInOrder'
<1> USE DEF TypeOK
<1>1. apc = "advance" /\ apc' = "check" /\ NextRd = Advance(rdReg) /\ NextRd' = rd'
    BY DEF AdvanceRd, NextRd
<1>2. wr' = wr /\ wrReg' = wrReg /\ slots' = slots /\ made' = made /\ heard' = heard
    BY DEF AdvanceRd
<1>3. CASE Blank
    <2>1. Blank'
        BY <1>2, <1>3 DEF Blank
    <2>2. rd' \in Index /\ wr' \in Index /\ Distance(rd', wr') \in Nat
        BY <1>2, AdvanceIndex, DistanceFacts DEF AdvanceRd
    <2>3. \A i \in Index : Occupied(i)' => ~(Distance(i, wr') <= made' - heard')
        BY <1>1, <2>1, <2>2 DEF Occupied, Blank
    <2>4. WaitingInOrder'
        BY <1>1, <2>1, <2>2, <2>3 DEF WaitingInOrder, Blank
    <2> QED
        BY <2>1, <2>4 DEF RegistersCurrent
<1>4. CASE rdReg = rd /\ wrReg = wr
    <2>1. rd' = Advance(rdReg) /\ rdReg' = rd'
        BY <1>4 DEF AdvanceRd
    <2>2. RegistersCurrent'
        BY <1>1, <1>2, <1>4, <2>1 DEF RegistersCurrent
    <2>3. WaitingInOrder /\ mpc' = mpc
        BY DEF RingInv, AdvanceRd, mainVars
    <2>4. WaitingInOrder'
        BY <1>1, <1>2, <2>1, <2>3 DEF WaitingInOrder, Occupied, Resetting
    <2> QED
        BY <2>2, <2>4
<1> QED
    BY <1>1, <1>3, <1>4 DEF RingInv, RegistersCurrent

\* The last store of reset() leaves a blank ring, whatever process() did to
\* rd_index meanwhile.
LEMMA ResetLeavesBlank ==
    ASSUME TypeOK, RingInv, ResetWr
    PROVE  RegistersCurrent' /\ WaitingInOrder'
<1> USE DEF TypeOK
<1>1. Blank'
    BY DEF ResetWr, RingInv, Cleared, Blank
<1>2. wr' \in Index /\ rd' \in Index /\ rdReg' \in Index
    BY DEF ResetWr, Index, audioVars
<1>3. Distance(NextRd', wr') \in Nat
    BY <1>2, AdvanceIndex, DistanceFacts DEF NextRd
<1>4. \A i \in Index : Occupied(i)' => ~(Distance(i, wr') <= made' - heard')
    BY <1>1, <1>3 DEF Occupied, Blank
<1>5. WaitingInOrder'
    BY <1>1, <1>3, <1>4 DEF WaitingInOrder, Blank
<1> QED
    BY <1>1, <1>5 DEF RegistersCurrent

\* Every step preserves the invariant, what reset() did not blank yet apart.
CoreInv == LockHeld /\ Cleared /\ RegistersCurrent /\ WaitingInOrder

LEMMA CoreStep == TypeOK /\ RingInv /\ [Next]_vars => CoreInv'
<1> SUFFICES ASSUME TypeOK, RingInv, [Next]_vars
             PROVE  CoreInv'
    OBVIOUS
<1> USE DEF TypeOK, mainVars, audioVars, CoreInv
<1>1. CASE ClockEnter
    BY <1>1 DEF ClockEnter, RingInv, LockHeld, Cleared, RegistersCurrent,
       WaitingInOrder, Blank, Resetting, NextRd, Occupied
<1>2. CASE StoreSample
    <2>1. mpc = "clock" /\ mpc' = "clock" /\ apc = "out" /\ apc' = "out"
        BY <1>2 DEF StoreSample, RingInv, LockHeld
    <2>2. LockHeld' /\ Cleared' /\ RegistersCurrent'
        BY <1>2, <2>1 DEF StoreSample, RingInv, LockHeld, Cleared, RegistersCurrent
    <2> QED
        BY <1>2, <2>2, StoreKeepsOrder DEF RingInv
<1>3. CASE DropSample
    BY <1>3 DEF DropSample, RingInv, LockHeld, Cleared, RegistersCurrent,
       WaitingInOrder, Blank, Resetting, NextRd, Occupied
<1>4. CASE ClockLeave
    BY <1>4 DEF ClockLeave, RingInv, LockHeld, Cleared, RegistersCurrent,
       WaitingInOrder, Blank, Resetting, NextRd, Occupied
<1>5. CASE ResetBegin
    <2>1. mpc = "idle" /\ mpc' = "zero" /\ zeroed' = 0 /\ mutex' = mutex /\ apc' = apc
        BY <1>5 DEF ResetBegin
    <2>2. Cleared'
        BY <2>1 DEF Cleared, Index
    <2>3. RegistersCurrent'
        BY <1>5, <2>1 DEF ResetBegin, RingInv, RegistersCurrent, Blank
    <2> QED
        BY <2>1, <2>2, <2>3 DEF RingInv, LockHeld, WaitingInOrder, Resetting
<1>6. CASE ResetSlot
    <2>1. /\ mpc = "zero" /\ mpc' \in {"zero", "clear_rd"}
          /\ mutex' = mutex /\ apc' = apc
          /\ slots' = [slots EXCEPT ![zeroed] = Silence]
        BY <1>6 DEF ResetSlot
    <2>2. \A i \in Index : i < zeroed => slots[i] = Silence
        BY <2>1 DEF RingInv, Cleared
    <2>3. \A i \in Index : i <= zeroed => slots'[i] = Silence
        BY <2>1, <2>2 DEF Index
    <2>4. Cleared'
        <3>1. CASE zeroed = Size - 1
            BY <1>6, <2>3, <3>1 DEF ResetSlot, Cleared, Index
        <3>2. CASE zeroed # Size - 1
            <4>1. mpc' = "zero" /\ zeroed' = zeroed + 1
                BY <1>6, <3>2, AdvanceIndex DEF ResetSlot
            <4> QED
                BY <2>3, <4>1 DEF Cleared, Index
        <3> QED
            BY <3>1, <3>2
    <2>5. RegistersCurrent'
        <3>1. Blank => Blank'
            BY <1>6, <2>1 DEF ResetSlot, Blank
        <3>2. apc # "out" => \/ Blank
                            \/ /\ rdReg = rd /\ wrReg = wr
                               /\ apc \in {"mix", "advance"} => rd # wr
            BY <2>1 DEF RingInv, RegistersCurrent
        <3>3. UNCHANGED <<rd, wr, rdReg, wrReg, apc>>
            BY <1>6 DEF ResetSlot
        <3> QED
            BY <3>1, <3>2, <3>3 DEF RegistersCurrent
    <2> QED
        BY <2>1, <2>4, <2>5 DEF RingInv, LockHeld, WaitingInOrder, Resetting
<1>7. CASE ResetRd
    BY <1>7 DEF ResetRd, RingInv, LockHeld, Cleared, RegistersCurrent,
       WaitingInOrder, Resetting
<1>8. CASE ResetWr
    <2>1. LockHeld' /\ Cleared'
        BY <1>8 DEF ResetWr, RingInv, LockHeld, Cleared
    <2> QED
        BY <1>8, <2>1, ResetLeavesBlank DEF RingInv
<1>9. CASE ProcessEnter
    BY <1>9 DEF ProcessEnter, RingInv, LockHeld, Cleared, RegistersCurrent,
       WaitingInOrder, Blank, Resetting, NextRd, Occupied
<1>10. CASE CheckMore
    BY <1>10 DEF CheckMore, RingInv, LockHeld, Cleared, RegistersCurrent,
       WaitingInOrder, Blank, Resetting, NextRd, Occupied
<1>11. CASE ProcessLeave
    BY <1>11 DEF ProcessLeave, RingInv, LockHeld, Cleared, RegistersCurrent,
       WaitingInOrder, Blank, Resetting, NextRd, Occupied
<1>12. CASE Mix
    <2>1. LockHeld' /\ Cleared'
        BY <1>12 DEF Mix, RingInv, LockHeld, Cleared
    <2>2. RegistersCurrent'
        <3>1. CASE Blank
            BY <1>12, <3>1 DEF Mix, RegistersCurrent, Blank
        <3>2. CASE ~Blank
            BY <1>12, <3>2 DEF Mix, RingInv, RegistersCurrent
        <3> QED
            BY <3>1, <3>2
    <2>3. WaitingInOrder'
        <3>1. CASE Resetting
            BY <1>12, <3>1 DEF Mix, WaitingInOrder, Resetting
        <3>2. CASE ~Resetting
            BY <1>12, <3>2, MixHearsNext
        <3> QED
            BY <3>1, <3>2
    <2> QED
        BY <2>1, <2>2, <2>3
<1>13. CASE AdvanceRd
    <2>1. LockHeld' /\ Cleared'
        BY <1>13 DEF AdvanceRd, RingInv, LockHeld, Cleared
    <2>2. CASE mpc \in {"clear_rd", "clear_wr"}
        BY <1>13, <2>1, <2>2 DEF AdvanceRd, RegistersCurrent, WaitingInOrder,
           Resetting
    <2>3. CASE mpc \notin {"clear_rd", "clear_wr"}
        BY <1>13, <2>1, <2>3, AdvanceKeepsOrder
    <2> QED
        BY <2>2, <2>3
<1>14. CASE UNCHANGED vars
    BY <1>14 DEF vars, RingInv, LockHeld, Cleared, RegistersCurrent,
       WaitingInOrder, Blank, Resetting, NextRd, Occupied
<1> QED
    BY <1>1, <1>2, <1>3, <1>4, <1>5, <1>6, <1>7, <1>8, <1>9, <1>10,
       <1>11, <1>12, <1>13, <1>14 DEF Next, Main, Audio

\* A slot between the indices holds silence or the sample of its place, also
\* while reset() blanks the ring under process().
LEMMA PlaceStep ==
    ASSUME TypeOK, RingInv, [Next]_vars, CoreInv'
    PROVE  InPlace'
<1> USE DEF TypeOK
<1>1. CASE ~Resetting'
    BY <1>1 DEF CoreInv, WaitingInOrder, InPlace
<1>2. CASE mpc' \in {"clear_rd", "clear_wr"}
    BY <1>2 DEF CoreInv, Cleared, InPlace
<1>3. CASE mpc' = "zero"
    <2>1. InPlace
        BY DEF RingInv
    <2>2. CASE NextRd' = NextRd /\ UNCHANGED <<slots, wr, made>>
        BY <2>1, <2>2 DEF InPlace, Occupied
    <2>3. CASE ResetSlot
        <3>1. /\ NextRd' = NextRd /\ wr' = wr /\ made' = made
              /\ \A i \in Index : slots'[i] \in {Silence, slots[i]}
            BY <2>3 DEF ResetSlot, NextRd, audioVars
        <3> QED
            BY <2>1, <3>1 DEF InPlace, Occupied
    <2>4. CASE Mix /\ Blank
        BY <2>4 DEF Mix, Blank, InPlace
    <2>5. CASE Mix /\ ~Blank
        <3>1. /\ apc = "mix" /\ rdReg = rd /\ rd # wr
              /\ UNCHANGED <<slots, rd, wr, made>>
              /\ NextRd = rd /\ NextRd' = Advance(rd)
            BY <1>3, <2>5 DEF Mix, RingInv, RegistersCurrent, NextRd, mainVars
        <3>2. /\ Distance(rd, wr) \in Nat
              /\ Distance(Advance(rd), wr) = Distance(rd, wr) - 1
            BY <3>1, DistanceFacts
        <3>3. \A i \in Index : Occupied(i)' => Occupied(i)
            <4> SUFFICES ASSUME NEW i \in Index, Occupied(i)'
                         PROVE  Occupied(i)
                OBVIOUS
            <4>1. Distance(i, wr) \in 1 .. Distance(rd, wr) - 1
                BY <3>1, <3>2 DEF Occupied
            <4> QED
                BY <3>1, <3>2, <4>1 DEF Occupied
        <3> QED
            BY <2>1, <3>1, <3>3 DEF InPlace
    <2>6. CASE AdvanceRd /\ Blank
        BY <2>6 DEF AdvanceRd, Blank, InPlace
    <2>7. CASE AdvanceRd /\ ~Blank
        <3>1. rdReg = rd
            BY <1>3, <2>7 DEF AdvanceRd, RingInv, RegistersCurrent, mainVars
        <3>2. NextRd' = NextRd /\ UNCHANGED <<slots, wr, made>>
            BY <2>7, <3>1 DEF AdvanceRd, NextRd
        <3> QED
            BY <2>2, <3>2
    <2> QED
        BY <1>3, <2>2, <2>3, <2>4, <2>5, <2>6, <2>7
        DEF Next, Main, Audio, ClockEnter, StoreSample, DropSample, ClockLeave,
            ResetBegin, ResetRd, ResetWr, ProcessEnter, CheckMore,
            ProcessLeave, vars, NextRd, audioVars
<1> QED
    BY <1>1, <1>2, <1>3 DEF Resetting

LEMMA RingStep == TypeOK /\ RingInv /\ [Next]_vars => RingInv'
BY CoreStep, PlaceStep DEF CoreInv, RingInv

\* The waiting samples are in order and the threads agree on the ring in every
\* reachable state: see RingInv.
THEOREM RingInvariant == Spec => []RingInv
<1> QED
    BY TypeCorrect, RingInit, RingStep, PTL DEF Spec

\* process() plays every sample clock() stored, in order, none twice, between
\* any two runs of reset().
THEOREM PlayedInOrder == Spec => HeardInOrder
<1>1. TypeOK /\ RingInv /\ [Next]_vars
      => [~Resetting /\ ~Resetting' => heard' \in {heard, heard + 1}]_vars
    <2> SUFFICES ASSUME TypeOK, RingInv, [Next]_vars, ~Resetting, ~Resetting'
                 PROVE  heard' \in {heard, heard + 1}
        OBVIOUS
    <2>1. CASE Mix
        BY <2>1, MixHearsNext
    <2>2. CASE ResetWr
        BY <2>2 DEF ResetWr, Resetting
    <2>3. CASE heard' = heard
        BY <2>3
    <2> QED
        BY <2>1, <2>2, <2>3
        DEF Next, Main, Audio, ClockEnter, StoreSample, DropSample, ClockLeave,
            ResetBegin, ResetSlot, ResetRd, ProcessEnter, CheckMore,
            ProcessLeave, AdvanceRd, vars
<1> QED
    BY <1>1, TypeCorrect, RingInvariant, PTL DEF Spec, HeardInOrder

-----------------------------------------------------------------------------
(***************************************************************************)
(* The ring implements a bounded queue (module AudioFifo).  The entries of *)
(* the queue are the slots between the indices that hold a sample; InPlace *)
(* says that no two of them hold the same one and that the older is nearer *)
(* to rd_index.                                                            *)
(***************************************************************************)

\* Slots at different places are at different distances.
LEMMA DistanceApart ==
    ASSUME NEW i \in Index, NEW j \in Index, NEW k \in Index,
           Distance(i, k) = Distance(j, k)
    PROVE  i = j
BY DEF Distance, Index

LEMMA AroundTheRing ==
    ASSUME NEW w \in Index
    PROVE  /\ Advance(w) \in Index /\ Advance(w) # w
           /\ Distance(w, w) = 0 /\ Distance(w, Advance(w)) = 1
           /\ Distance(Advance(w), w) = Size - 1
           /\ \A i \in Index : Distance(i, w) \in 0 .. Size - 1
<1>1. /\ Advance(w) \in Index
      /\ Advance(w) = IF w = Size - 1 THEN 0 ELSE w + 1
    BY AdvanceIndex
<1>2. w \in Nat /\ w <= Size - 1 /\ Advance(w) # w
    BY <1>1 DEF Index
<1>3. Distance(w, w) = 0
    BY <1>2 DEF Distance
<1>4. Distance(w, Advance(w)) = 1 /\ Distance(Advance(w), w) = Size - 1
    <2>1. CASE w = Size - 1
        BY <1>1, <1>2, <2>1 DEF Distance
    <2>2. CASE w # Size - 1
        BY <1>1, <1>2, <2>2 DEF Distance
    <2> QED
        BY <2>1, <2>2
<1>5. \A i \in Index : Distance(i, w) \in 0 .. Size - 1
    BY <1>2 DEF Distance, Index
<1> QED
    BY <1>1, <1>2, <1>3, <1>4, <1>5

Holds(i) == Occupied(i) /\ slots[i] # Silence

LEMMA WaitingEntries ==
    /\ \A e : e \in Waiting <=>
          \E i \in Index : Holds(i) /\ e = Fifo!Entry(i, slots[i])
    /\ \A i \in Index : Fifo!Entry(i, slots[i]) \in Waiting => Holds(i)
<1>1. \A e : e \in Waiting <=>
          \E i \in Index : Holds(i) /\ e = Fifo!Entry(i, slots[i])
  BY DEF Waiting, Fifo!Entry, Holds
<1>2. \A i, j : Fifo!Entry(i, slots[i]) = Fifo!Entry(j, slots[j]) => i = j
  BY DEF Fifo!Entry
<1> QED BY <1>1, <1>2

\* A blank ring is an empty queue.
LEMMA NothingWaits ==
    ASSUME \A i \in Index : slots[i] = Silence
    PROVE  Waiting = {}
BY DEF Waiting

\* The entries do not change while what they are made of does not.
LEMMA WaitingKept ==
    ASSUME NextRd' = NextRd, UNCHANGED <<slots, wr>>
    PROVE  Waiting' = Waiting
BY DEF Waiting, Occupied

\* AudioFifo counts as this module does.
LEMMA SameCardinality == \A S : Fifo!Cardinality(S) = Cardinality(S)
BY DEF Fifo!Cardinality, Cardinality

\* A ring that is not full has room in the queue.
LEMMA RoomForOne ==
    ASSUME TypeOK, ~Full, NextRd = rd
    PROVE  Cardinality(Waiting) < Size - 1
<1> DEFINE H == {i \in Index : Holds(i)}
           f == [i \in H |-> Fifo!Entry(i, slots[i])]
           J == (Index \ {wr}) \ {Advance(wr)}
<1>1. rd \in Index /\ wr \in Index /\ Advance(wr) \in Index
    BY AdvanceIndex DEF TypeOK
<1>2. IsFiniteSet(J) /\ Cardinality(J) = Size - 2
    <2>1. IsFiniteSet(Index) /\ Cardinality(Index) = Size
        BY FS_Interval DEF Index
    <2>2. /\ IsFiniteSet(Index \ {wr})
          /\ Cardinality(Index \ {wr}) = Size - 1
        BY <1>1, <2>1, FS_RemoveElement
    <2>3. Advance(wr) \in Index \ {wr}
        BY <1>1, AdvanceIndex DEF Index
    <2> QED
        BY <2>2, <2>3, FS_RemoveElement
<1>3. H \subseteq J
    <2> SUFFICES ASSUME NEW i \in Index, Occupied(i)
                 PROVE  i # wr /\ i # Advance(wr)
        BY DEF Holds
    <2>1. Distance(i, wr) \in 1 .. Distance(rd, wr)
        BY DEF Occupied
    <2>2. /\ Distance(wr, wr) = 0 /\ Distance(Advance(wr), wr) = Size - 1
          /\ Distance(rd, wr) \in 0 .. Size - 1
        BY <1>1, AroundTheRing
    <2>3. Distance(rd, wr) # Size - 1
        BY <1>1, <2>2, DistanceApart DEF Full
    <2> QED
        BY <2>1, <2>2, <2>3
<1>4. f \in Surjection(H, Waiting)
    BY WaitingEntries DEF Surjection
<1> HIDE DEF H, f, J
<1>5. IsFiniteSet(H) /\ Cardinality(H) <= Size - 2
    BY <1>2, <1>3, FS_Subset
<1>6. IsFiniteSet(Waiting) /\ Cardinality(Waiting) <= Cardinality(H)
    BY <1>4, <1>5, FS_Surjection
<1>7. Cardinality(Waiting) \in Nat /\ Cardinality(H) \in Nat
    BY <1>5, <1>6, FS_CardinalityType
<1> QED
    BY <1>5, <1>6, <1>7

\* clock() puts the sample behind the waiting ones.
LEMMA StoreAccepts ==
    ASSUME TypeOK, RingInv, StoreSample
    PROVE  Fifo!Accept
<1> USE DEF TypeOK
<1>1. /\ ~Resetting /\ ~Resetting' /\ heard' = heard
      /\ NextRd = rd /\ NextRd' = rd /\ ~Full
      /\ wr \in Index /\ wr' = Advance(wr) /\ wr' \in Index
      /\ made' = made + 1 /\ made \in Nat
      /\ slots' = [slots EXCEPT ![wr] = made + 1]
      /\ slots \in [Index -> 0 .. MaxSamples] /\ rd \in Index
    BY AdvanceIndex DEF StoreSample, RingInv, LockHeld, NextRd, audioVars,
                        Resetting
<1> HIDE DEF TypeOK
<1>2. Cardinality(Waiting) < Size - 1
    BY <1>1, RoomForOne
<1>3. Distance(rd, wr) \in Nat /\ Distance(rd, wr') = Distance(rd, wr) + 1
    BY <1>1, DistanceFacts DEF Full
<1>4. \A i \in Index : Holds(i)' <=> (Holds(i) \/ i = wr)
    <2> SUFFICES ASSUME NEW i \in Index
                 PROVE  Holds(i)' <=> (Holds(i) \/ i = wr)
        OBVIOUS
    <2>1. CASE i = wr
        <3>1. Distance(wr, wr') = 1
            BY <1>1, AroundTheRing
        <3>2. slots'[wr] # Silence
            BY <1>1 DEF Silence
        <3> QED
            BY <1>1, <1>3, <2>1, <3>1, <3>2 DEF Holds, Occupied
    <2>2. CASE i = wr'
        <3>1. Distance(wr', wr') = 0 /\ wr' # wr
            BY <1>1, AroundTheRing
        <3>2. Distance(wr', wr) = Size - 1 /\ Distance(rd, wr) \in 0 .. Size - 1
            BY <1>1, AroundTheRing
        <3>3. Distance(rd, wr) # Size - 1
            BY <1>1, <3>2, DistanceApart DEF Full
        <3> QED
            BY <1>1, <2>2, <3>1, <3>2, <3>3 DEF Holds, Occupied
    <2>3. CASE i # wr /\ i # wr'
        <3>1. /\ Distance(i, wr) \in Nat \ {0}
              /\ Distance(i, wr') = Distance(i, wr) + 1
            BY <1>1, <2>3, DistanceFacts
        <3>2. slots'[i] = slots[i]
            BY <1>1, <2>3
        <3> QED
            BY <1>1, <1>3, <2>3, <3>1, <3>2 DEF Holds, Occupied
    <2> QED
        BY <2>1, <2>2, <2>3
<1>5. \A e \in Waiting : e.place # wr
    <2>1. ~Holds(wr)
        BY <1>1, DistanceFacts DEF Holds, Occupied
    <2> QED
        BY <2>1, WaitingEntries DEF Fifo!Entry
<1>6. Waiting' = Waiting \cup {Fifo!Entry(wr, made + 1)}
    <2>1. \A e : e \in Waiting' <=>
             \E i \in Index : Holds(i)' /\ e = Fifo!Entry(i, slots'[i])
        BY DEF Waiting, Fifo!Entry, Holds
    <2>2. /\ slots'[wr] = made + 1
          /\ \A i \in Index : i # wr => slots'[i] = slots[i]
        BY <1>1
    <2>3. ~Holds(wr)
        BY <1>1, DistanceFacts DEF Holds, Occupied
    <2>4. \A e : e \in Waiting' <=>
             e \in Waiting \/ e = Fifo!Entry(wr, made + 1)
        BY <1>1, <1>4, <2>1, <2>2, <2>3, WaitingEntries
    <2> QED
        BY <2>4
<1>7. <<heard, Resetting>>' = <<heard, Resetting>>
    BY <1>1, Zenon DEF StoreSample, Resetting
<1> QED
    BY <1>1, <1>2, <1>5, <1>6, <1>7, SameCardinality, Zenon DEF Fifo!Accept

\* process() plays the oldest waiting sample, or silence that is not in the
\* queue.
LEMMA MixHears ==
    ASSUME TypeOK, RingInv, Mix
    PROVE  Fifo!Hear \/ UNCHANGED <<Waiting, made, heard, Resetting>>
<1>1. /\ apc = "mix" /\ NextRd = rd /\ NextRd' = Advance(rdReg')
      /\ rdReg' \in {rd, rdReg} /\ wr' = wr /\ slots' = slots /\ made' = made
      /\ heard' = IF slots[rdReg'] = Silence THEN heard ELSE slots[rdReg']
      /\ rd \in Index /\ rdReg \in Index /\ wr \in Index
    BY DEF Mix, NextRd, TypeOK
<1>2. Resetting' = Resetting
    BY Zenon DEF Mix, mainVars, Resetting
<1>3. CASE \A i \in Index : slots[i] = Silence
    <2>1. heard' = heard /\ Waiting = {} /\ Waiting' = {}
        BY <1>1, <1>3, NothingWaits DEF Waiting
    <2> QED
        BY <1>1, <1>2, <2>1
<1>4. CASE ~(\A i \in Index : slots[i] = Silence)
    <2>1. rdReg = rd /\ rd # wr
        BY <1>1, <1>4 DEF RingInv, Cleared, RegistersCurrent, Blank
    <2> DEFINE d == Distance(rd, wr)
    <2>2. /\ d \in Nat \ {0} /\ Distance(Advance(rd), wr) = d - 1
          /\ Distance(NextRd', wr') = d - 1
        BY <1>1, <2>1, DistanceFacts
    <2>3. \A i \in Index : Distance(i, wr) \in Nat
        BY <1>1, DistanceFacts
    <2>4. Occupied(rd)
        BY <1>1, <2>2 DEF Occupied
    <2>5. \A i \in Index : Occupied(i)' <=> Occupied(i) /\ i # rd
        <3> SUFFICES ASSUME NEW i \in Index
                     PROVE  Occupied(i)' <=> Occupied(i) /\ i # rd
            OBVIOUS
        <3>1. Distance(i, wr) = d <=> i = rd
            BY <1>1, DistanceApart
        <3> HIDE DEF d
        <3>2. (Distance(i, wr) \in 1 .. d - 1) <=> (Distance(i, wr) \in 1 .. d /\ i # rd)
            BY <2>2, <2>3, <3>1
        <3>3. Occupied(i) <=> Distance(i, wr) \in 1 .. d
            BY <1>1 DEF Occupied, d
        <3>4. Occupied(i)' <=> Distance(i, wr) \in 1 .. d - 1
            BY <1>1, <2>2 DEF Occupied
        <3> QED
            BY <3>2, <3>3, <3>4
    <2>6. \A e : e \in Waiting' <=>
             \E i \in Index : Holds(i)' /\ e = Fifo!Entry(i, slots'[i])
        BY DEF Waiting, Fifo!Entry, Holds
    <2>7. \A i \in Index : Holds(i)' <=> Holds(i) /\ i # rd
        BY <1>1, <2>5 DEF Holds
    <2>8. Waiting' = Waiting \ {Fifo!Entry(rd, slots[rd])}
        <3>1. \A e : e \in Waiting' <=>
                 e \in Waiting /\ e # Fifo!Entry(rd, slots[rd])
            BY <1>1, <2>6, <2>7, WaitingEntries DEF Fifo!Entry
        <3> QED
            BY <3>1
    <2>9. CASE slots[rd] = Silence
        <3>1. Fifo!Entry(rd, slots[rd]) \notin Waiting
            BY <1>1, <2>9, WaitingEntries DEF Holds
        <3> QED
            BY <1>1, <1>2, <2>1, <2>8, <2>9, <3>1
    <2>10. CASE slots[rd] # Silence
        <3> DEFINE e == Fifo!Entry(rd, slots[rd])
        <3>1. e \in Waiting /\ e.sample = slots[rd]
            BY <1>1, <2>4, <2>10, WaitingEntries DEF Holds, Fifo!Entry
        <3>2. \A f \in Waiting \ {e} : e.sample < f.sample
            <4> SUFFICES ASSUME NEW f \in Waiting, f # e
                         PROVE  slots[rd] < f.sample
                BY <3>1
            <4>1. PICK i \in Index : Holds(i) /\ f = Fifo!Entry(i, slots[i])
                BY WaitingEntries
            <4>2. i # rd /\ f.sample = slots[i]
                BY <4>1 DEF Fifo!Entry
            <4>3. Distance(i, wr) \in 1 .. d - 1
                <5>1. Distance(i, wr) \in 1 .. d
                    BY <1>1, <4>1 DEF Holds, Occupied
                <5>2. Distance(i, wr) # d
                    BY <1>1, <4>2, DistanceApart
                <5> QED
                    BY <2>2, <2>3, <5>1, <5>2
            <4>4. /\ slots[i] = made + 1 - Distance(i, wr)
                  /\ slots[rd] = made + 1 - Distance(rd, wr)
                BY <1>1, <2>4, <2>10, <4>1 DEF RingInv, InPlace, Holds
            <4>5. made \in Nat
                BY DEF TypeOK
            <4> QED
                BY <2>2, <4>2, <4>3, <4>4, <4>5
        <3>3. heard' = e.sample
            BY <1>1, <2>1, <2>10, <3>1
        <3>4. <<made, Resetting>>' = <<made, Resetting>>
            BY <1>1, <1>2
        <3> HIDE DEF e
        <3>5. Waiting' = Waiting \ {e}
            BY <2>8 DEF e
        <3> QED
            BY <3>1, <3>2, <3>3, <3>4, <3>5, Zenon DEF Fifo!Hear
    <2> QED
        BY <2>9, <2>10
<1> QED
    BY <1>3, <1>4

\* reset() loses the sample whose slot it clears, if there is one.
LEMMA ResetLoses ==
    ASSUME TypeOK, RingInv, ResetSlot
    PROVE  Fifo!Lose \/ UNCHANGED <<Waiting, made, heard, Resetting>>
<1>1. /\ Resetting /\ Resetting' /\ made' = made /\ heard' = heard
      /\ NextRd' = NextRd /\ wr' = wr /\ zeroed \in Index
      /\ slots' = [slots EXCEPT ![zeroed] = Silence]
      /\ slots \in [Index -> 0 .. MaxSamples]
    BY DEF ResetSlot, Resetting, NextRd, audioVars, TypeOK
<1>2. Resetting' = Resetting
    BY DEF ResetSlot, Resetting
<1>3. \A i \in Index : Holds(i)' <=> Holds(i) /\ i # zeroed
    BY <1>1 DEF Holds, Occupied
<1>4. \A e : e \in Waiting' <=>
         \E i \in Index : Holds(i)' /\ e = Fifo!Entry(i, slots'[i])
    BY DEF Waiting, Fifo!Entry, Holds
<1>5. Waiting' = Waiting \ {Fifo!Entry(zeroed, slots[zeroed])}
    <2>1. \A e : e \in Waiting' <=>
             e \in Waiting /\ e # Fifo!Entry(zeroed, slots[zeroed])
        BY <1>1, <1>3, <1>4, WaitingEntries DEF Fifo!Entry
    <2> QED
        BY <2>1
<1>6. CASE Fifo!Entry(zeroed, slots[zeroed]) \in Waiting
    <2>1. <<made, heard, Resetting>>' = <<made, heard, Resetting>>
        BY <1>1, <1>2
    <2> QED
        BY <1>1, <1>5, <1>6, <2>1, Zenon DEF Fifo!Lose
<1>7. CASE Fifo!Entry(zeroed, slots[zeroed]) \notin Waiting
    BY <1>1, <1>2, <1>5, <1>7
<1> QED
    BY <1>6, <1>7

\* The last store of reset() ends with nothing left to be heard.
LEMMA ResetEnds ==
    ASSUME TypeOK, RingInv, ResetWr
    PROVE  Fifo!EndFlush
<1>1. /\ Resetting /\ ~Resetting' /\ made' = 0 /\ heard' = 0
      /\ \A i \in Index : slots[i] = Silence
      /\ slots' = slots
    BY DEF ResetWr, Resetting, RingInv, Cleared
<1>2. Waiting = {} /\ Waiting' = {}
    BY <1>1, NothingWaits DEF Waiting
<1>3. Resetting' = FALSE
    BY DEF ResetWr, Resetting
<1> QED
    BY <1>1, <1>2, <1>3, Zenon DEF Fifo!EndFlush

\* Every step of the threads is one of the queue or none.
LEMMA RingSteps ==
    ASSUME TypeOK, RingInv, [Next]_vars
    PROVE  [Fifo!Next]_(Fifo!fifoVars)
<1>1. UNCHANGED <<Waiting, made, heard, Resetting>>
         => UNCHANGED Fifo!fifoVars
    BY Zenon DEF Fifo!fifoVars
<1>2. CASE StoreSample
    BY <1>2, StoreAccepts, Zenon DEF Fifo!Next
<1>3. CASE Mix
    BY <1>1, <1>3, MixHears, Zenon DEF Fifo!Next
<1>4. CASE ResetBegin
    <2>1. /\ NextRd' = NextRd /\ UNCHANGED <<slots, wr, made, heard>>
          /\ ~Resetting
        BY <1>4 DEF ResetBegin, NextRd, audioVars, Resetting
    <2>2. Resetting' = TRUE
        BY <1>4 DEF ResetBegin, Resetting
    <2>3. <<Waiting, made, heard>>' = <<Waiting, made, heard>>
        BY <2>1, WaitingKept
    <2> QED
        BY <2>1, <2>2, <2>3, Zenon DEF Fifo!Next, Fifo!StartFlush
<1>5. CASE ResetSlot
    BY <1>1, <1>5, ResetLoses, Zenon DEF Fifo!Next
<1>6. CASE ResetWr
    BY <1>6, ResetEnds, Zenon DEF Fifo!Next
<1>7. CASE ResetRd
    <2>1. /\ \A i \in Index : slots[i] = Silence
          /\ UNCHANGED <<slots, made, heard>>
        BY <1>7 DEF ResetRd, RingInv, Cleared
    <2>2. Waiting = {} /\ Waiting' = {}
        BY <2>1, NothingWaits DEF Waiting
    <2>3. Resetting' = Resetting
        BY <1>7 DEF ResetRd, Resetting
    <2> QED
        BY <1>1, <2>1, <2>2, <2>3
<1>8. CASE AdvanceRd
    <2>1. Resetting' = Resetting
        BY <1>8, Zenon DEF AdvanceRd, mainVars, Resetting
    <2>2. CASE \A i \in Index : slots[i] = Silence
        <3>1. Waiting = {} /\ Waiting' = {} /\ UNCHANGED <<made, heard>>
            BY <1>8, <2>2, NothingWaits DEF AdvanceRd, Waiting
        <3> QED
            BY <1>1, <2>1, <3>1
    <2>3. CASE ~(\A i \in Index : slots[i] = Silence)
        <3>1. rdReg = rd
            BY <1>8, <2>3
            DEF AdvanceRd, RingInv, Cleared, RegistersCurrent, Blank, TypeOK
        <3>2. NextRd' = NextRd /\ UNCHANGED <<slots, wr, made, heard>>
            BY <1>8, <3>1 DEF AdvanceRd, NextRd
        <3> QED
            BY <1>1, <2>1, <3>2, WaitingKept
    <2> QED
        BY <2>2, <2>3
<1>9. CASE \/ ClockEnter \/ DropSample \/ ClockLeave
           \/ ProcessEnter \/ CheckMore \/ ProcessLeave \/ UNCHANGED vars
    <2>1. NextRd' = NextRd /\ UNCHANGED <<slots, wr, made, heard>>
        BY <1>9 DEF ClockEnter, DropSample, ClockLeave, ProcessEnter,
            CheckMore, ProcessLeave, vars, NextRd, audioVars
    <2>2. Resetting' = Resetting
        BY <1>9 DEF ClockEnter, DropSample, ClockLeave, ProcessEnter,
            CheckMore, ProcessLeave, vars, mainVars, Resetting
    <2> QED
        BY <1>1, <2>1, <2>2, WaitingKept
<1> QED
    BY <1>2, <1>3, <1>4, <1>5, <1>6, <1>7, <1>8, <1>9 DEF Next, Main, Audio

\* The ring implements a queue: a sample that clock() stored is played once,
\* after every sample stored before it, unless a reset() loses it; after the
\* reset() nothing of before is played, although process() may have gone on
\* with the indices of before.
THEOREM RingImplementsFifo == Spec => RingIsFifo
<1>1. Init => Fifo!Init
    <2> SUFFICES ASSUME Init PROVE Fifo!Init
        OBVIOUS
    <2>1. Waiting = {} /\ made = 0 /\ heard = 0
        BY NothingWaits DEF Init
    <2>2. Resetting = FALSE
        BY DEF Init, Resetting
    <2> QED
        BY <2>1, <2>2, Zenon DEF Fifo!Init
<1>2. TypeOK /\ RingInv /\ [Next]_vars => [Fifo!Next]_(Fifo!fifoVars)
    BY RingSteps
<1> QED
    BY <1>1, <1>2, TypeCorrect, RingInvariant, PTL
    DEF Spec, RingIsFifo, Fifo!Spec
=============================================================================
