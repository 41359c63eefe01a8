-------------------------- MODULE Admission_proofs --------------------------
(* Proofs about module Admission: for any questions, addresses, users and  *)
(* sessions and any sizes, the gate's counts are the questions in flight.  *)
EXTENDS Admission, FiniteSetTheorems, TLAPS

(* What the gate's counts mean, in a form every step preserves: the slots  *)
(* counted are as many as the questions that hold one.                     *)
GateTypes ==
  /\ inFlight \in [Ips -> Nat]
  /\ stage \in [Questions -> Stages]

CountsAgree ==
  /\ \A i \in Ips : inFlight[i] = Cardinality(HoldersFrom(i)) /\ inFlight[i] <= PerIp
  /\ IsFiniteSet(Slots(inFlight))
  /\ Cardinality(Slots(inFlight)) = Cardinality(Holders)
  /\ Cardinality(Holders) <= Total

IInv == GateTypes /\ CountsAgree

(* Of finitely many questions finitely many hold a slot. *)
LEMMA HoldersFinite ==
  /\ IsFiniteSet(Holders)
  /\ \A i \in Ips : IsFiniteSet(HoldersFrom(i))
<1>1. IsFiniteSet(Questions) BY AdmissionAssumption
<1>2. Holders \subseteq Questions BY DEF Holders
<1>3. \A i \in Ips : HoldersFrom(i) \subseteq Questions BY DEF HoldersFrom, Holders
<1>4. IsFiniteSet(Holders) BY <1>1, <1>2, FS_Subset
<1>5. \A i \in Ips : IsFiniteSet(HoldersFrom(i)) BY <1>1, <1>3, FS_Subset
<1>6. QED BY <1>4, <1>5

(* ConcurrencyGate.__init__: nobody in flight, nothing counted. *)
LEMMA InitIInv == Init => IInv
<1> SUFFICES ASSUME Init PROVE IInv OBVIOUS
<1> USE DEF Init
<1>1. GateTypes BY DEF GateTypes, Stages
<1>2. Holders = {} BY DEF Holders, Holding
<1>3. \A i \in Ips : HoldersFrom(i) = {} BY <1>2 DEF HoldersFrom
<1>4. Slots(inFlight) = {} BY DEF Slots
<1>5. IsFiniteSet({}) /\ Cardinality({}) = 0 BY FS_EmptySet
<1>6. Total \in Nat /\ PerIp \in Nat BY AdmissionAssumption
<1>7. CountsAgree
  <2>1. \A i \in Ips : inFlight[i] = Cardinality(HoldersFrom(i)) /\ inFlight[i] <= PerIp
    <3> TAKE i \in Ips
    <3>1. inFlight[i] = 0 OBVIOUS
    <3>2. Cardinality(HoldersFrom(i)) = 0 BY <1>3, <1>5
    <3>3. QED BY <3>1, <3>2, <1>6
  <2>2. IsFiniteSet(Slots(inFlight)) /\ Cardinality(Slots(inFlight)) = Cardinality(Holders)
    BY <1>2, <1>4, <1>5
  <2>3. Cardinality(Holders) <= Total BY <1>2, <1>5, <1>6
  <2>4. QED BY <2>1, <2>2, <2>3 DEF CountsAgree
<1>8. QED BY <1>1, <1>7 DEF IInv

(* A step that neither takes nor frees a slot. *)
LEMMA SlotsLeftAlone ==
  ASSUME IInv, stage' \in [Questions -> Stages], inFlight' = inFlight,
         \A q \in Questions : stage'[q] \in Holding <=> stage[q] \in Holding
  PROVE  IInv'
<1>1. Holders' = Holders BY DEF Holders
<1>2. \A i \in Ips : HoldersFrom(i)' = HoldersFrom(i) BY <1>1 DEF HoldersFrom
<1>3. Slots(inFlight)' = Slots(inFlight) BY DEF Slots
<1>4. QED BY <1>1, <1>2, <1>3 DEF IInv, GateTypes, CountsAgree

(* ConcurrencyGate.hold lets one question in. *)
LEMMA SlotTaken ==
  ASSUME IInv, NEW q \in Questions, stage[q] = "idle", GateOpen(q),
         inFlight' = [inFlight EXCEPT ![IpOf[q]] = @ + 1],
         Go(q, "charging")
  PROVE  IInv'
<1> DEFINE ip == IpOf[q]
           slot == <<ip, inFlight[ip] + 1>>
<1>1. ip \in Ips BY AdmissionAssumption
<1>2. inFlight \in [Ips -> Nat] /\ stage \in [Questions -> Stages] BY DEF IInv, GateTypes
<1>3. inFlight' \in [Ips -> Nat] /\ stage' \in [Questions -> Stages]
  BY <1>1, <1>2 DEF Go, Stages
<1>4. q \notin Holders BY DEF Holders, Holding
<1>5. Holders' = Holders \cup {q}
  BY <1>2 DEF Holders, Holding, Go
<1>6. HoldersFrom(ip)' = HoldersFrom(ip) \cup {q} BY <1>5 DEF HoldersFrom
<1>7. \A i \in Ips \ {ip} : HoldersFrom(i)' = HoldersFrom(i) BY <1>5 DEF HoldersFrom
<1>8. Slots(inFlight)' = Slots(inFlight) \cup {slot}
  <2>1. inFlight'[ip] = inFlight[ip] + 1 /\ \A i \in Ips \ {ip} : inFlight'[i] = inFlight[i]
    BY <1>1, <1>2
  <2>2. 1..(inFlight[ip] + 1) = (1..inFlight[ip]) \cup {inFlight[ip] + 1}
    BY <1>1, <1>2
  <2>3. QED BY <1>1, <2>1, <2>2 DEF Slots
<1>9. slot \notin Slots(inFlight) BY <1>1, <1>2 DEF Slots
<1>10. Cardinality(Holders') = Cardinality(Holders) + 1
  BY <1>4, <1>5, HoldersFinite, FS_AddElement
<1>11. Cardinality(HoldersFrom(ip)') = Cardinality(HoldersFrom(ip)) + 1
  <2>1. q \notin HoldersFrom(ip) BY <1>4 DEF HoldersFrom
  <2>2. IsFiniteSet(HoldersFrom(ip)) BY <1>1, HoldersFinite
  <2>3. QED BY <1>6, <2>1, <2>2, FS_AddElement
<1>12. /\ IsFiniteSet(Slots(inFlight)')
       /\ Cardinality(Slots(inFlight)') = Cardinality(Slots(inFlight)) + 1
  <2>1. IsFiniteSet(Slots(inFlight)) BY DEF IInv, CountsAgree
  <2> HIDE DEF slot
  <2>2. /\ IsFiniteSet(Slots(inFlight) \cup {slot})
        /\ Cardinality(Slots(inFlight) \cup {slot}) = Cardinality(Slots(inFlight)) + 1
    BY <1>9, <2>1, FS_AddElement
  <2>3. QED BY <1>8, <2>2
<1>13. \A i \in Ips : inFlight'[i] = Cardinality(HoldersFrom(i)') /\ inFlight'[i] <= PerIp
  <2> TAKE i \in Ips
  <2>1. CASE i = ip
    <3>1. inFlight[ip] = Cardinality(HoldersFrom(ip)) BY <1>1 DEF IInv, CountsAgree
    <3>2. inFlight'[ip] = inFlight[ip] + 1 BY <1>1, <1>2
    <3>3. inFlight[ip] < PerIp /\ PerIp \in Nat /\ inFlight[ip] \in Nat
      BY <1>1, <1>2, AdmissionAssumption DEF GateOpen
    <3>4. inFlight'[ip] = Cardinality(HoldersFrom(ip)') BY <1>11, <3>1, <3>2
    <3>5. inFlight'[ip] <= PerIp BY <3>2, <3>3
    <3>6. QED BY <2>1, <3>4, <3>5
  <2>2. CASE i # ip
    <3>1. inFlight'[i] = inFlight[i] BY <1>1, <1>2, <2>2
    <3>2. QED BY <1>7, <2>2, <3>1 DEF IInv, CountsAgree
  <2>3. QED BY <2>1, <2>2
<1>14. Cardinality(Holders)' <= Total
  <2>1. Cardinality(Slots(inFlight)) < Total BY DEF GateOpen
  <2>2. Cardinality(Slots(inFlight)) = Cardinality(Holders) BY DEF IInv, CountsAgree
  <2>3. Cardinality(Holders) \in Nat BY HoldersFinite, FS_CardinalityType
  <2>4. Total \in Nat BY AdmissionAssumption
  <2>5. QED BY <1>10, <2>1, <2>2, <2>3, <2>4
<1>15. Cardinality(Slots(inFlight))' = Cardinality(Holders)'
  BY <1>10, <1>12 DEF IInv, CountsAgree
<1>16. CountsAgree' BY <1>12, <1>13, <1>14, <1>15 DEF CountsAgree
<1>17. QED BY <1>3, <1>16 DEF IInv, GateTypes

(* The `finally` of hold, by whichever way it is reached. *)
LEMMA SlotFreed ==
  ASSUME IInv, NEW q \in Questions, stage[q] \in Holding,
         NEW s \in Stages \ Holding,
         inFlight' = [inFlight EXCEPT ![IpOf[q]] = @ - 1],
         Go(q, s)
  PROVE  IInv'
<1> DEFINE ip == IpOf[q]
           slot == <<ip, inFlight[ip]>>
<1>1. ip \in Ips BY AdmissionAssumption
<1>2. inFlight \in [Ips -> Nat] /\ stage \in [Questions -> Stages] BY DEF IInv, GateTypes
<1>3. q \in Holders /\ q \in HoldersFrom(ip) BY DEF Holders, HoldersFrom
<1>4. Holders' = Holders \ {q} BY <1>2 DEF Holders, Go
<1>5. HoldersFrom(ip)' = HoldersFrom(ip) \ {q} BY <1>4 DEF HoldersFrom
<1>6. \A i \in Ips \ {ip} : HoldersFrom(i)' = HoldersFrom(i) BY <1>4 DEF HoldersFrom
<1>7. Cardinality(Holders') = Cardinality(Holders) - 1
  BY <1>3, <1>4, HoldersFinite, FS_RemoveElement
<1>8. Cardinality(HoldersFrom(ip)') = Cardinality(HoldersFrom(ip)) - 1
  <2>1. IsFiniteSet(HoldersFrom(ip)) BY <1>1, HoldersFinite
  <2>2. QED BY <1>3, <1>5, <2>1, FS_RemoveElement
<1>9. inFlight[ip] = Cardinality(HoldersFrom(ip)) BY <1>1 DEF IInv, CountsAgree
<1>10. inFlight[ip] \in Nat \ {0}
  <2>1. IsFiniteSet(HoldersFrom(ip)) BY <1>1, HoldersFinite
  <2>2. Cardinality(HoldersFrom(ip)) # 0 BY <1>3, <2>1, FS_EmptySet
  <2>3. QED BY <1>1, <1>2, <1>9, <2>2
<1>11. inFlight' \in [Ips -> Nat] /\ stage' \in [Questions -> Stages]
  BY <1>1, <1>2, <1>10 DEF Go
<1>12. Slots(inFlight)' = Slots(inFlight) \ {slot}
  <2>1. inFlight'[ip] = inFlight[ip] - 1 /\ \A i \in Ips \ {ip} : inFlight'[i] = inFlight[i]
    BY <1>1, <1>2
  <2>2. 1..(inFlight[ip] - 1) = (1..inFlight[ip]) \ {inFlight[ip]}
    BY <1>10
  <2>3. QED BY <1>1, <2>1, <2>2 DEF Slots
<1>13. slot \in Slots(inFlight) BY <1>1, <1>10 DEF Slots
<1>14. /\ IsFiniteSet(Slots(inFlight)')
       /\ Cardinality(Slots(inFlight)') = Cardinality(Slots(inFlight)) - 1
  <2>1. IsFiniteSet(Slots(inFlight)) BY DEF IInv, CountsAgree
  <2> HIDE DEF slot
  <2>2. QED BY <1>12, <1>13, <2>1, FS_RemoveElement
<1>15. \A i \in Ips : inFlight'[i] = Cardinality(HoldersFrom(i)') /\ inFlight'[i] <= PerIp
  <2> TAKE i \in Ips
  <2>1. CASE i = ip
    <3>1. inFlight'[ip] = inFlight[ip] - 1 BY <1>1, <1>2
    <3>2. inFlight[ip] <= PerIp /\ PerIp \in Nat BY <1>1, AdmissionAssumption DEF IInv, CountsAgree
    <3>3. inFlight'[ip] = Cardinality(HoldersFrom(ip)') BY <1>8, <1>9, <3>1
    <3>4. inFlight'[ip] <= PerIp BY <1>10, <3>1, <3>2
    <3>5. QED BY <2>1, <3>3, <3>4
  <2>2. CASE i # ip
    <3>1. inFlight'[i] = inFlight[i] BY <1>1, <1>2, <2>2
    <3>2. QED BY <1>6, <2>2, <3>1 DEF IInv, CountsAgree
  <2>3. QED BY <2>1, <2>2
<1>16. Cardinality(Holders)' <= Total
  <2>1. Cardinality(Holders) \in Nat BY HoldersFinite, FS_CardinalityType
  <2>2. Cardinality(Holders) <= Total BY DEF IInv, CountsAgree
  <2>3. Total \in Nat BY AdmissionAssumption
  <2>4. QED BY <1>7, <2>1, <2>2, <2>3
<1>17. Cardinality(Slots(inFlight))' = Cardinality(Holders)'
  BY <1>7, <1>14 DEF IInv, CountsAgree
<1>18. CountsAgree' BY <1>14, <1>15, <1>16, <1>17 DEF CountsAgree
<1>19. QED BY <1>11, <1>18 DEF IInv, GateTypes

(* Every step of every question, and the clock. *)
LEMMA NextIInv == IInv /\ [Next]_vars => IInv'
<1> SUFFICES ASSUME IInv, [Next]_vars PROVE IInv' OBVIOUS
<1>1. stage \in [Questions -> Stages] BY DEF IInv, GateTypes
<1>2. CASE UNCHANGED vars
  BY <1>1, <1>2, SlotsLeftAlone DEF vars
<1>3. CASE Tick
  BY <1>1, <1>3, SlotsLeftAlone DEF Tick
<1>4. ASSUME NEW q \in Questions, EnterGate(q) PROVE IInv'
  <2>1. CASE GateOpen(q)
    BY <1>4, <2>1, SlotTaken DEF EnterGate
  <2>2. CASE ~GateOpen(q)
    <3>1. Go(q, "busy") /\ inFlight' = inFlight /\ stage[q] = "idle" BY <1>4, <2>2 DEF EnterGate
    <3>2. stage' \in [Questions -> Stages] BY <1>1, <3>1 DEF Go, Stages
    <3>3. \A p \in Questions : stage'[p] \in Holding <=> stage[p] \in Holding
      BY <1>1, <3>1 DEF Go, Holding
    <3>4. QED BY <3>1, <3>2, <3>3, SlotsLeftAlone
  <2>3. QED BY <2>1, <2>2
<1>5. ASSUME NEW q \in Questions, Progress(q) PROVE IInv'
  <2>1. ASSUME NEW s \in Holding, stage[q] \in Holding, Go(q, s), inFlight' = inFlight
        PROVE  IInv'
    <3>1. stage' \in [Questions -> Stages] BY <1>1, <2>1 DEF Go, Stages, Holding
    <3>2. \A p \in Questions : stage'[p] \in Holding <=> stage[p] \in Holding
      BY <1>1, <2>1 DEF Go
    <3>3. QED BY <2>1, <3>1, <3>2, SlotsLeftAlone
  <2>0. CASE ReadClock(q)
    BY <1>1, <2>0, SlotsLeftAlone DEF ReadClock
  <2>2. CASE Charge(q)
    BY <2>1, <2>2 DEF Charge, Holding
  <2>3. CASE UndoCharge(q)
    BY <1>1, <2>3, SlotsLeftAlone DEF UndoCharge
  <2>4. CASE Refuse(q)
    BY <2>4, SlotFreed DEF Refuse, Stages, Holding
  <2>5. CASE StartThread(q)
    BY <2>1, <2>5 DEF StartThread, Holding
  <2>6. CASE StartFails(q)
    BY <2>6, SlotFreed DEF StartFails, FreedByRoute, Stages, Holding
  <2>7. CASE Answer(q)
    BY <2>1, <2>7 DEF Answer, After, Holding
  <2>8. CASE RefundOne(q)
    BY <2>1, <2>8 DEF RefundOne, After, Holding
  <2>9. CASE Leave(q)
    <3>1. After("leaving") = "telling" BY DEF After
    <3>2. QED BY <2>9, <3>1, SlotFreed DEF Leave, Stages, Holding
  <2>10. CASE Tell(q)
    <3>1. After("telling") = "done" BY DEF After
    <3>2. Go(q, "done") /\ stage[q] = "telling" /\ inFlight' = inFlight BY <2>10, <3>1 DEF Tell
    <3>3. stage' \in [Questions -> Stages] BY <1>1, <3>2 DEF Go, Stages
    <3>4. \A p \in Questions : stage'[p] \in Holding <=> stage[p] \in Holding
      BY <1>1, <3>2 DEF Go, Holding
    <3>5. QED BY <3>2, <3>3, <3>4, SlotsLeftAlone
  <2>11. QED
    BY <1>5, <2>0, <2>2, <2>3, <2>4, <2>5, <2>6, <2>7, <2>8, <2>9, <2>10 DEF Progress
<1>6. QED BY <1>2, <1>3, <1>4, <1>5 DEF Next

(* The gate's counts are exact at every moment of every behaviour. *)
THEOREM Invariance == Spec => []IInv
BY InitIInv, NextIInv, PTL DEF Spec

(* The gate never admits more than its sizes, and frees a slot exactly     *)
(* when its question is over, however it ends: ConcurrencyGate.hold.       *)
THEOREM GateIsExact == Spec => []SlotsExact
<1>1. IInv => SlotsExact BY DEF IInv, CountsAgree, SlotsExact
<1>2. QED BY <1>1, Invariance, PTL

-----------------------------------------------------------------------------
(* What a counter shows against what was charged to it.  Counting hits     *)
(* counted after any moment at all, rather than those still inside the     *)
(* window, makes the claim inductive: a refund takes the hit stored last,  *)
(* so it takes one counted after the moment whenever there is one.         *)
NewerThan(S, moment) == {h \in S : h.counted > moment}

(* The charge of q to c has been given back, as far as q's loop has come.  *)
GivenBack(q, c) ==
  \/ Free(q)
  \/ stage[q] = "undoing" /\ \E j \in 1..step[q] : Charges(q)[j] = c
  \/ stage[q] = "refunding" /\ \E j \in 1..step[q] : Refunds(q)[j] = c

ChargedAfter(q, c, moment) ==
  \E i \in 1..Len(charges[q]) : Charges(q)[i] = c /\ charges[q][i] > moment

Outstanding(c, moment) == {q \in Questions : ~GivenBack(q, c) /\ ChargedAfter(q, c, moment)}

Covered ==
  \A c \in Counters, moment \in Int :
    Cardinality(NewerThan(hits[c], moment)) <= Cardinality(Outstanding(c, moment))

(* How far a question has come with its charges and refunds, by its stage. *)
Entry(q) ==
  /\ charges[q] \in Seq(Nat) /\ Len(charges[q]) <= 5 /\ step[q] \in 0..5
  /\ stage[q] \in {"idle", "busy"} => charges[q] = <<>> /\ step[q] = 0
  /\ stage[q] = "charging" => Len(charges[q]) = step[q] /\ step[q] < 5
  /\ stage[q] = "undoing" => step[q] <= Len(charges[q])
  /\ stage[q] \in {"admitted", "answering"} => step[q] = 0
  /\ stage[q] = "refunding" => step[q] < 5 /\ cached[q]
  /\ cached[q] => stage[q] \in {"refunding", "leaving", "telling", "done"}

Ledger ==
  /\ now \in Nat
  /\ hits \in [Counters -> SUBSET Hit] /\ \A c \in Counters : IsFiniteSet(hits[c])
  /\ stage \in [Questions -> Stages] /\ DOMAIN step = Questions /\ DOMAIN charges = Questions
  /\ cached \in [Questions -> BOOLEAN]
  /\ \A q \in Questions : Entry(q)

CountInv == Ledger /\ Covered

(* A counter's list is in the order in which its hits were counted, which  *)
(* need not be the order of the times that were read.                      *)
Listed ==
  /\ read \in [Questions -> Int]
  /\ \A q \in Questions : read[q] = NotRead \/ read[q] \in 0..now
  /\ \A c \in Counters : \A h \in hits[c] : h.at <= h.counted /\ h.counted <= now
  /\ \A c \in Counters : \A g, h \in hits[c] : /\ g.n = h.n => g = h
                                               /\ g.n < h.n => g.counted <= h.counted

(* The five counters of a question are five, in whichever order.           *)
LEMMA FiveCounters ==
  ASSUME NEW q \in Questions
  PROVE  /\ Len(Charges(q)) = 5 /\ Len(Refunds(q)) = 5
         /\ \A i \in 1..5 : Charges(q)[i] \in Counters /\ Refunds(q)[i] \in Counters
         /\ \A i, j \in 1..5 : Charges(q)[i] = Charges(q)[j] => i = j
         /\ \A i, j \in 1..5 : Refunds(q)[i] = Refunds(q)[j] => i = j
         /\ \A i \in 1..5 : \E j \in 1..5 : Charges(q)[i] = Refunds(q)[j]
<1>1. IpOf[q] \in Ips /\ UserOf[q] \in Users /\ SessionOf[q] \in Sessions /\ IpOf[q] # UserOf[q]
  BY AdmissionAssumption
<1> DEFINE a == <<"hour", IpOf[q]>>
           b == <<"day", IpOf[q]>>
           c == <<"hour", UserOf[q]>>
           d == <<"day", UserOf[q]>>
           e == <<"session", SessionOf[q]>>
<1>2. /\ a \in Counters /\ b \in Counters /\ c \in Counters /\ d \in Counters /\ e \in Counters
      /\ a # b /\ a # c /\ a # d /\ a # e /\ b # c /\ b # d /\ b # e /\ c # d /\ c # e /\ d # e
  BY <1>1 DEF Counters
<1>3. Charges(q) = <<a, b, c, d, e>> /\ Refunds(q) = <<a, b, e, c, d>> BY DEF Charges, Refunds
<1> HIDE DEF a, b, c, d, e
<1>4. /\ Charges(q)[1] = a /\ Charges(q)[2] = b /\ Charges(q)[3] = c /\ Charges(q)[4] = d /\ Charges(q)[5] = e
      /\ Refunds(q)[1] = a /\ Refunds(q)[2] = b /\ Refunds(q)[3] = e /\ Refunds(q)[4] = c /\ Refunds(q)[5] = d
      /\ Len(Charges(q)) = 5 /\ Len(Refunds(q)) = 5
  BY <1>3
<1>5. \A i \in 1..5 : i = 1 \/ i = 2 \/ i = 3 \/ i = 4 \/ i = 5 OBVIOUS
<1>6. \A i \in 1..5 : Charges(q)[i] \in Counters /\ Refunds(q)[i] \in Counters BY <1>2, <1>4, <1>5
<1>7. \A i, j \in 1..5 : Charges(q)[i] = Charges(q)[j] => i = j BY <1>2, <1>4, <1>5
<1>8. \A i, j \in 1..5 : Refunds(q)[i] = Refunds(q)[j] => i = j BY <1>2, <1>4, <1>5
<1>9. \A i \in 1..5 : \E j \in 1..5 : Charges(q)[i] = Refunds(q)[j]
  <2>1. 1 \in 1..5 /\ 2 \in 1..5 /\ 3 \in 1..5 /\ 4 \in 1..5 /\ 5 \in 1..5 OBVIOUS
  <2>2. QED BY <1>4, <1>5, <2>1
<1>10. QED BY <1>4, <1>6, <1>7, <1>8, <1>9

LEMMA FewerAreFewer ==
  ASSUME NEW S, IsFiniteSet(S), NEW T \in SUBSET S
  PROVE  /\ IsFiniteSet(T) /\ Cardinality(T) \in Nat /\ Cardinality(S) \in Nat
         /\ Cardinality(T) <= Cardinality(S)
BY FS_Subset, FS_CardinalityType

LEMMA OutstandingFinite ==
  ASSUME NEW c, NEW moment
  PROVE  IsFiniteSet(Outstanding(c, moment)) /\ IsFiniteSet(Outstanding(c, moment)')
<1>1. Outstanding(c, moment) \subseteq Questions /\ Outstanding(c, moment)' \subseteq Questions
  BY DEF Outstanding
<1>2. QED BY <1>1, AdmissionAssumption, FS_Subset

(* No hit is added and no question's charge is given back.                 *)
LEMMA NothingCounted ==
  ASSUME CountInv, Ledger', \A c \in Counters : hits'[c] \subseteq hits[c],
         \A c \in Counters, moment \in Int : Outstanding(c, moment) \subseteq Outstanding(c, moment)'
  PROVE  Covered'
<1> SUFFICES ASSUME NEW c \in Counters, NEW moment \in Int
             PROVE  Cardinality(NewerThan(hits'[c], moment)) <= Cardinality(Outstanding(c, moment)')
  BY DEF Covered
<1>1. IsFiniteSet(NewerThan(hits[c], moment)) BY FS_Subset DEF CountInv, Ledger, NewerThan
<1>2. NewerThan(hits'[c], moment) \subseteq NewerThan(hits[c], moment) BY DEF NewerThan
<1>3. /\ Cardinality(NewerThan(hits'[c], moment)) <= Cardinality(NewerThan(hits[c], moment))
      /\ Cardinality(NewerThan(hits'[c], moment)) \in Nat /\ Cardinality(NewerThan(hits[c], moment)) \in Nat
  BY <1>1, <1>2, FewerAreFewer
<1>4. /\ Cardinality(Outstanding(c, moment)) <= Cardinality(Outstanding(c, moment)')
      /\ Cardinality(Outstanding(c, moment)) \in Nat /\ Cardinality(Outstanding(c, moment)') \in Nat
  BY OutstandingFinite, FewerAreFewer
<1>5. Cardinality(NewerThan(hits[c], moment)) <= Cardinality(Outstanding(c, moment)) BY DEF CountInv, Covered
<1>6. QED BY <1>3, <1>4, <1>5

(* Every set of natural numbers has a least one.                               *)
LEMMA Least ==
  ASSUME NEW T, T \subseteq Nat, T # {}
  PROVE  \E m \in T : \A k \in T : m <= k
<1>1. IsWellFoundedOn(OpToRel(<, Nat), Nat) BY NatLessThanWellFounded
<1>2. PICK m \in T : \A k \in T : ~(<<k, m>> \in OpToRel(<, Nat)) BY <1>1, WFMin
<1>3. \A k \in T : ~(k < m) BY <1>2 DEF OpToRel
<1>4. QED BY <1>3

(* The last of a list is there to be taken.                                *)
LEMMA NewestThere ==
  ASSUME NEW H \in SUBSET Hit, IsFiniteSet(H), H # {}
  PROVE  /\ Newest(H) \in H /\ \A g \in H : g.n <= Newest(H).n
         /\ Newest(H).n \in Nat
<1> DEFINE Bad == {n \in Nat : \E S \in SUBSET H : Cardinality(S) = n /\ S # {} /\
                                 ~ \E h \in S : \A g \in S : g.n <= h.n}
<1>1. \A h \in H : h.n \in Nat BY DEF Hit
<1>2. IsFiniteSet(H) OBVIOUS
<1>3. Bad = {}
  <2> SUFFICES ASSUME Bad # {} PROVE FALSE OBVIOUS
  <2>1. PICK n \in Bad : \A k \in Bad : n <= k
    <3>1. Bad \subseteq Nat OBVIOUS
    <3>2. QED BY <3>1, Least
  <2>2. PICK S \in SUBSET H : Cardinality(S) = n /\ S # {} /\ ~ \E h \in S : \A g \in S : g.n <= h.n
    BY <2>1
  <2>3. PICK x \in S : TRUE BY <2>2
  <2>4. IsFiniteSet(S) /\ IsFiniteSet(S \ {x}) BY <1>2, FS_Subset
  <2>5. n \in Nat /\ Cardinality(S \ {x}) \in Nat /\ Cardinality(S \ {x}) = n - 1
    BY <2>2, <2>3, <2>4, FS_RemoveElement, FS_CardinalityType
  <2>6. n - 1 \notin Bad BY <2>1, <2>5
  <2> HIDE DEF Bad
  <2>7. CASE S \ {x} = {} BY <1>1, <2>2, <2>3, <2>7
  <2>8. CASE S \ {x} # {}
    <3>1. PICK h \in S \ {x} : \A g \in S \ {x} : g.n <= h.n
      <4>1. S \ {x} \in SUBSET H OBVIOUS
      <4>2. QED BY <2>5, <2>6, <2>8, <4>1 DEF Bad
    <3>2. x.n \in Nat /\ \A g \in S : g.n \in Nat BY <1>1, <2>2, <2>3
    <3>3. CASE x.n <= h.n BY <2>2, <2>3, <3>1, <3>3
    <3>4. CASE ~(x.n <= h.n)
      <4>1. \A g \in S : g.n <= x.n BY <3>1, <3>2, <3>4
      <4>2. QED BY <2>2, <2>3, <4>1
    <3>5. QED BY <3>3, <3>4
  <2>9. QED BY <2>7, <2>8
<1>4. Cardinality(H) \in Nat BY <1>2, FS_CardinalityType
<1>5. \E h \in H : \A g \in H : g.n <= h.n BY <1>3, <1>4
<1>6. Newest(H) \in H /\ \A g \in H : g.n <= Newest(H).n BY <1>5 DEF Newest
<1>7. QED BY <1>1, <1>6

(* A new hit's place is after those it is listed with.                     *)
LEMMA PlaceIsLast ==
  ASSUME NEW S \in SUBSET Hit, IsFiniteSet(S)
  PROVE  NextPlace(S) \in Nat \ {0} /\ \A h \in S : h.n < NextPlace(S)
<1>1. CASE S = {} BY <1>1 DEF NextPlace
<1>2. CASE S # {}
  <2>1. NextPlace(S) = Newest(S).n + 1 BY <1>2 DEF NextPlace
  <2>2. \A h \in S : h.n \in Nat BY DEF Hit
  <2>3. QED BY <1>2, <2>1, <2>2, NewestThere
<1>3. QED BY <1>1, <1>2

(* A refund makes the counter one smaller after any moment it has hits     *)
(* after, whoever the hit it takes belongs to.                             *)
LEMMA RefundTakesOne ==
  ASSUME Ledger, Listed, NEW c \in Counters, NEW moment \in Int
  PROVE  /\ PopNewest(c) \subseteq hits[c]
         /\ \/ NewerThan(PopNewest(c), moment) = {}
            \/ \E h \in NewerThan(hits[c], moment) : NewerThan(PopNewest(c), moment) = NewerThan(hits[c], moment) \ {h}
<1>1. CASE hits[c] = {} BY <1>1 DEF PopNewest, NewerThan
<1>2. CASE hits[c] # {}
  <2>1. PICK h \in hits[c] : h = Newest(hits[c]) /\ \A g \in hits[c] : g.n <= h.n
    <3>1. hits[c] \in SUBSET Hit /\ IsFiniteSet(hits[c]) BY DEF Ledger
    <3>2. QED BY <1>2, <3>1, NewestThere
  <2>2. PopNewest(c) = hits[c] \ {h} BY <1>2, <2>1 DEF PopNewest
  <2>3. \A g \in hits[c] : g.counted \in Nat /\ g.n \in Nat BY DEF Ledger, Hit
  <2>4. CASE h.counted > moment BY <2>1, <2>2, <2>4 DEF NewerThan
  <2>5. CASE ~(h.counted > moment)
    <3>1. \A g \in hits[c] \ {h} : ~(g.counted > moment)
      <4> TAKE g \in hits[c] \ {h}
      <4>1. g \in hits[c] /\ h \in hits[c] BY <2>1
      <4>2. (g.n = h.n => g = h) /\ (g.n < h.n => g.counted <= h.counted)
        <5>1. \A x, y \in hits[c] : (x.n = y.n => x = y) /\ (x.n < y.n => x.counted <= y.counted)
          BY DEF Listed
        <5>2. QED BY <4>1, <5>1
      <4>3. g.n < h.n \/ g.n = h.n BY <2>1, <2>3, <4>1
      <4>4. CASE g.n < h.n BY <2>3, <2>5, <4>1, <4>2, <4>4
      <4>5. CASE g.n = h.n BY <2>3, <2>5, <4>1, <4>2, <4>5
      <4>6. QED BY <4>3, <4>4, <4>5
    <3>2. QED BY <2>2, <3>1 DEF NewerThan
  <2>6. QED BY <2>2, <2>4, <2>5
<1>3. QED BY <1>1, <1>2

LEMMA RefundCovered ==
  ASSUME CountInv, Listed, Ledger', NEW q \in Questions, NEW c \in Counters,
         hits' = [hits EXCEPT ![c] = PopNewest(c)],
         \A d \in Counters, moment \in Int : Outstanding(d, moment) \ {q} \subseteq Outstanding(d, moment)',
         \A d \in Counters \ {c}, moment \in Int : Outstanding(d, moment) \subseteq Outstanding(d, moment)'
  PROVE  Covered'
<1> SUFFICES ASSUME NEW d \in Counters, NEW moment \in Int
             PROVE  Cardinality(NewerThan(hits'[d], moment)) <= Cardinality(Outstanding(d, moment)')
  BY DEF Covered
<1> DEFINE S == NewerThan(hits[d], moment)
           O == Outstanding(d, moment)
<1>1. IsFiniteSet(S) /\ IsFiniteSet(O) /\ IsFiniteSet(O')
      /\ Cardinality(S) \in Nat /\ Cardinality(O) \in Nat /\ Cardinality(O') \in Nat
  BY FS_Subset, FS_CardinalityType, OutstandingFinite DEF CountInv, Ledger, NewerThan
<1>2. Cardinality(S) <= Cardinality(O) BY DEF CountInv, Covered
<1>3. hits'[d] = IF d = c THEN PopNewest(c) ELSE hits[d] BY DEF CountInv, Ledger
<1> HIDE DEF S, O
<1>4. CASE d # c
  <2>1. Cardinality(O) <= Cardinality(O') BY <1>1, <1>4, FewerAreFewer DEF O
  <2>2. NewerThan(hits'[d], moment) = S BY <1>3, <1>4 DEF S
  <2>3. QED BY <1>1, <1>2, <2>1, <2>2 DEF O
<1>5. CASE d = c /\ NewerThan(PopNewest(c), moment) = {}
  <2>1. Cardinality(NewerThan(hits'[d], moment)) = 0 BY <1>3, <1>5, FS_EmptySet
  <2>2. QED BY <1>1, <2>1 DEF O
<1>6. ASSUME d = c, NEW h \in S, NewerThan(PopNewest(c), moment) = S \ {h}
      PROVE  Cardinality(NewerThan(hits'[d], moment)) <= Cardinality(O')
  <2>1. Cardinality(NewerThan(hits'[d], moment)) = Cardinality(S) - 1 BY <1>1, <1>3, <1>6, FS_RemoveElement
  <2>2. O \ {q} \subseteq O' BY DEF O
  <2>3. Cardinality(O \ {q}) <= Cardinality(O') /\ Cardinality(O \ {q}) \in Nat BY <1>1, <2>2, FewerAreFewer
  <2>4. Cardinality(O \ {q}) >= Cardinality(O) - 1
    <3>1. CASE q \in O
      <4>1. IsFiniteSet(O) BY <1>1
      <4>2. Cardinality(O \ {q}) = Cardinality(O) - 1 BY <3>1, <4>1, FS_RemoveElement
      <4>3. QED BY <1>1, <4>2
    <3>2. CASE q \notin O
      <4>1. O \ {q} = O BY <3>2
      <4>2. QED BY <1>1, <4>1
    <3>3. QED BY <3>1, <3>2
  <2>5. QED BY <1>1, <1>2, <2>1, <2>3, <2>4
<1>7. QED BY <1>4, <1>5, <1>6, RefundTakesOne DEF CountInv, S, O

(* A charge that counts adds one hit, and its question owes from then on.  *)
LEMMA ChargeCovered ==
  ASSUME CountInv, Ledger', NEW q \in Questions, NEW c \in Counters, NEW t, NEW hit, hit.counted = now,
         hits' = [hits EXCEPT ![c] = Live(c, t) \cup {hit}],
         \A d \in Counters, moment \in Int : Outstanding(d, moment) \subseteq Outstanding(d, moment)',
         \A moment \in Int : q \notin Outstanding(c, moment),
         \A moment \in Int : now > moment => q \in Outstanding(c, moment)'
  PROVE  Covered'
<1> SUFFICES ASSUME NEW d \in Counters, NEW moment \in Int
             PROVE  Cardinality(NewerThan(hits'[d], moment)) <= Cardinality(Outstanding(d, moment)')
  BY DEF Covered
<1> DEFINE S == NewerThan(hits[d], moment)
           O == Outstanding(d, moment)
<1>1. IsFiniteSet(S) /\ IsFiniteSet(O) /\ IsFiniteSet(O')
      /\ Cardinality(S) \in Nat /\ Cardinality(O) \in Nat /\ Cardinality(O') \in Nat
  BY FS_Subset, FS_CardinalityType, OutstandingFinite DEF CountInv, Ledger, NewerThan
<1>2. Cardinality(S) <= Cardinality(O) BY DEF CountInv, Covered
<1>3. hits'[d] = IF d = c THEN Live(c, t) \cup {hit} ELSE hits[d] BY DEF CountInv, Ledger
<1>4. O \subseteq O' OBVIOUS
<1>5. hit.counted = now OBVIOUS
<1> HIDE DEF S, O
<1>6. Cardinality(O) <= Cardinality(O') BY <1>1, <1>4, FewerAreFewer
<1>7. CASE d # c
  <2>1. NewerThan(hits'[d], moment) = S BY <1>3, <1>7 DEF S
  <2>2. QED BY <1>1, <1>2, <1>6, <2>1 DEF O
<1>8. CASE d = c /\ ~(now > moment)
  <2>1. NewerThan(hits'[d], moment) \subseteq S BY <1>3, <1>5, <1>8 DEF NewerThan, S, Live
  <2>2. Cardinality(NewerThan(hits'[d], moment)) <= Cardinality(S) /\ Cardinality(NewerThan(hits'[d], moment)) \in Nat
    BY <1>1, <2>1, FewerAreFewer
  <2>3. QED BY <1>1, <1>2, <1>6, <2>2 DEF O
<1>9. CASE d = c /\ now > moment
  <2>1. NewerThan(hits'[d], moment) \subseteq S \cup {hit} BY <1>3, <1>9 DEF NewerThan, S, Live
  <2>2. IsFiniteSet(S \cup {hit}) /\ Cardinality(S \cup {hit}) <= Cardinality(S) + 1
    <3>1. CASE hit \in S
      <4>1. S \cup {hit} = S BY <3>1
      <4>2. Cardinality(S \cup {hit}) = Cardinality(S) /\ IsFiniteSet(S \cup {hit}) BY <1>1, <4>1
      <4>3. QED BY <1>1, <4>2
    <3>2. CASE hit \notin S
      <4>1. IsFiniteSet(S) BY <1>1
      <4>2. IsFiniteSet(S \cup {hit}) /\ Cardinality(S \cup {hit}) = Cardinality(S) + 1
        BY <3>2, <4>1, FS_AddElement
      <4>3. QED BY <1>1, <4>2
    <3>3. QED BY <3>1, <3>2
  <2>3. /\ Cardinality(NewerThan(hits'[d], moment)) <= Cardinality(S \cup {hit})
        /\ Cardinality(NewerThan(hits'[d], moment)) \in Nat /\ Cardinality(S \cup {hit}) \in Nat
    BY <2>1, <2>2, FewerAreFewer
  <2>4. q \notin O /\ q \in O' BY <1>9 DEF O
  <2>5. IsFiniteSet(O \cup {q}) /\ Cardinality(O \cup {q}) = Cardinality(O) + 1
    <3>1. IsFiniteSet(O) BY <1>1
    <3>2. QED BY <2>4, <3>1, FS_AddElement
  <2>6. O \cup {q} \subseteq O' BY <1>4, <2>4
  <2>7. Cardinality(O \cup {q}) <= Cardinality(O') BY <1>1, <2>6, FewerAreFewer
  <2>8. QED BY <1>1, <1>2, <2>2, <2>3, <2>5, <2>7 DEF O
<1>10. QED BY <1>7, <1>8, <1>9

(* A step of one question leaves what the others owe as it was.            *)
OnlyOf(q) ==
  /\ DOMAIN step' = Questions /\ DOMAIN charges' = Questions
  /\ stage' \in [Questions -> Stages] /\ cached' \in [Questions -> BOOLEAN]
  /\ \A p \in Questions \ {q} : /\ stage'[p] = stage[p] /\ step'[p] = step[p]
                               /\ charges'[p] = charges[p] /\ cached'[p] = cached[p]

LEMMA OthersOweTheSame ==
  ASSUME Ledger, NEW q \in Questions, OnlyOf(q)
  PROVE  /\ \A p \in Questions \ {q} : Entry(p)'
         /\ \A d \in Counters, moment \in Int : Outstanding(d, moment) \ {q} \subseteq Outstanding(d, moment)'
<1>1. ASSUME NEW p \in Questions \ {q} PROVE Entry(p)'
  <2>1. Entry(p) BY DEF Ledger
  <2>2. stage'[p] = stage[p] /\ step'[p] = step[p] /\ charges'[p] = charges[p] /\ cached'[p] = cached[p]
    BY DEF OnlyOf
  <2>3. QED BY <2>1, <2>2 DEF Entry
<1>2. ASSUME NEW d \in Counters, NEW moment \in Int, NEW p \in Outstanding(d, moment) \ {q}
      PROVE  p \in Outstanding(d, moment)'
  <2>1. p \in Questions /\ ~GivenBack(p, d) /\ ChargedAfter(p, d, moment) BY DEF Outstanding
  <2>2. stage'[p] = stage[p] /\ step'[p] = step[p] /\ charges'[p] = charges[p] /\ cached'[p] = cached[p]
    BY <2>1 DEF OnlyOf
  <2>3. ~GivenBack(p, d)' BY <2>1, <2>2 DEF GivenBack, Free
  <2>4. ChargedAfter(p, d, moment)' BY <2>1, <2>2 DEF ChargedAfter
  <2>5. QED BY <2>1, <2>3, <2>4 DEF Outstanding
<1>3. QED BY <1>1, <1>2

(* A step of one question that adds no hit and gives back no charge.       *)
LEMMA NothingOfMineCounted ==
  ASSUME CountInv, NEW q \in Questions, OnlyOf(q), Entry(q)', now' = now,
         hits' \in [Counters -> SUBSET Hit], \A c \in Counters : hits'[c] \subseteq hits[c],
         \A c \in Counters, moment \in Int :
           ~GivenBack(q, c) /\ ChargedAfter(q, c, moment) => ~GivenBack(q, c)' /\ ChargedAfter(q, c, moment)'
  PROVE  CountInv'
<1>1. \A c \in Counters : IsFiniteSet(hits'[c]) BY FS_Subset DEF CountInv, Ledger
<1>2. \A p \in Questions : Entry(p)' BY OthersOweTheSame DEF CountInv
<1>3. Ledger' BY <1>1, <1>2 DEF Ledger, OnlyOf, CountInv
<1>4. \A c \in Counters, moment \in Int : Outstanding(c, moment) \subseteq Outstanding(c, moment)'
  <2> TAKE c \in Counters, moment \in Int
  <2>1. q \in Outstanding(c, moment) => q \in Outstanding(c, moment)' BY DEF Outstanding
  <2>2. Outstanding(c, moment) \ {q} \subseteq Outstanding(c, moment)' BY OthersOweTheSame DEF CountInv
  <2>3. QED BY <2>1, <2>2
<1>5. QED BY <1>3, <1>4, NothingCounted DEF CountInv

(* SlidingWindow.allow counts a hit, or refuses and drops expired ones.    *)
LEMMA ChargeCounts ==
  ASSUME CountInv, Listed, NEW q \in Questions, Charge(q)
  PROVE  CountInv'
<1>1. Ledger /\ Entry(q) BY DEF CountInv, Ledger
<1>2. /\ stage[q] = "charging" /\ Len(charges[q]) = step[q] /\ step[q] \in 0..4
      /\ charges[q] \in Seq(Nat) /\ ~cached[q]
  BY <1>1 DEF Charge, Entry
<1>3. step[q] + 1 \in 1..5 BY <1>2
<1> PICK c \in Counters : c = Charges(q)[step[q] + 1] BY <1>3, FiveCounters
<1> DEFINE live == Live(c, read[q])
<1>4. live \subseteq hits[c] /\ hits[c] \subseteq Hit /\ IsFiniteSet(hits[c]) /\ IsFiniteSet(live)
  <2>1. live \subseteq hits[c] BY DEF Live
  <2>2. hits[c] \subseteq Hit /\ IsFiniteSet(hits[c]) BY <1>1, <1>3 DEF Ledger
  <2>3. QED BY <2>1, <2>2, FS_Subset
<1>5. now' = now /\ cached' = cached BY DEF Charge
<1>6. CASE Cardinality(live) < LimitOf(c)
  <2> DEFINE hit == [at |-> read[q], counted |-> now, n |-> NextPlace(live)]
             s == IF step[q] + 1 # 5 THEN "charging" ELSE IF q \in Mcp THEN "answering" ELSE "admitted"
  <2>1. /\ hits' = [hits EXCEPT ![c] = live \cup {hit}]
        /\ charges' = [charges EXCEPT ![q] = Append(@, now)]
        /\ step' = [step EXCEPT ![q] = IF step[q] + 1 = 5 THEN 0 ELSE @ + 1]
        /\ stage' = [stage EXCEPT ![q] = s]
    BY <1>6, FiveCounters DEF Charge, Go
  <2>2. hit \in Hit /\ now \in Nat
    <3>1. NextPlace(live) \in Nat \ {0} BY <1>4, PlaceIsLast
    <3>2. read[q] \in Nat BY DEF Charge, Listed
    <3>3. QED BY <1>1, <3>1, <3>2 DEF Ledger, Hit
  <2>3. /\ charges'[q] = Append(charges[q], now) /\ step'[q] = (IF step[q] + 1 = 5 THEN 0 ELSE step[q] + 1)
        /\ stage'[q] = s /\ cached'[q] = cached[q]
    BY <1>1, <1>5, <2>1 DEF Ledger
  <2>4. /\ charges'[q] \in Seq(Nat) /\ Len(charges'[q]) = step[q] + 1 /\ charges'[q][step[q] + 1] = now
        /\ \A i \in 1..step[q] : charges'[q][i] = charges[q][i]
    BY <1>2, <2>2, <2>3
  <2>5. s \in {"charging", "answering", "admitted"} /\ (s = "charging" <=> step[q] + 1 # 5) OBVIOUS
  <2>6. OnlyOf(q) BY <1>1, <1>5, <2>1 DEF OnlyOf, Ledger, Stages
  <2>7. Entry(q)' BY <1>2, <2>3, <2>4, <2>5 DEF Entry
  <2>8. /\ hits' \in [Counters -> SUBSET Hit] /\ \A d \in Counters : IsFiniteSet(hits'[d])
    <3>1. live \cup {hit} \in SUBSET Hit BY <1>4, <2>2
    <3>2. IsFiniteSet(live \cup {hit}) BY <1>4, FS_AddElement
    <3> HIDE DEF hit
    <3>3. QED BY <1>1, <1>3, <2>1, <3>1, <3>2 DEF Ledger
  <2>9. Ledger'
    <3>1. \A p \in Questions : Entry(p)' BY <1>1, <2>6, <2>7, OthersOweTheSame
    <3>2. QED BY <1>1, <1>5, <2>6, <2>8, <3>1 DEF Ledger, OnlyOf
  <2> HIDE DEF s
  <2>10. \A d : ~GivenBack(q, d)' BY <1>2, <1>5, <2>3, <2>5 DEF GivenBack, Free
  <2>11. \A d \in Counters, moment \in Int : Outstanding(d, moment) \subseteq Outstanding(d, moment)'
    <3> TAKE d \in Counters, moment \in Int
    <3>1. ChargedAfter(q, d, moment) => ChargedAfter(q, d, moment)'
      <4>1. \A i \in 1..step[q] : i \in 1..(step[q] + 1) /\ charges'[q][i] = charges[q][i] BY <1>2, <2>4
      <4>2. QED BY <1>2, <2>4, <4>1 DEF ChargedAfter
    <3>2. q \in Outstanding(d, moment) => q \in Outstanding(d, moment)'
      BY <2>10, <3>1 DEF Outstanding
    <3>3. QED BY <1>1, <2>6, <3>2, OthersOweTheSame
  <2>12. \A moment \in Int : q \notin Outstanding(c, moment)
    <3>1. \A i \in 1..Len(charges[q]) : Charges(q)[i] # c
      <4>1. \A i, j \in 1..5 : Charges(q)[i] = Charges(q)[j] => i = j BY FiveCounters
      <4>2. Len(charges[q]) = step[q] /\ step[q] \in Nat /\ step[q] <= 4 BY <1>2
      <4>3. \A i \in 1..Len(charges[q]) : i \in 1..5 /\ i # step[q] + 1 BY <4>2
      <4>4. QED BY <1>3, <4>1, <4>3
    <3>2. QED BY <3>1 DEF Outstanding, ChargedAfter
  <2>13. \A moment \in Int : now > moment => q \in Outstanding(c, moment)'
    <3> SUFFICES ASSUME NEW moment \in Int, now > moment PROVE q \in Outstanding(c, moment)'
      OBVIOUS
    <3>1. step[q] + 1 \in 1..Len(charges'[q]) /\ charges'[q][step[q] + 1] = now BY <1>2, <2>4
    <3>2. Charges(q)' = Charges(q) BY DEF Charges
    <3>3. ChargedAfter(q, c, moment)' BY <3>1, <3>2 DEF ChargedAfter
    <3>4. QED BY <2>10, <3>3 DEF Outstanding
  <2>14. Covered'
    <3>1. hit.counted = now OBVIOUS
    <3> HIDE DEF hit
    <3>2. QED BY <1>3, <2>1, <2>9, <2>11, <2>12, <2>13, <3>1, ChargeCovered
  <2>15. QED BY <2>9, <2>14 DEF CountInv
<1>7. CASE ~(Cardinality(live) < LimitOf(c))
  <2>1. /\ hits' = [hits EXCEPT ![c] = live]
        /\ charges' = charges
        /\ step' = [step EXCEPT ![q] = 0]
        /\ stage' = [stage EXCEPT ![q] = "undoing"]
    BY <1>7 DEF Charge, Go
  <2>2. OnlyOf(q) BY <1>1, <1>5, <2>1 DEF OnlyOf, Ledger, Stages
  <2>3. stage'[q] = "undoing" /\ step'[q] = 0 /\ charges'[q] = charges[q] /\ cached'[q] = cached[q]
    BY <1>1, <1>5, <2>1 DEF Ledger
  <2>4. Entry(q)' BY <1>2, <2>3 DEF Entry
  <2>5. \A d : ~GivenBack(q, d)' BY <1>2, <2>3 DEF GivenBack, Free
  <2>6. \A d, moment : ChargedAfter(q, d, moment)' <=> ChargedAfter(q, d, moment)
    BY <2>3 DEF ChargedAfter
  <2>7. hits' \in [Counters -> SUBSET Hit] /\ \A d \in Counters : hits'[d] \subseteq hits[d]
    BY <1>1, <1>3, <1>4, <2>1 DEF Ledger
  <2>8. QED BY <1>5, <2>2, <2>4, <2>5, <2>6, <2>7, NothingOfMineCounted
<1>8. QED BY <1>6, <1>7

(* A refund by a question that gives back its charge to one counter only.  *)
LEMMA RefundOfMine ==
  ASSUME CountInv, Listed, NEW q \in Questions, OnlyOf(q), Entry(q)', now' = now, NEW c \in Counters,
         hits' = [hits EXCEPT ![c] = PopNewest(c)], charges'[q] = charges[q],
         \A d \in Counters \ {c} : (\E i \in 1..Len(charges[q]) : Charges(q)[i] = d) =>
                                   (GivenBack(q, d)' => GivenBack(q, d))
  PROVE  CountInv'
<1>1. PopNewest(c) \subseteq hits[c] BY RefundTakesOne DEF CountInv
<1>2. hits' \in [Counters -> SUBSET Hit] /\ \A d \in Counters : IsFiniteSet(hits'[d])
  BY <1>1, FS_Subset DEF CountInv, Ledger
<1>3. \A p \in Questions : Entry(p)' BY OthersOweTheSame DEF CountInv
<1>4. Ledger' BY <1>2, <1>3 DEF Ledger, OnlyOf, CountInv
<1>5. \A d \in Counters, moment \in Int : Outstanding(d, moment) \ {q} \subseteq Outstanding(d, moment)'
  BY OthersOweTheSame DEF CountInv
<1>6. \A d \in Counters \ {c}, moment \in Int : Outstanding(d, moment) \subseteq Outstanding(d, moment)'
  <2> TAKE d \in Counters \ {c}, moment \in Int
  <2>1. q \in Outstanding(d, moment) => q \in Outstanding(d, moment)' BY DEF Outstanding, ChargedAfter, Charges
  <2>2. QED BY <1>5, <2>1
<1>7. QED BY <1>4, <1>5, <1>6, RefundCovered DEF CountInv

(* One turn of question()'s undoing: the charge it names is given back.    *)
LEMMA UndoingTakesOne ==
  ASSUME CountInv, Listed, NEW q \in Questions, UndoCharge(q)
  PROVE  CountInv'
<1>1. Ledger /\ Entry(q) BY DEF CountInv, Ledger
<1>2. /\ stage[q] = "undoing" /\ step[q] \in Nat /\ step[q] < Len(charges[q]) /\ Len(charges[q]) \in Nat /\ Len(charges[q]) <= 5
      /\ charges[q] \in Seq(Nat) /\ ~cached[q]
  <2>1. stage[q] = "undoing" /\ charges[q] \in Seq(Nat) /\ ~cached[q] /\ step[q] \in 0..5
    BY <1>1 DEF UndoCharge, Entry
  <2>2. step[q] <= Len(charges[q]) /\ step[q] # Len(charges[q]) /\ Len(charges[q]) <= 5
    BY <1>1, <2>1 DEF UndoCharge, Undone, Entry
  <2>3. Len(charges[q]) \in Nat BY <2>1
  <2>4. QED BY <2>1, <2>2, <2>3
<1>3. step[q] + 1 \in 1..5 BY <1>2
<1> PICK c \in Counters : c = Charges(q)[step[q] + 1] BY <1>3, FiveCounters
<1>4. /\ hits' = [hits EXCEPT ![c] = PopNewest(c)] /\ step' = [step EXCEPT ![q] = @ + 1]
      /\ UNCHANGED <<now, stage, charges, cached>>
  BY DEF UndoCharge
<1>5. OnlyOf(q) BY <1>1, <1>4 DEF OnlyOf, Ledger
<1>6. stage'[q] = "undoing" /\ step'[q] = step[q] + 1 /\ charges'[q] = charges[q] /\ cached'[q] = cached[q]
  BY <1>1, <1>2, <1>4 DEF Ledger
<1>7. Entry(q)' BY <1>1, <1>2, <1>6 DEF Entry
<1>8. \A d \in Counters \ {c} : GivenBack(q, d)' => GivenBack(q, d)
  <2> SUFFICES ASSUME NEW d \in Counters \ {c}, GivenBack(q, d)' PROVE GivenBack(q, d) OBVIOUS
  <2>1. PICK j \in 1..(step[q] + 1) : Charges(q)[j] = d
    BY <1>2, <1>6 DEF GivenBack, Free, Charges
  <2>2. j \in 1..step[q] BY <1>2, <2>1
  <2>3. QED BY <1>2, <2>1, <2>2 DEF GivenBack
<1>9. QED BY <1>1, <1>4, <1>5, <1>7, <1>6, <1>8, RefundOfMine

(* One turn of refund_question(): on its last turn the question is free of *)
(* every charge it made.                                                   *)
LEMMA RefundingTakesOne ==
  ASSUME CountInv, Listed, NEW q \in Questions, RefundOne(q)
  PROVE  CountInv'
<1>1. Ledger /\ Entry(q) BY DEF CountInv, Ledger
<1>2. /\ stage[q] = "refunding" /\ step[q] \in 0..4 /\ Len(charges[q]) \in Nat /\ Len(charges[q]) <= 5
      /\ charges[q] \in Seq(Nat) /\ cached[q]
  <2>1. stage[q] = "refunding" /\ charges[q] \in Seq(Nat) /\ cached[q] /\ step[q] \in 0..5 /\ step[q] < 5
    BY <1>1 DEF RefundOne, Entry
  <2>2. Len(charges[q]) <= 5 BY <1>1 DEF Entry
  <2>3. Len(charges[q]) \in Nat BY <2>1
  <2>4. QED BY <2>1, <2>2, <2>3
<1>3. step[q] + 1 \in 1..5 BY <1>2
<1> DEFINE s == IF step[q] + 1 = 5 THEN "leaving" ELSE "refunding"
<1> PICK c \in Counters : c = Refunds(q)[step[q] + 1] BY <1>3, FiveCounters
<1>4. /\ hits' = [hits EXCEPT ![c] = PopNewest(c)]
      /\ step' = [step EXCEPT ![q] = IF step[q] + 1 = 5 THEN 0 ELSE @ + 1]
      /\ stage' = [stage EXCEPT ![q] = s]
      /\ UNCHANGED <<now, charges, cached>>
  BY FiveCounters DEF RefundOne, Go, After
<1>5. OnlyOf(q) BY <1>1, <1>4 DEF OnlyOf, Ledger, Stages
<1>6. /\ stage'[q] = s /\ step'[q] = (IF step[q] + 1 = 5 THEN 0 ELSE step[q] + 1)
      /\ charges'[q] = charges[q] /\ cached'[q] = cached[q]
  BY <1>1, <1>4 DEF Ledger
<1>7. Entry(q)' BY <1>1, <1>2, <1>6 DEF Entry
<1>8. ASSUME NEW d \in Counters \ {c}, \E i \in 1..Len(charges[q]) : Charges(q)[i] = d, GivenBack(q, d)'
      PROVE  GivenBack(q, d)
  <2>1. PICK i \in 1..5 : Charges(q)[i] = d
    <3>1. Len(charges[q]) \in Nat /\ Len(charges[q]) <= 5 BY <1>2
    <3>2. QED BY <1>8, <3>1
  <2>2. PICK j \in 1..5 : Refunds(q)[j] = d BY <2>1, FiveCounters
  <2>3. j # step[q] + 1 BY <2>2
  <2>4. CASE step[q] + 1 = 5
    <3>1. j \in 1..step[q] BY <1>2, <2>3, <2>4
    <3>2. QED BY <1>2, <2>2, <3>1 DEF GivenBack
  <2>5. CASE step[q] + 1 # 5
    <3>1. stage'[q] = "refunding" /\ step'[q] = step[q] + 1 BY <1>6, <2>5
    <3>2. PICK k \in 1..(step[q] + 1) : Refunds(q)[k] = d
      BY <1>8, <3>1 DEF GivenBack, Free, Refunds
    <3>3. k \in 1..step[q] BY <1>2, <3>2
    <3>4. QED BY <1>2, <3>2, <3>3 DEF GivenBack
  <2>6. QED BY <2>4, <2>5
<1>9. QED BY <1>4, <1>5, <1>6, <1>7, <1>8, RefundOfMine

(* Steps that touch no counter.                                            *)
LEMMA StageMoves ==
  ASSUME CountInv, NEW q \in Questions, NEW s \in Stages, Go(q, s),
         UNCHANGED <<now, hits, step, charges>>, OnlyOf(q), Entry(q)',
         stage[q] \notin {"undoing", "refunding"}, s \notin {"undoing", "refused"},
         s = "refunding" => step[q] = 0, Free(q)' => Free(q) \/ charges[q] = <<>>
  PROVE  CountInv'
<1>1. Ledger /\ Entry(q) BY DEF CountInv, Ledger
<1>2. stage'[q] = s /\ step'[q] = step[q] /\ charges'[q] = charges[q] BY <1>1 DEF Go, Ledger
<1>3. hits' \in [Counters -> SUBSET Hit] /\ \A c \in Counters : hits'[c] \subseteq hits[c]
  BY <1>1 DEF Ledger
<1>4. ASSUME NEW c \in Counters, NEW moment \in Int, ~GivenBack(q, c), ChargedAfter(q, c, moment)
      PROVE  ~GivenBack(q, c)' /\ ChargedAfter(q, c, moment)'
  <2>1. charges[q] # <<>> BY <1>4 DEF ChargedAfter
  <2>2. ~Free(q)' BY <1>4, <2>1 DEF GivenBack
  <2>3. step[q] = 0 => ~ \E j \in 1..step[q] : Refunds(q)[j] = c OBVIOUS
  <2>4. ~GivenBack(q, c)' BY <1>2, <2>2, <2>3 DEF GivenBack, Refunds
  <2>5. QED BY <1>2, <1>4, <2>4 DEF ChargedAfter, Charges
<1>5. QED BY <1>3, <1>4, NothingOfMineCounted

LEMMA InitCountInv == Init => CountInv
<1> SUFFICES ASSUME Init PROVE CountInv OBVIOUS
<1>1. \A q \in Questions : Entry(q) BY DEF Init, Entry
<1>2. Ledger BY <1>1, FS_EmptySet DEF Init, Ledger, Stages
<1>3. Covered
  <2> SUFFICES ASSUME NEW c \in Counters, NEW moment \in Int
               PROVE  Cardinality(NewerThan(hits[c], moment)) <= Cardinality(Outstanding(c, moment))
    BY DEF Covered
  <2>1. NewerThan(hits[c], moment) = {} BY DEF Init, NewerThan
  <2>2. Cardinality(NewerThan(hits[c], moment)) = 0 BY <2>1, FS_EmptySet
  <2>3. Cardinality(Outstanding(c, moment)) \in Nat BY OutstandingFinite, FS_CardinalityType
  <2>4. QED BY <2>2, <2>3
<1>4. QED BY <1>2, <1>3 DEF CountInv

LEMMA NextCountInv == CountInv /\ Listed /\ [Next]_vars => CountInv'
<1> SUFFICES ASSUME CountInv, Listed, [Next]_vars PROVE CountInv' OBVIOUS
<1>1. Ledger /\ \A q \in Questions : Entry(q) BY DEF CountInv, Ledger
<1>2. CASE UNCHANGED vars
  <2>1. Ledger' BY <1>1, <1>2 DEF Ledger, Entry, vars
  <2>2. /\ \A c \in Counters : hits'[c] \subseteq hits[c]
        /\ \A c, moment : Outstanding(c, moment)' = Outstanding(c, moment)
    BY <1>2 DEF Outstanding, GivenBack, Free, ChargedAfter, Charges, Refunds, vars
  <2>3. Covered' BY <2>1, <2>2, NothingCounted
  <2>4. QED BY <2>1, <2>3 DEF CountInv
<1>3. CASE Tick
  <2>1. UNCHANGED <<hits, stage, step, charges, cached>> /\ now' = now + 1 BY <1>3 DEF Tick
  <2>2. Ledger' BY <1>1, <2>1 DEF Ledger, Entry
  <2>3. /\ \A c \in Counters : hits'[c] \subseteq hits[c]
        /\ \A c, moment : Outstanding(c, moment)' = Outstanding(c, moment)
    BY <2>1 DEF Outstanding, GivenBack, Free, ChargedAfter, Charges, Refunds
  <2>4. Covered' BY <2>2, <2>3, NothingCounted
  <2>5. QED BY <2>2, <2>4 DEF CountInv
<1>4. ASSUME NEW q \in Questions, EnterGate(q) PROVE CountInv'
  <2>1. PICK s \in {"charging", "busy"} : Go(q, s) BY <1>4 DEF EnterGate
  <2>2. /\ stage[q] = "idle" /\ charges[q] = <<>> /\ step[q] = 0 /\ ~cached[q] /\ s \in Stages
        /\ UNCHANGED <<now, hits, step, charges, cached>>
    BY <1>1, <1>4 DEF EnterGate, Entry, Stages
  <2>3. stage'[q] = s /\ OnlyOf(q) BY <1>1, <2>1, <2>2 DEF Go, OnlyOf, Ledger
  <2>4. Entry(q)' BY <1>1, <2>2, <2>3 DEF Entry
  <2>5. QED BY <2>1, <2>2, <2>3, <2>4, StageMoves
<1>5. ASSUME NEW q \in Questions, Progress(q) PROVE CountInv'
  <2>1. ASSUME NEW s \in Stages, Go(q, s), stage[q] # "idle", UNCHANGED <<now, hits, step, charges, cached>>
        PROVE  /\ OnlyOf(q) /\ stage'[q] = s /\ step'[q] = step[q] /\ charges'[q] = charges[q]
               /\ cached'[q] = cached[q]
    BY <1>1, <2>1 DEF Go, OnlyOf, Ledger
  <2>0. CASE ReadClock(q)
    <3>1. UNCHANGED <<now, hits, step, stage, charges, cached>> BY <2>0 DEF ReadClock
    <3>2. OnlyOf(q) /\ Entry(q)' BY <1>1, <3>1 DEF OnlyOf, Ledger, Entry
    <3>3. \A c, moment : /\ GivenBack(q, c)' = GivenBack(q, c)
                         /\ ChargedAfter(q, c, moment)' = ChargedAfter(q, c, moment)
      BY <3>1 DEF GivenBack, Free, ChargedAfter, Charges, Refunds
    <3>4. hits' \in [Counters -> SUBSET Hit] BY <1>1, <3>1 DEF Ledger
    <3>5. QED BY <3>1, <3>2, <3>3, <3>4, NothingOfMineCounted
  <2>2. CASE Charge(q) BY <2>2, ChargeCounts
  <2>3. CASE UndoCharge(q) BY <2>3, UndoingTakesOne
  <2>4. CASE Refuse(q)
    <3>1. /\ stage[q] = "undoing" /\ Go(q, "refused") /\ step[q] = Len(charges[q])
          /\ UNCHANGED <<now, hits, step, charges, cached>> /\ "refused" \in Stages
      BY <2>4 DEF Refuse, Undone, Stages
    <3>2. OnlyOf(q) /\ stage'[q] = "refused" /\ step'[q] = step[q] /\ charges'[q] = charges[q] /\ cached'[q] = cached[q]
      BY <2>1, <3>1
    <3>3. Entry(q)' BY <1>1, <3>1, <3>2 DEF Entry
    <3>4. \A c \in Counters, moment \in Int : ChargedAfter(q, c, moment) => GivenBack(q, c)
      BY <3>1 DEF ChargedAfter, GivenBack
    <3>5. hits' \in [Counters -> SUBSET Hit] /\ \A c \in Counters : hits'[c] \subseteq hits[c]
      BY <1>1, <3>1 DEF Ledger
    <3>6. QED BY <3>1, <3>2, <3>3, <3>4, <3>5, NothingOfMineCounted
  <2>5. CASE StartThread(q)
    <3>1. /\ stage[q] = "admitted" /\ Go(q, "answering") /\ "answering" \in Stages
          /\ UNCHANGED <<now, hits, step, charges, cached>>
      BY <2>5 DEF StartThread, Stages
    <3>2. OnlyOf(q) /\ stage'[q] = "answering" /\ step'[q] = step[q] /\ charges'[q] = charges[q] /\ cached'[q] = cached[q]
      BY <2>1, <3>1
    <3>3. Entry(q)' /\ ~Free(q)' BY <1>1, <3>1, <3>2 DEF Entry, Free
    <3>4. QED BY <3>1, <3>2, <3>3, StageMoves
  <2>6. CASE StartFails(q)
    <3>1. /\ stage[q] = "admitted" /\ Go(q, "done") /\ "done" \in Stages
          /\ UNCHANGED <<now, hits, step, charges, cached>>
      BY <2>6 DEF StartFails, Stages
    <3>2. OnlyOf(q) /\ stage'[q] = "done" /\ step'[q] = step[q] /\ charges'[q] = charges[q] /\ cached'[q] = cached[q]
      BY <2>1, <3>1
    <3>3. Entry(q)' /\ ~Free(q)' BY <1>1, <3>1, <3>2 DEF Entry, Free
    <3>4. QED BY <3>1, <3>2, <3>3, StageMoves
  <2>7. CASE Answer(q)
    <3>1. PICK hit \in BOOLEAN : /\ cached' = [cached EXCEPT ![q] = hit]
                                 /\ Go(q, IF hit THEN "refunding" ELSE "leaving")
      BY <2>7 DEF Answer, After
    <3> DEFINE s == IF hit THEN "refunding" ELSE "leaving"
    <3>2. stage[q] = "answering" /\ step[q] = 0 /\ UNCHANGED <<now, hits, step, charges>> /\ s \in Stages
      BY <1>1, <2>7 DEF Answer, Entry, Stages
    <3>3. OnlyOf(q) /\ stage'[q] = s /\ step'[q] = step[q] /\ charges'[q] = charges[q] /\ cached'[q] = hit
      BY <1>1, <3>1, <3>2 DEF Go, OnlyOf, Ledger
    <3>4. Entry(q)' /\ ~Free(q)' BY <1>1, <3>2, <3>3 DEF Entry, Free
    <3>5. QED BY <3>1, <3>2, <3>3, <3>4, StageMoves
  <2>8. CASE RefundOne(q) BY <2>8, RefundingTakesOne
  <2>9. CASE Leave(q)
    <3>1. /\ stage[q] = "leaving" /\ Go(q, "telling") /\ "telling" \in Stages
          /\ UNCHANGED <<now, hits, step, charges, cached>>
      BY <2>9 DEF Leave, After, Stages
    <3>2. OnlyOf(q) /\ stage'[q] = "telling" /\ step'[q] = step[q] /\ charges'[q] = charges[q] /\ cached'[q] = cached[q]
      BY <2>1, <3>1
    <3>3. Entry(q)' /\ (Free(q)' => Free(q)) BY <1>1, <3>1, <3>2 DEF Entry, Free
    <3>4. QED BY <3>1, <3>2, <3>3, StageMoves
  <2>10. CASE Tell(q)
    <3>1. /\ stage[q] = "telling" /\ Go(q, "done") /\ "done" \in Stages
          /\ UNCHANGED <<now, hits, step, charges, cached>>
      BY <2>10 DEF Tell, After, Stages
    <3>2. OnlyOf(q) /\ stage'[q] = "done" /\ step'[q] = step[q] /\ charges'[q] = charges[q] /\ cached'[q] = cached[q]
      BY <2>1, <3>1
    <3>3. Entry(q)' /\ (Free(q)' => Free(q)) BY <1>1, <3>1, <3>2 DEF Entry, Free
    <3>4. QED BY <3>1, <3>2, <3>3, StageMoves
  <2>11. QED
    BY <1>5, <2>0, <2>2, <2>3, <2>4, <2>5, <2>6, <2>7, <2>8, <2>9, <2>10 DEF Progress
<1>6. QED BY <1>2, <1>3, <1>4, <1>5 DEF Next

(* The lists stay in the order of counting: charges go to their end, and   *)
(* expiry and refunds only take away.                                      *)
LEMMA InitListed == Init => Listed
BY DEF Init, Listed, NotRead

LEMMA FewerListed ==
  ASSUME Ledger, Listed, now' \in Nat, now <= now', read' = read, \A c \in Counters : hits'[c] \subseteq hits[c]
  PROVE  Listed'
<1>1. \A c \in Counters : \A h \in hits[c] : h.counted \in Nat BY DEF Ledger, Hit
<1>2. now \in Nat BY DEF Ledger
<1>3. \A c \in Counters : \A h \in hits'[c] : h.at <= h.counted /\ h.counted <= now'
  BY <1>1, <1>2 DEF Listed
<1>4. \A q \in Questions : read'[q] = NotRead \/ read'[q] \in 0..now' BY <1>2 DEF Listed
<1>5. QED BY <1>3, <1>4 DEF Listed

LEMMA NextListed == CountInv /\ Listed /\ [Next]_vars => Listed'
<1> SUFFICES ASSUME CountInv, Listed, [Next]_vars PROVE Listed' OBVIOUS
<1>1. Ledger /\ now \in Nat BY DEF CountInv, Ledger
<1>2. CASE UNCHANGED vars BY <1>1, <1>2, FewerListed DEF vars
<1>3. CASE Tick BY <1>1, <1>3, FewerListed DEF Tick
<1>4. ASSUME NEW q \in Questions, EnterGate(q) PROVE Listed' BY <1>1, <1>4, FewerListed DEF EnterGate
<1>5. ASSUME NEW q \in Questions, ReadClock(q) PROVE Listed'
  <2>1. now' = now /\ hits' = hits /\ read' = [read EXCEPT ![q] = now] BY <1>5 DEF ReadClock
  <2>2. read' \in [Questions -> Int] /\ \A p \in Questions : read'[p] = NotRead \/ read'[p] \in 0..now'
    BY <1>1, <2>1 DEF Listed
  <2>3. QED BY <2>1, <2>2 DEF Listed
<1>6. ASSUME NEW q \in Questions, NEW c \in Counters, hits' = [hits EXCEPT ![c] = PopNewest(c)],
             UNCHANGED <<now, read>>
      PROVE  Listed'
  <2>1. PopNewest(c) \subseteq hits[c] BY <1>1, RefundTakesOne
  <2>2. \A d \in Counters : hits'[d] \subseteq hits[d] BY <1>1, <1>6, <2>1 DEF Ledger
  <2>3. QED BY <1>1, <1>6, <2>2, FewerListed
<1>7. ASSUME NEW q \in Questions, Charge(q) PROVE Listed'
  <2>1. step[q] + 1 \in 1..5 BY <1>1, <1>7 DEF Ledger, Entry, Charge
  <2>2. PICK c \in Counters : c = Charges(q)[step[q] + 1] BY <2>1, FiveCounters
  <2> DEFINE live == Live(c, read[q])
             hit == [at |-> read[q], counted |-> now, n |-> NextPlace(live)]
  <2>3. /\ \/ hits' = [hits EXCEPT ![c] = live \cup {hit}]
           \/ hits' = [hits EXCEPT ![c] = live]
        /\ now' = now /\ read' = [read EXCEPT ![q] = NotRead] /\ read[q] \in 0..now
    BY <1>7, <2>2 DEF Charge, Listed
  <2>4. live \subseteq hits[c] /\ hits[c] \in SUBSET Hit /\ IsFiniteSet(hits[c]) BY <1>1 DEF Live, Ledger
  <2>5. live \in SUBSET Hit /\ IsFiniteSet(live) BY <2>4, FS_Subset
  <2>6. NextPlace(live) \in Nat \ {0} /\ \A h \in live : h.n < NextPlace(live) BY <2>5, PlaceIsLast
  <2>7. hit.at = read[q] /\ hit.counted = now /\ hit.n = NextPlace(live) OBVIOUS
  <2>8. \A d \in Counters : hits'[d] \subseteq IF d = c THEN live \cup {hit} ELSE hits[d]
    <3> HIDE DEF live, hit
    <3>1. QED BY <1>1, <2>3, <2>4 DEF Ledger
  <2> HIDE DEF hit, live
  <2>9. \A h \in live : h.n \in Nat /\ h.counted \in Nat /\ h.at <= h.counted /\ h.counted <= now
    BY <2>4, <2>5 DEF Listed, Hit
  <2>10. \A d \in Counters : \A h \in hits'[d] : h.at <= h.counted /\ h.counted <= now'
    <3> TAKE d \in Counters
    <3>1. CASE d # c BY <2>3, <2>8, <3>1 DEF Listed
    <3>2. CASE d = c BY <1>1, <2>3, <2>7, <2>8, <2>9, <3>2
    <3>3. QED BY <3>1, <3>2
  <2>11. \A d \in Counters : \A g, h \in hits'[d] : /\ g.n = h.n => g = h
                                                    /\ g.n < h.n => g.counted <= h.counted
    <3> TAKE d \in Counters
    <3>1. CASE d # c BY <2>8, <3>1 DEF Listed
    <3>2. CASE d = c
      <4> SUFFICES ASSUME NEW g \in live \cup {hit}, NEW h \in live \cup {hit}
                   PROVE  (g.n = h.n => g = h) /\ (g.n < h.n => g.counted <= h.counted)
        BY <2>8, <3>2
      <4>1. CASE g \in live /\ h \in live
        <5>1. g \in hits[c] /\ h \in hits[c] BY <2>4, <4>1
        <5>2. \A x, y \in hits[c] : (x.n = y.n => x = y) /\ (x.n < y.n => x.counted <= y.counted)
          BY DEF Listed
        <5>3. QED BY <5>1, <5>2
      <4>2. CASE g \in live /\ h = hit BY <2>6, <2>7, <2>9, <4>2
      <4>3. CASE g = hit /\ h \in live BY <2>6, <2>7, <2>9, <4>3
      <4>4. CASE g = hit /\ h = hit BY <1>1, <2>6, <2>7, <4>4
      <4>5. QED BY <4>1, <4>2, <4>3, <4>4
    <3>3. QED BY <3>1, <3>2
  <2>12. read' \in [Questions -> Int] /\ \A p \in Questions : read'[p] = NotRead \/ read'[p] \in 0..now'
    BY <2>3 DEF Listed, NotRead
  <2>13. QED BY <2>10, <2>11, <2>12 DEF Listed
<1>8. ASSUME NEW q \in Questions, UndoCharge(q) PROVE Listed'
  <2>1. step[q] + 1 \in 1..5
    <3>1. Entry(q) /\ stage[q] = "undoing" /\ step[q] # Len(charges[q])
      BY <1>1, <1>8 DEF Ledger, UndoCharge, Undone
    <3>2. charges[q] \in Seq(Nat) /\ Len(charges[q]) <= 5 /\ step[q] \in 0..5 /\ step[q] <= Len(charges[q])
      BY <3>1 DEF Entry
    <3>3. Len(charges[q]) \in Nat BY <3>2
    <3>4. QED BY <3>1, <3>2, <3>3
  <2>2. QED BY <1>6, <1>8, <2>1, FiveCounters DEF UndoCharge
<1>9. ASSUME NEW q \in Questions, RefundOne(q) PROVE Listed'
  <2>1. step[q] + 1 \in 1..5
    <3>1. Entry(q) BY <1>1 DEF Ledger
    <3>2. stage[q] = "refunding" BY <1>9 DEF RefundOne
    <3>3. step[q] \in 0..5 /\ step[q] < 5 BY <3>1, <3>2 DEF Entry
    <3>4. QED BY <3>3
  <2>2. QED BY <1>6, <1>9, <2>1, FiveCounters DEF RefundOne
<1>10. ASSUME NEW q \in Questions, Progress(q) PROVE Listed'
  BY <1>1, <1>5, <1>7, <1>8, <1>9, <1>10, FewerListed
  DEF Progress, Refuse, StartThread, StartFails, Answer, Leave, Tell
<1>11. QED BY <1>2, <1>3, <1>4, <1>10 DEF Next

(* A counter's live hits were counted after the window's start, and what   *)
(* is outstanding there is owed.                                           *)
LEMMA CoveredIsEnough == CountInv /\ Listed => NothingFreeIsCounted
<1> SUFFICES ASSUME CountInv, Listed, NEW c \in Counters, NEW t \in 0..now
             PROVE  Cardinality(Live(c, t)) <= Cardinality(Owing(c, t))
  BY DEF NothingFreeIsCounted
<1> DEFINE start == t - SpanOf(c)
<1>1. now \in Nat /\ t \in Nat /\ SpanOf(c) \in Nat /\ start \in Int
  BY AdmissionAssumption DEF CountInv, Ledger, SpanOf
<1>2. \A h \in hits[c] : h.at \in Nat /\ h.counted \in Nat /\ h.at <= h.counted
  BY DEF CountInv, Ledger, Hit, Listed
<1>3. Live(c, t) \subseteq NewerThan(hits[c], start) BY <1>1, <1>2 DEF Live, NewerThan
<1>4. Outstanding(c, start) \subseteq Owing(c, t)
  <2> SUFFICES ASSUME NEW q \in Outstanding(c, start) PROVE q \in Owing(c, t) OBVIOUS
  <2>1. q \in Questions /\ ~Free(q) BY DEF Outstanding, GivenBack
  <2>2. PICK i \in 1..Len(charges[q]) : Charges(q)[i] = c /\ charges[q][i] > start
    BY DEF Outstanding, ChargedAfter
  <2>3. charges[q] \in Seq(Nat) BY <2>1 DEF CountInv, Ledger, Entry
  <2>4. charges[q][i] \in Nat BY <2>2, <2>3
  <2>5. t - charges[q][i] < SpanOf(c) BY <1>1, <2>2, <2>4
  <2>6. QED BY <2>1, <2>2, <2>5 DEF Owing
<1> HIDE DEF start
<1>5. IsFiniteSet(Owing(c, t)) BY FS_Subset, AdmissionAssumption DEF Owing
<1>6. Cardinality(Outstanding(c, start)) <= Cardinality(Owing(c, t)) /\ Cardinality(Owing(c, t)) \in Nat
      /\ Cardinality(Outstanding(c, start)) \in Nat
  BY <1>4, <1>5, FewerAreFewer
<1>7. Cardinality(NewerThan(hits[c], start)) <= Cardinality(Outstanding(c, start))
  BY <1>1 DEF CountInv, Covered
<1>8. IsFiniteSet(hits[c]) /\ NewerThan(hits[c], start) \subseteq hits[c] BY DEF CountInv, Ledger, NewerThan
<1>9. Cardinality(NewerThan(hits[c], start)) \in Nat BY <1>8, FS_Subset, FS_CardinalityType
<1>10. IsFiniteSet(NewerThan(hits[c], start)) BY <1>8, FS_Subset
<1>11. Cardinality(Live(c, t)) <= Cardinality(NewerThan(hits[c], start)) /\ Cardinality(Live(c, t)) \in Nat
  BY <1>3, <1>10, FewerAreFewer
<1>12. QED BY <1>6, <1>7, <1>9, <1>11

(* A refused question and one answered from the shared cache cost nothing: *)
(* no counter ever shows more recent hits than there are questions counted *)
(* recently that owe one, however late their charges are counted and       *)
(* however charges, refunds and expiry interleave (Limits.question,        *)
(* Limits.refund_question and SlidingWindow.refund).                       *)
THEOREM NothingFreeCounts == Spec => []NothingFreeIsCounted
<1>1. Spec => [](CountInv /\ Listed)
  BY InitCountInv, InitListed, NextCountInv, NextListed, PTL DEF Spec
<1>2. QED BY <1>1, CoveredIsEnough, PTL

-----------------------------------------------------------------------------
(* Whoever was told something has left the gate.                           *)
ToldInv ==
  /\ told \in [Questions -> BOOLEAN]
  /\ \A q \in Questions : told[q] => stage[q] \in {"busy", "refused", "done"}

LEMMA NextToldInv == GateTypes /\ ToldInv /\ [Next]_vars => ToldInv'
<1> SUFFICES ASSUME GateTypes, ToldInv, [Next]_vars PROVE ToldInv' OBVIOUS
<1> USE DEF ToldInv, GateTypes
<1>1. CASE UNCHANGED vars BY <1>1 DEF vars
<1>2. CASE Tick BY <1>2 DEF Tick
<1>3. ASSUME NEW q \in Questions, EnterGate(q) PROVE ToldInv' BY <1>3 DEF EnterGate, Go
<1>4. ASSUME NEW q \in Questions, Progress(q) PROVE ToldInv'
  <2>0. CASE ReadClock(q) BY <2>0 DEF ReadClock
  <2>1. CASE Charge(q) BY <2>1 DEF Charge, Go
  <2>2. CASE UndoCharge(q) BY <2>2 DEF UndoCharge
  <2>3. CASE Refuse(q) BY <2>3 DEF Refuse, Go
  <2>4. CASE StartThread(q) BY <2>4 DEF StartThread, Go
  <2>5. CASE StartFails(q) BY <2>5 DEF StartFails, Go
  <2>6. CASE Answer(q) BY <2>6 DEF Answer, Go
  <2>7. CASE RefundOne(q) BY <2>7 DEF RefundOne, Go
  <2>8. CASE Leave(q) BY <2>8 DEF Leave, Go
  <2>9. CASE Tell(q)
    <3>1. After("telling") = "done" BY DEF After
    <3>2. QED BY <2>9, <3>1 DEF Tell, Go
  <2>10. QED BY <1>4, <2>0, <2>1, <2>2, <2>3, <2>4, <2>5, <2>6, <2>7, <2>8, <2>9 DEF Progress
<1>5. QED BY <1>1, <1>2, <1>3, <1>4 DEF Next

(* A question is turned away as busy only while as many earlier ones as    *)
(* the gate admits are unanswered as their callers see it: hold frees the  *)
(* slot before the answer is sent (Limits.question, ConcurrencyGate.hold). *)
THEOREM NobodyRacesThemselves == Spec => BusyIsTrue
<1>1. Init => ToldInv BY DEF Init, ToldInv
<1>2. ASSUME IInv, ToldInv, [Next]_vars, NEW q \in Questions, stage[q] = "idle", stage'[q] = "busy"
      PROVE  \/ Cardinality({p \in Questions : Waiting(p) /\ IpOf[p] = IpOf[q]}) >= PerIp
             \/ Cardinality({p \in Questions : Waiting(p)}) >= Total
  <2> DEFINE Everybody == {p \in Questions : Waiting(p)}
             Here == {p \in Questions : Waiting(p) /\ IpOf[p] = IpOf[q]}
  <2>1. ~GateOpen(q)
    <3>1. stage \in [Questions -> Stages] BY <1>2 DEF IInv, GateTypes
    <3>2. ~UNCHANGED vars /\ ~Tick BY <1>2 DEF vars, Tick
    <3>3. ASSUME NEW p \in Questions, Progress(p) PROVE FALSE
      <4>1. stage[p] # "idle"
        BY <3>3 DEF Progress, ReadClock, Charge, UndoCharge, Refuse, StartThread, StartFails, Answer, RefundOne, Leave, Tell
      <4>2. stage'[q] = stage[q]
        BY <1>2, <3>1, <3>3, <4>1 DEF Progress, ReadClock, Charge, UndoCharge, Refuse, StartThread, StartFails, Answer,
           RefundOne, Leave, Tell, Go
      <4>3. QED BY <1>2, <4>2
    <3>4. PICK p \in Questions : EnterGate(p) BY <1>2, <3>2, <3>3 DEF Next
    <3>5. p = q BY <1>2, <3>1, <3>4 DEF EnterGate, Go
    <3>6. QED BY <1>2, <3>1, <3>4, <3>5 DEF EnterGate, Go
  <2>2. \A p \in Holders : Waiting(p) BY <1>2 DEF ToldInv, Waiting, Holders, Holding
  <2>3. Holders \subseteq Everybody /\ HoldersFrom(IpOf[q]) \subseteq Here
    BY <2>2 DEF Holders, HoldersFrom
  <2>4. IsFiniteSet(Everybody) /\ IsFiniteSet(Here) BY AdmissionAssumption, FS_Subset
  <2> HIDE DEF Everybody, Here
  <2>5. /\ Cardinality(Holders) <= Cardinality(Everybody)
        /\ Cardinality(Holders) \in Nat /\ Cardinality(Everybody) \in Nat
    BY <2>3, <2>4, FewerAreFewer
  <2>6. /\ Cardinality(HoldersFrom(IpOf[q])) <= Cardinality(Here)
        /\ Cardinality(HoldersFrom(IpOf[q])) \in Nat /\ Cardinality(Here) \in Nat
    BY <2>3, <2>4, FewerAreFewer
  <2>7. PerIp \in Nat /\ Total \in Nat /\ IpOf[q] \in Ips BY AdmissionAssumption
  <2>8. inFlight[IpOf[q]] = Cardinality(HoldersFrom(IpOf[q])) /\ Cardinality(Slots(inFlight)) = Cardinality(Holders)
    BY <1>2, <2>7 DEF IInv, CountsAgree
  <2>9. Cardinality(Here) >= PerIp \/ Cardinality(Everybody) >= Total
    BY <2>1, <2>5, <2>6, <2>7, <2>8 DEF GateOpen
  <2>10. QED BY <2>9 DEF Here, Everybody
<1>3. IInv => GateTypes BY DEF IInv
<1>4. IInv /\ ToldInv /\ [Next]_vars =>
        [\A q \in Questions : stage[q] = "idle" /\ stage'[q] = "busy" =>
           \/ Cardinality({p \in Questions : Waiting(p) /\ IpOf[p] = IpOf[q]}) >= PerIp
           \/ Cardinality({p \in Questions : Waiting(p)}) >= Total]_vars
  BY <1>2
<1>5. Spec => []ToldInv BY <1>1, <1>3, NextToldInv, Invariance, PTL DEF Spec
<1>6. QED BY <1>4, <1>5, Invariance, PTL DEF Spec, BusyIsTrue
=============================================================================
