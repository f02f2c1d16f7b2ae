------------------------ MODULE WakeupSources_proofs ------------------------
(***************************************************************************)
(* DisabledAfterInit and RequestHonoured hold with and without the         *)
(* external RTC, after any history of failed calls, alarms and restarts.   *)
(* What a sequence promises of a source is settled by the last of its      *)
(* remaining calls that touches the source, and when none does the source  *)
(* is as promised or a write of this sequence was lost on it unseen: that  *)
(* is the invariant while the sequence runs.                               *)
(***************************************************************************)
EXTENDS WakeupSources, SequenceTheorems, TLAPS

States == {"on", "off"}

(* The call c switches s, if it succeeds. *)
Decides(c, s) == c.src # "sms" /\ s \in Targets(c)

(* The calls of p, if all succeed, leave s w. *)
Settled(p, s, w) ==
  \E i \in 1..Len(p) :
    /\ Decides(p[i], s) /\ (SwitchesOn(p[i]) <=> w = "on")
    /\ \A j \in 1..Len(p) : i < j => ~Decides(p[j], s)
Untouched(p, s) == \A j \in 1..Len(p) : ~Decides(p[j], s)

(* What has been called for s took effect, or was lost unseen. *)
Stands(s, w) == (s \in on <=> w = "on") \/ s \in lost
Will(p, s, w) == Settled(p, s, w) \/ (Untouched(p, s) /\ Stands(s, w))

(* What the sequence t with the request r promises: s will be w. *)
Wish(s, r) == IF s \in r THEN "on" ELSE "off"
Promises(t, r, s, w) ==
  \/ t = "disable" /\ s \in {"mcu", "timer", "ign", "acc", "can0", "can1"} /\ w = "off"
  \/ t = "disable" /\ Rtc /\ s = "rtc" /\ w = "on"
  \/ /\ t = "request"
     /\ \/ s = "mcu" /\ w = "on"
        \/ s \in {"ign", "acc"} /\ w = Wish(s, r)
        \/ s = "can0" /\ w = Wish("can", r)
        \/ s = "can1" /\ w = "off"
        \/ s = "rtc" /\ w = "on" /\ "rtc" \in r /\ "timer" \notin r
        \/ s = "timer" /\ w = "off" /\ r \cap {"timer", "rtc"} = {}

Coming ==
  task # "none" =>
    /\ result = Nothing
    /\ \A s \in Sources, w \in States : Promises(task, req, s, w) => Will(plan, s, w)

(* The call whose failure a request overlooks is made only where nothing is *)
(* promised of the RTC.                                                     *)
Careful(p, r) == \A i \in 1..Len(p) : p[i] = Off("rtc") => r \cap {"timer", "rtc"} = {}
Overlooked == task = "request" => Careful(plan, req)

Kept ==
  result.end = "ok" =>
    \A s \in Sources, w \in States : Promises(result.of, req, s, w) => Stands(s, w)

(* No call writes the file of CAN2, and no record of a call says otherwise. *)
IInv == TypeOK /\ Coming /\ Overlooked /\ Kept /\ "can2" \notin on

-----------------------------------------------------------------------------
(* The calls of a sequence.                                                *)

LEMMA TargetsOf ==
  ASSUME NEW c
  PROVE  /\ c.src \in Cans => Targets(c) = {CanFile(c.src)}
         /\ c.src = "accDeinit" => Targets(c) = {}
         /\ c.src \notin Cans /\ c.src # "accDeinit" => Targets(c) = {c.src}
BY DEF Targets, Cans

LEMMA TargetsTyped ==
  ASSUME NEW c \in Calls
  PROVE  Targets(c) \subseteq Sources
BY TargetsOf DEF Calls, CanFile, Cans, Sources

LEMMA SettledRight ==
  ASSUME NEW p \in Seq(Calls), NEW q \in Seq(Calls), NEW s, NEW w \in States,
         Settled(q, s, w)
  PROVE  Settled(p \o q, s, w)
<1>1. PICK i \in 1..Len(q) :
        /\ Decides(q[i], s) /\ (SwitchesOn(q[i]) <=> w = "on")
        /\ \A j \in 1..Len(q) : i < j => ~Decides(q[j], s)
  BY DEF Settled
<1>2. /\ Len(p \o q) = Len(p) + Len(q)
      /\ \A k \in 1..Len(q) : (p \o q)[Len(p) + k] = q[k]
  OBVIOUS
<1>3. Len(p) + i \in 1..Len(p \o q)
  BY <1>2
<1>4. ASSUME NEW j \in 1..Len(p \o q), Len(p) + i < j PROVE ~Decides((p \o q)[j], s)
  <2>1. j - Len(p) \in 1..Len(q) /\ i < j - Len(p) /\ j = Len(p) + (j - Len(p))
    BY <1>2, <1>4
  <2> QED BY <1>1, <1>2, <2>1
<1> QED BY <1>1, <1>2, <1>3, <1>4 DEF Settled

LEMMA SettledLeft ==
  ASSUME NEW p \in Seq(Calls), NEW q \in Seq(Calls), NEW s, NEW w \in States,
         Settled(p, s, w), Untouched(q, s)
  PROVE  Settled(p \o q, s, w)
<1>1. PICK i \in 1..Len(p) :
        /\ Decides(p[i], s) /\ (SwitchesOn(p[i]) <=> w = "on")
        /\ \A j \in 1..Len(p) : i < j => ~Decides(p[j], s)
  BY DEF Settled
<1>2. /\ Len(p \o q) = Len(p) + Len(q)
      /\ \A k \in 1..Len(p) : (p \o q)[k] = p[k]
      /\ \A k \in 1..Len(q) : (p \o q)[Len(p) + k] = q[k]
  OBVIOUS
<1>3. i \in 1..Len(p \o q)
  BY <1>2
<1>4. ASSUME NEW j \in 1..Len(p \o q), i < j PROVE ~Decides((p \o q)[j], s)
  <2>1. CASE j <= Len(p)
    BY <1>1, <1>2, <1>4, <2>1
  <2>2. CASE j > Len(p)
    <3>1. j - Len(p) \in 1..Len(q) /\ j = Len(p) + (j - Len(p))
      BY <1>2, <2>2
    <3> QED BY <1>2, <3>1 DEF Untouched
  <2> QED BY <1>2, <2>1, <2>2
<1> QED BY <1>1, <1>2, <1>3, <1>4 DEF Settled

LEMMA UntouchedBoth ==
  ASSUME NEW p \in Seq(Calls), NEW q \in Seq(Calls), NEW s, Untouched(p, s), Untouched(q, s)
  PROVE  Untouched(p \o q, s)
<1>1. ASSUME NEW j \in 1..Len(p \o q) PROVE ~Decides((p \o q)[j], s)
  BY DEF Untouched
<1> QED BY <1>1 DEF Untouched

LEMMA CarefulBoth ==
  ASSUME NEW p \in Seq(Calls), NEW q \in Seq(Calls), NEW r, Careful(p, r), Careful(q, r)
  PROVE  Careful(p \o q, r)
<1>1. ASSUME NEW i \in 1..Len(p \o q), (p \o q)[i] = Off("rtc")
      PROVE  r \cap {"timer", "rtc"} = {}
  BY <1>1 DEF Careful
<1> QED BY <1>1 DEF Careful

LEMMA Joined ==
  ASSUME NEW p \in Seq(Calls), NEW q \in Seq(Calls), q # <<>>
  PROVE  p \o q \in Seq(Calls) /\ p \o q # <<>>
<1>1. Len(p \o q) = Len(p) + Len(q) /\ Len(q) > 0
  OBVIOUS
<1> QED BY <1>1

(* Which files the calls write. *)
LEMMA WhatIsDecided ==
  ASSUME NEW s \in Sources
  PROVE  /\ \A x \in {"mcu", "timer", "rtc", "ign", "acc"} :
              (Decides(On(x), s) <=> s = x) /\ (Decides(Off(x), s) <=> s = x)
         /\ (Decides(On("can0"), s) <=> s = "can1") /\ (Decides(Off("can0"), s) <=> s = "can1")
         /\ (Decides(On("can1"), s) <=> s = "can0") /\ (Decides(Off("can1"), s) <=> s = "can0")
         /\ (Decides(On("can2"), s) <=> s = "can0") /\ (Decides(Off("can2"), s) <=> s = "can0")
         /\ ~Decides(Off("accDeinit"), s)
<1>1. \A x : On(x).src = x /\ Off(x).src = x
  BY DEF On, Off
<1>2. ASSUME NEW x \in {"mcu", "timer", "rtc", "ign", "acc"}
      PROVE  (Decides(On(x), s) <=> s = x) /\ (Decides(Off(x), s) <=> s = x)
  <2>1. x \notin Cans /\ x # "accDeinit"
    BY DEF Cans
  <2>2. Targets(On(x)) = {x} /\ Targets(Off(x)) = {x}
    BY <1>1, <2>1, TargetsOf
  <2> QED BY <1>1, <2>2 DEF Decides
<1>3. ASSUME NEW x \in Cans
      PROVE  (Decides(On(x), s) <=> s = CanFile(x)) /\ (Decides(Off(x), s) <=> s = CanFile(x))
  <2>1. Targets(On(x)) = {CanFile(x)} /\ Targets(Off(x)) = {CanFile(x)}
    BY <1>1, TargetsOf
  <2> QED BY <1>1, <2>1 DEF Decides, Cans
<1>4. ~Decides(Off("accDeinit"), s)
  <2>1. Targets(Off("accDeinit")) = {}
    BY <1>1, TargetsOf
  <2> QED BY <2>1 DEF Decides
<1> QED BY <1>2, <1>3, <1>4 DEF Cans, CanFile

LEMMA CallsTyped ==
  /\ \A x \in Sources : On(x) \in Calls /\ Off(x) \in Calls
  /\ Off("accDeinit") \in Calls
  BY DEF On, Off, Calls

(* What the calls do, and that they differ from the overlooked one. *)
LEMMA OnAndOff ==
  ASSUME NEW x
  PROVE  /\ SwitchesOn(On(x))
         /\ SwitchesOn(Off(x)) <=> x = "rtc"
         /\ On(x) # Off("rtc")
         /\ Off(x) = Off("rtc") <=> x = "rtc"
<1>1. On(x).on = TRUE /\ On(x).src = x /\ Off(x).on = FALSE /\ Off(x).src = x
  BY DEF On, Off
<1>2. Off("rtc").on = FALSE /\ Off("rtc").src = "rtc"
  BY DEF Off
<1> QED BY <1>1, <1>2 DEF SwitchesOn

--------------------------------------------------------------------------------
(* The two sequences settle what they promise.                             *)

LEMMA ClockOff ==
  /\ (IF Rtc THEN <<Off("rtc")>> ELSE <<>>) \in Seq(Calls)
  /\ Rtc => Settled(IF Rtc THEN <<Off("rtc")>> ELSE <<>>, "rtc", "on")
  /\ \A s \in Sources \ {"rtc"} : Untouched(IF Rtc THEN <<Off("rtc")>> ELSE <<>>, s)
<1>1. Off("rtc") \in Calls /\ \A s \in Sources \ {"rtc"} : ~Decides(Off("rtc"), s)
  BY WhatIsDecided, CallsTyped DEF Sources, Off, Set
<1>2. Decides(Off("rtc"), "rtc") /\ SwitchesOn(Off("rtc"))
  BY WhatIsDecided, OnAndOff DEF Sources
<1> DEFINE O == <<Off("rtc")>>
<1>3. Settled(O, "rtc", "on")
  BY <1>2 DEF Settled
<1> HIDE DEF O
<1> QED BY <1>1, <1>3 DEF Untouched, O

LEMMA DisableSettles ==
  /\ DisablePlan \in Seq(Calls) /\ DisablePlan # <<>>
  /\ \A r : \A s \in Sources, w \in States :
       Promises("disable", r, s, w) => Settled(DisablePlan, s, w)
<1> DEFINE M == <<Off("mcu")>>
           K == IF Rtc THEN <<Off("rtc")>> ELSE <<>>
           R == <<Off("timer"), Off("ign"), Off("acc"), Off("can0"), Off("can1"), Off("can2")>>
<1>1. /\ Off("mcu") \in Calls /\ Off("timer") \in Calls /\ Off("ign") \in Calls
      /\ Off("acc") \in Calls /\ Off("can0") \in Calls /\ Off("can1") \in Calls
      /\ Off("can2") \in Calls
  BY CallsTyped DEF Sources, Cans
<1>2. M \in Seq(Calls) /\ K \in Seq(Calls) /\ R \in Seq(Calls) /\ M # <<>> /\ R # <<>>
  BY <1>1, ClockOff
<1>3. DisablePlan = (M \o K) \o R
  BY DEF DisablePlan
<1>4. M \o K \in Seq(Calls) /\ (M \o K) \o R \in Seq(Calls) /\ (M \o K) \o R # <<>>
  <2> HIDE DEF M, K, R
  <2>1. Len((M \o K) \o R) > 0
    BY <1>2
  <2> QED BY <1>2, <2>1
<1>5. /\ Settled(R, "timer", "off") /\ Settled(R, "ign", "off") /\ Settled(R, "acc", "off")
      /\ Settled(R, "can0", "off") /\ Settled(R, "can1", "off")
  <2>1. Len(R) = 6 /\ R[1] = Off("timer") /\ R[2] = Off("ign") /\ R[3] = Off("acc")
        /\ R[4] = Off("can0") /\ R[5] = Off("can1") /\ R[6] = Off("can2")
    OBVIOUS
  <2>2. \A s \in Sources :
          /\ Decides(R[1], s) <=> s = "timer"
          /\ Decides(R[2], s) <=> s = "ign"
          /\ Decides(R[3], s) <=> s = "acc"
          /\ Decides(R[4], s) <=> s = "can1"
          /\ Decides(R[5], s) <=> s = "can0"
          /\ Decides(R[6], s) <=> s = "can0"
    BY <2>1, WhatIsDecided DEF Off, Set
  <2>3. \A i \in 1..6 : ~SwitchesOn(R[i])
    BY <2>1, OnAndOff
  <2> HIDE DEF R
  <2>4. \A i \in 1..Len(R) : i = 1 \/ i = 2 \/ i = 3 \/ i = 4 \/ i = 5 \/ i = 6
    BY <2>1
  <2>5. Settled(R, "timer", "off")
    BY <2>1, <2>2, <2>3, <2>4 DEF Settled, Sources
  <2>6. Settled(R, "ign", "off")
    BY <2>1, <2>2, <2>3, <2>4 DEF Settled, Sources
  <2>7. Settled(R, "acc", "off")
    BY <2>1, <2>2, <2>3, <2>4 DEF Settled, Sources
  <2>8. Settled(R, "can1", "off")
    BY <2>1, <2>2, <2>3, <2>4 DEF Settled, Sources, Cans
  <2>9. Settled(R, "can0", "off")
    BY <2>1, <2>2, <2>3, <2>4 DEF Settled, Sources, Cans
  <2> QED BY <2>5, <2>6, <2>7, <2>8, <2>9
<1>6. Settled(M, "mcu", "off") /\ Untouched(R, "mcu")
  <2>1. /\ Decides(Off("mcu"), "mcu") /\ ~SwitchesOn(Off("mcu"))
        /\ \A x \in {"timer", "ign", "acc", "can0", "can1", "can2"} : ~Decides(Off(x), "mcu")
    BY WhatIsDecided, OnAndOff DEF Sources
  <2>2. Len(M) = 1 /\ M[1] = Off("mcu")
    OBVIOUS
  <2> QED BY <2>1, <2>2 DEF Settled, Untouched
<1>10. Untouched(R, "rtc")
  <2>1. \A x \in {"timer", "ign", "acc", "can0", "can1", "can2"} : ~Decides(Off(x), "rtc")
    BY WhatIsDecided DEF Sources
  <2> QED BY <2>1 DEF Untouched
<1> HIDE DEF M, R
<1>7. Settled((M \o K) \o R, "mcu", "off")
  <2>1. Untouched(K, "mcu")
    BY ClockOff DEF Sources
  <2>2. Settled(M \o K, "mcu", "off")
    BY <1>2, <1>6, <2>1, SettledLeft DEF States
  <2> QED BY <1>2, <1>4, <1>6, <2>2, SettledLeft DEF States
<1>8. \A s \in {"timer", "ign", "acc", "can0", "can1"} : Settled((M \o K) \o R, s, "off")
  BY <1>2, <1>4, <1>5, SettledRight DEF States
<1>9. Rtc => Settled((M \o K) \o R, "rtc", "on")
  <2> SUFFICES ASSUME Rtc PROVE Settled((M \o K) \o R, "rtc", "on")
    OBVIOUS
  <2>1. Settled(M \o K, "rtc", "on")
    BY <1>2, ClockOff, SettledRight DEF States
  <2> QED BY <1>2, <1>4, <1>10, <2>1, SettledLeft DEF States
<1> QED BY <1>3, <1>4, <1>7, <1>8, <1>9 DEF Promises

LEMMA RequestSettles ==
  ASSUME NEW r \in Requests
  PROVE  /\ RequestPlan(r) \in Seq(Calls) /\ RequestPlan(r) # <<>>
         /\ \A s \in Sources, w \in States :
              Promises("request", r, s, w) => Settled(RequestPlan(r), s, w)
         /\ Careful(RequestPlan(r), r)
<1> DEFINE I == IF "ign" \in r THEN On("ign") ELSE Off("ign")
           J == IF "can" \in r THEN On("can2") ELSE Off("can2")
           P == <<Off("can0"), Off("can1"), I>>
           A == AccPart(r)
           C == <<J>>
           K == ClockPart(r)
           M == <<On("mcu")>>
<1>1. RequestPlan(r) = (((P \o A) \o C) \o K) \o M
  BY DEF RequestPlan, Set
<1>0. /\ I \in Calls /\ I # Off("rtc") /\ (SwitchesOn(I) <=> Wish("ign", r) = "on")
      /\ J \in Calls /\ J # Off("rtc") /\ (SwitchesOn(J) <=> Wish("can", r) = "on")
      /\ \A s \in Sources : (Decides(I, s) <=> s = "ign") /\ (Decides(J, s) <=> s = "can0")
      /\ Wish("ign", r) \in States /\ Wish("can", r) \in States /\ Wish("acc", r) \in States
  BY CallsTyped, OnAndOff, WhatIsDecided DEF Wish, States, Sources, Cans
<1> HIDE DEF I, J
<1>2. P \in Seq(Calls) /\ C \in Seq(Calls) /\ M \in Seq(Calls) /\ M # <<>>
  <2>1. /\ Off("can0") \in Calls /\ Off("can1") \in Calls /\ On("mcu") \in Calls
    BY CallsTyped DEF Sources, Cans
  <2> QED BY <1>0, <2>1
<1>3. /\ A \in Seq(Calls)
      /\ Settled(A, "acc", Wish("acc", r))
      /\ \A s \in Sources \ {"acc"} : Untouched(A, s)
      /\ A # <<>> /\ Careful(A, r)
  <2>1. /\ On("acc") \in Calls /\ Off("acc") \in Calls /\ Off("accDeinit") \in Calls
        /\ SwitchesOn(On("acc")) /\ ~SwitchesOn(Off("acc"))
        /\ On("acc") # Off("rtc") /\ Off("acc") # Off("rtc") /\ Off("accDeinit") # Off("rtc")
    BY CallsTyped, OnAndOff DEF Sources
  <2>2. \A s \in Sources : /\ Decides(On("acc"), s) <=> s = "acc"
                           /\ Decides(Off("acc"), s) <=> s = "acc"
                           /\ ~Decides(Off("accDeinit"), s)
    BY WhatIsDecided
  <2>3. "acc" \in Sources
    BY DEF Sources
  <2>4. CASE "acc" \in r
    <3>1. A = <<On("acc")>>
      BY <2>4 DEF AccPart
    <3>2. A \in Seq(Calls) /\ Len(A) = 1 /\ A[1] = On("acc")
      BY <2>1, <3>1
    <3> HIDE DEF A
    <3> QED BY <2>1, <2>2, <2>3, <2>4, <3>2 DEF Settled, Untouched, Careful, Wish
  <2>5. CASE "acc" \notin r
    <3>1. A = <<Off("acc"), Off("accDeinit")>>
      BY <2>5 DEF AccPart
    <3>2. A \in Seq(Calls) /\ Len(A) = 2 /\ A[1] = Off("acc") /\ A[2] = Off("accDeinit")
      BY <2>1, <3>1
    <3>3. \A i \in 1..Len(A) : i = 1 \/ i = 2
      BY <3>2
    <3> HIDE DEF A
    <3> QED BY <2>1, <2>2, <2>3, <2>5, <3>2, <3>3 DEF Settled, Untouched, Careful, Wish
  <2> QED BY <2>4, <2>5
<1>4. /\ K \in Seq(Calls)
      /\ "rtc" \in r /\ "timer" \notin r => Settled(K, "rtc", "on")
      /\ r \cap {"timer", "rtc"} = {} => Settled(K, "timer", "off")
      /\ \A s \in Sources \ {"rtc", "timer"} : Untouched(K, s)
      /\ K # <<>> /\ Careful(K, r)
  <2>1. /\ On("timer") \in Calls /\ On("rtc") \in Calls
        /\ Off("timer") \in Calls
        /\ SwitchesOn(On("rtc")) /\ ~SwitchesOn(Off("timer"))
        /\ On("timer") # Off("rtc") /\ On("rtc") # Off("rtc")
        /\ Off("timer") # Off("rtc")
    BY CallsTyped, OnAndOff DEF Sources
  <2>2. \A s \in Sources : /\ Decides(On("timer"), s) <=> s = "timer"
                           /\ Decides(Off("timer"), s) <=> s = "timer"
                           /\ Decides(On("rtc"), s) <=> s = "rtc"
    BY WhatIsDecided
  <2>3. "timer" \in Sources /\ "rtc" \in Sources
    BY DEF Sources
  <2>4. CASE "timer" \in r
    <3>1. K = <<On("timer")>>
      BY <2>4 DEF ClockPart
    <3>2. K \in Seq(Calls) /\ Len(K) = 1 /\ K[1] = On("timer")
      BY <2>1, <3>1
    <3>3. r \cap {"timer", "rtc"} # {}
      BY <2>4
    <3> HIDE DEF K
    <3>4. \A s \in Sources \ {"rtc", "timer"} : Untouched(K, s)
      BY <2>2, <3>2 DEF Untouched
    <3>5. Careful(K, r)
      BY <2>1, <3>2 DEF Careful
    <3>6. K # <<>>
      BY <3>2
    <3> QED BY <2>4, <3>2, <3>3, <3>4, <3>5, <3>6
  <2>5. CASE "timer" \notin r /\ "rtc" \in r
    <3>1. K = <<On("rtc")>>
      BY <2>5 DEF ClockPart
    <3>2. K \in Seq(Calls) /\ Len(K) = 1 /\ K[1] = On("rtc")
      BY <2>1, <3>1
    <3> HIDE DEF K
    <3> QED BY <2>1, <2>2, <2>3, <2>5, <3>2 DEF Settled, Untouched, Careful
  <2>6. CASE "timer" \notin r /\ "rtc" \notin r
    <3> DEFINE O == IF Rtc THEN <<Off("rtc")>> ELSE <<>>
               T == <<Off("timer")>>
    <3>1. K = O \o T
      BY <2>6 DEF ClockPart
    <3>2. O \in Seq(Calls) /\ T \in Seq(Calls) /\ Len(T) = 1 /\ T[1] = Off("timer")
      BY <2>1, ClockOff
    <3>3. Settled(T, "timer", "off") /\ \A s \in Sources \ {"timer"} : Untouched(T, s)
      BY <2>1, <2>2, <2>3, <3>2 DEF Settled, Untouched
    <3>4. \A s \in Sources \ {"rtc"} : Untouched(O, s)
      BY ClockOff
    <3> HIDE DEF O, T, K
    <3>5. K \in Seq(Calls) /\ K # <<>> /\ Settled(K, "timer", "off")
      BY <3>1, <3>2, <3>3, SettledRight, Joined DEF States
    <3>6. \A s \in Sources \ {"rtc", "timer"} : Untouched(K, s)
      BY <3>1, <3>2, <3>3, <3>4, UntouchedBoth
    <3> QED BY <2>6, <3>5, <3>6 DEF Careful
  <2> QED BY <2>4, <2>5, <2>6
<1>5. /\ Settled(P, "ign", Wish("ign", r)) /\ Settled(P, "can1", "off")
      /\ Careful(P, r)
  <2>1. Len(P) = 3 /\ P[1] = Off("can0") /\ P[2] = Off("can1") /\ P[3] = I
    OBVIOUS
  <2>2. /\ SwitchesOn(P[3]) <=> Wish("ign", r) = "on"
        /\ ~SwitchesOn(P[1])
        /\ P[1] # Off("rtc") /\ P[2] # Off("rtc") /\ P[3] # Off("rtc")
    BY <1>0, <2>1, OnAndOff
  <2>3. \A s \in Sources : /\ Decides(P[1], s) <=> s = "can1"
                           /\ Decides(P[2], s) <=> s = "can0"
                           /\ Decides(P[3], s) <=> s = "ign"
    BY <1>0, <2>1, WhatIsDecided DEF Off, Set
  <2> HIDE DEF P
  <2>4. \A i \in 1..Len(P) : i = 1 \/ i = 2 \/ i = 3
    BY <2>1
  <2> QED BY <2>1, <2>2, <2>3, <2>4 DEF Settled, Careful, Sources, Cans
<1>6. /\ Settled(C, "can0", Wish("can", r))
      /\ \A s \in Sources \ {"can0"} : Untouched(C, s)
      /\ Careful(C, r)
  <2>1. Len(C) = 1 /\ C[1] = J
    OBVIOUS
  <2>2. /\ SwitchesOn(C[1]) <=> Wish("can", r) = "on"
        /\ C[1] # Off("rtc")
    BY <1>0, <2>1, OnAndOff
  <2>3. \A s \in Sources : Decides(C[1], s) <=> s = "can0"
    BY <1>0, <2>1, WhatIsDecided
  <2> HIDE DEF C
  <2> QED BY <2>1, <2>2, <2>3 DEF Settled, Untouched, Careful, Sources, Cans
<1>7. /\ Settled(M, "mcu", "on")
      /\ \A s \in Sources \ {"mcu"} : Untouched(M, s)
      /\ Careful(M, r)
  <2>1. Len(M) = 1 /\ M[1] = On("mcu")
    OBVIOUS
  <2>2. SwitchesOn(M[1]) /\ M[1] # Off("rtc")
    BY <1>0, <2>1, OnAndOff
  <2>3. \A s \in Sources : Decides(M[1], s) <=> s = "mcu"
    BY <1>0, <2>1, WhatIsDecided
  <2> HIDE DEF M
  <2> QED BY <2>1, <2>2, <2>3 DEF Settled, Untouched, Careful, Sources
<1> HIDE DEF P, A, C, K, M
<1> DEFINE PA == P \o A
           PAC == PA \o C
           PACK == PAC \o K
           All == PACK \o M
<1>8. PA \in Seq(Calls) /\ PA # <<>> /\ Careful(PA, r)
  BY <1>2, <1>3, <1>5, Joined, CarefulBoth
<1> HIDE DEF PA
<1>9. PAC \in Seq(Calls) /\ Careful(PAC, r)
  BY <1>2, <1>6, <1>8, Joined, CarefulBoth
<1> HIDE DEF PAC
<1>10. PACK \in Seq(Calls) /\ Careful(PACK, r)
  BY <1>4, <1>9, Joined, CarefulBoth
<1> HIDE DEF PACK
<1>11. All \in Seq(Calls) /\ All # <<>> /\ Careful(All, r)
  BY <1>2, <1>7, <1>10, Joined, CarefulBoth
<1>12. All = RequestPlan(r)
  BY <1>1 DEF PACK, PAC, PA
<1>14. Settled(All, "mcu", "on")
  BY <1>2, <1>7, <1>10, SettledRight DEF States
<1> HIDE DEF All
<1>15. \A s \in Sources \ {"mcu"}, w \in States : Settled(PACK, s, w) => Settled(All, s, w)
  BY <1>2, <1>7, <1>10, SettledLeft DEF All
<1>16. \A s \in Sources \ {"mcu", "rtc", "timer"}, w \in States :
         Settled(PAC, s, w) => Settled(All, s, w)
  BY <1>4, <1>9, <1>15, SettledLeft DEF PACK
<1>17. \A s \in {"rtc", "timer"}, w \in States : Settled(K, s, w) => Settled(All, s, w)
  BY <1>4, <1>9, <1>15, SettledRight DEF PACK, Sources
<1>18. Settled(All, "can0", Wish("can", r))
  BY <1>0, <1>2, <1>6, <1>8, <1>16, SettledRight DEF PAC, Sources, Cans
<1>19. \A s \in {"ign", "acc", "can1"}, w \in States : Settled(PA, s, w) => Settled(All, s, w)
  BY <1>2, <1>6, <1>8, <1>16, SettledLeft DEF PAC, Sources, Cans
<1>20. Settled(All, "acc", Wish("acc", r))
  BY <1>0, <1>2, <1>3, <1>19, SettledRight DEF PA
<1>21. Settled(All, "ign", Wish("ign", r)) /\ Settled(All, "can1", "off")
  BY <1>0, <1>2, <1>3, <1>5, <1>19, SettledLeft DEF PA, Sources, Cans, States
<1>22. ASSUME NEW s \in Sources, NEW w \in States, Promises("request", r, s, w)
       PROVE  Settled(All, s, w)
  BY <1>4, <1>14, <1>17, <1>18, <1>20, <1>21, <1>22 DEF Promises, States
<1> QED BY <1>11, <1>12, <1>22

-----------------------------------------------------------------------------
(* The steps.                                                              *)

(* A call that returns 0 leaves what it switches in the state it asks for   *)
(* or misses it, and everything else alone.                                 *)
LEMMA CallSwitches ==
  ASSUME NEW c \in Calls, Succeeds(c), NEW s \in Sources
  PROVE  /\ Decides(c, s) => (s \in on' <=> SwitchesOn(c)) \/ s \in Missed(c)
         /\ ~Decides(c, s) /\ c.src # "sms" => (s \in on' <=> s \in on)
         /\ c.src = "sms" /\ s # "sms" => (s \in on' <=> s \in on)
<1>1. c.src = "sms" => Targets(c) = {"sms"}
  BY TargetsOf DEF Cans
<1>2. Decides(c, s) => (s \in on' <=> SwitchesOn(c)) \/ s \in Missed(c)
  BY DEF Decides, Missed
<1>3. /\ ~Decides(c, s) /\ c.src # "sms" => (s \in on' <=> s \in on)
      /\ c.src = "sms" /\ s # "sms" => (s \in on' <=> s \in on)
  BY <1>1 DEF Succeeds, Switch, Decides
<1> QED BY <1>2, <1>3

(* The writes of the CAN files are never missed.                            *)
LEMMA MissedTyped ==
  ASSUME NEW c \in Calls, Succeeds(c)
  PROVE  Missed(c) \subseteq Sources \ Cans
<1>1. Missed(c) \subseteq Targets(c) /\ Targets(c) \subseteq Sources
  BY TargetsTyped DEF Missed
<1>2. CASE c.src \in Cans
  <2>1. Switch(c)
    BY <1>2 DEF Succeeds, Unseen
  <2>2. ASSUME NEW s \in Targets(c) PROVE s \in on' <=> SwitchesOn(c)
    BY <2>1, <2>2 DEF Switch
  <2> QED BY <2>2 DEF Missed
<1>3. CASE c.src \notin Cans
  <2>1. Targets(c) \cap Cans = {}
    BY <1>3, TargetsOf
  <2> QED BY <1>1, <2>1
<1> QED BY <1>2, <1>3

LEMMA SwitchTyped ==
  ASSUME TypeOK, NEW c \in Calls, Succeeds(c) \/ Fails(c)
  PROVE  /\ on' \subseteq Sources /\ accUp' \in BOOLEAN
         /\ "can2" \notin on => "can2" \notin on'
<1>1. Targets(c) \subseteq Sources /\ "can2" \notin Targets(c)
  BY TargetsTyped, TargetsOf DEF CanFile, Cans
<1>2. CASE Succeeds(c)
  BY <1>1, <1>2 DEF Succeeds, Switch, TypeOK
<1>3. CASE Fails(c)
  BY <1>1, <1>3 DEF Fails, Switch, TypeOK
<1> QED BY <1>2, <1>3

LEMMA HeadAndTail ==
  ASSUME NEW p \in Seq(Calls), p # <<>>
  PROVE  /\ Head(p) \in Calls /\ Head(p) = p[1] /\ Len(p) \in Nat /\ Len(p) > 0
         /\ Tail(p) \in Seq(Calls) /\ Len(Tail(p)) = Len(p) - 1
         /\ \A i \in 1..Len(Tail(p)) : Tail(p)[i] = p[i + 1] /\ i + 1 \in 1..Len(p)
         /\ \A i \in 1..Len(p) : i # 1 => i - 1 \in 1..Len(Tail(p)) /\ Tail(p)[i - 1] = p[i]
  OBVIOUS

(* After a step that treats s as the first call of p says, the rest of p    *)
(* leaves s as all of p would have.                                         *)
LEMMA WillStep ==
  ASSUME NEW p \in Seq(Calls), p # <<>>, NEW s \in Sources, NEW w \in States, Will(p, s, w),
         Decides(Head(p), s) => (s \in on' <=> SwitchesOn(Head(p))) \/ s \in lost',
         ~Decides(Head(p), s) => (s \in on' <=> s \in on),
         lost \subseteq lost'
  PROVE  \/ Settled(Tail(p), s, w)
         \/ Untouched(Tail(p), s) /\ Stands(s, w)'
<1>1. CASE Untouched(p, s) /\ Stands(s, w)
  BY <1>1, HeadAndTail DEF Untouched, Stands
<1>2. CASE Settled(p, s, w)
  <2>1. PICK i \in 1..Len(p) :
          /\ Decides(p[i], s) /\ (SwitchesOn(p[i]) <=> w = "on")
          /\ \A j \in 1..Len(p) : i < j => ~Decides(p[j], s)
    BY <1>2 DEF Settled
  <2>2. CASE i = 1
    <3>1. \A k \in 1..Len(Tail(p)) : ~Decides(Tail(p)[k], s)
      BY <2>1, <2>2, HeadAndTail
    <3> QED BY <2>1, <2>2, <3>1, HeadAndTail DEF Untouched, Stands
  <2>3. CASE i # 1
    <3>1. i - 1 \in 1..Len(Tail(p)) /\ Tail(p)[i - 1] = p[i]
      BY <2>3, HeadAndTail
    <3>2. \A k \in 1..Len(Tail(p)) : i - 1 < k => ~Decides(Tail(p)[k], s)
      BY <2>1, HeadAndTail
    <3> QED BY <2>1, <3>1, <3>2 DEF Settled
  <2> QED BY <2>2, <2>3
<1> QED BY <1>1, <1>2 DEF Will

LEMMA GoesOn ==
  ASSUME IInv, task # "none", GoOn,
         on' \subseteq Sources, accUp' \in BOOLEAN, "can2" \notin on',
         lost' \subseteq Sources \ Cans, lost \subseteq lost',
         \A s \in Sources, w \in States : Promises(task, req, s, w) =>
           /\ Decides(Head(plan), s) =>
                (s \in on' <=> SwitchesOn(Head(plan))) \/ s \in lost'
           /\ ~Decides(Head(plan), s) => (s \in on' <=> s \in on)
  PROVE  IInv'
<1> DEFINE rest == Tail(plan)
<1>1. plan \in Seq(Calls) /\ plan # <<>> /\ rest \in Seq(Calls) /\ Len(rest) = Len(plan) - 1
  BY HeadAndTail DEF IInv, TypeOK
<1>2. ASSUME NEW s \in Sources, NEW w \in States, Promises(task, req, s, w)
      PROVE  \/ Settled(rest, s, w)
             \/ Untouched(rest, s) /\ Stands(s, w)'
  <2>1. Will(plan, s, w)
    BY <1>2 DEF IInv, Coming
  <2> QED BY <1>1, <1>2, <2>1, WillStep
<1>3. CASE Len(plan) > 1
  <2>0. rest # <<>>
    <3> HIDE DEF rest
    <3>1. Len(rest) > 0
      BY <1>1, <1>3
    <3> QED BY <3>1
  <2>1. plan' = rest /\ task' = task /\ req' = req /\ result' = result /\ rest # <<>>
    BY <1>3, <2>0 DEF GoOn
  <2>2. TypeOK'
    BY <1>1, <2>1 DEF IInv, TypeOK
  <2>3. Careful(plan, req) => Careful(rest, req)
    BY <1>1, HeadAndTail DEF Careful
  <2>4. result = Nothing
    BY DEF IInv, Coming
  <2> HIDE DEF rest
  <2>5. Coming'
    BY <1>2, <2>1, <2>4 DEF Coming, Will
  <2>6. Overlooked'
    BY <2>1, <2>3 DEF IInv, Overlooked
  <2>7. Kept'
    BY <2>1, <2>4 DEF Kept, Nothing
  <2> QED BY <2>2, <2>5, <2>6, <2>7 DEF IInv
<1>4. CASE ~(Len(plan) > 1)
  <2>1. /\ task' = "none" /\ plan' = <<>> /\ req' = req
        /\ result' = [of |-> task, end |-> "ok"]
    BY <1>4 DEF GoOn, Return
  <2>2. TypeOK'
    BY <2>1 DEF IInv, TypeOK, Tasks, Results
  <2>3. Len(rest) = 0
    BY <1>1, <1>4
  <2>4. \A s \in Sources, w \in States : ~Settled(rest, s, w)
    BY <2>3 DEF Settled
  <2> HIDE DEF rest
  <2>5. Kept'
    <3>1. result'.of = task
      BY <2>1
    <3> QED BY <1>2, <2>1, <2>4, <3>1 DEF Kept
  <2> QED BY <2>1, <2>2, <2>5 DEF IInv, Coming, Overlooked
<1> QED BY <1>3, <1>4

LEMMA ReturnKeeps ==
  ASSUME IInv, task # "none", Return("failed"),
         on' \subseteq Sources, accUp' \in BOOLEAN, "can2" \notin on', UNCHANGED lost
  PROVE  IInv'
<1>1. /\ task' = "none" /\ plan' = <<>> /\ req' = req
      /\ result' = [of |-> task, end |-> "failed"]
  BY DEF Return
<1>2. TypeOK'
  BY <1>1 DEF IInv, TypeOK, Tasks, Results
<1> QED BY <1>1, <1>2 DEF IInv, Coming, Overlooked, Kept

LEMMA StartKeeps ==
  ASSUME IInv, DisableAll \/ Request
  PROVE  IInv'
<1>1. ASSUME NEW t \in {"disable", "request"}, NEW p \in Seq(Calls), NEW r,
             r \subseteq Sources \cup {"can"}, p # <<>>, Start(t, p, r),
             \A s \in Sources, w \in States : Promises(t, r, s, w) => Settled(p, s, w),
             t = "request" => Careful(p, r)
      PROVE  IInv'
  <2>1. /\ task' = t /\ plan' = p /\ req' = r /\ result' = Nothing
        /\ on' = on /\ accUp' = accUp /\ lost' = {}
    BY <1>1 DEF Start
  <2>2. TypeOK'
    BY <1>1, <2>1 DEF IInv, TypeOK, Tasks, Results, Nothing
  <2>3. Coming'
    BY <1>1, <2>1 DEF Coming, Will
  <2>4. Overlooked' /\ Kept'
    BY <1>1, <2>1 DEF Overlooked, Kept, Nothing
  <2> QED BY <2>1, <2>2, <2>3, <2>4 DEF IInv
<1>2. CASE DisableAll
  BY <1>1, <1>2, DisableSettles DEF DisableAll
<1>3. CASE Request
  <2>1. PICK r \in Requests : Start("request", RequestPlan(r), r)
    BY <1>3 DEF Request
  <2>2. r \subseteq Sources \cup {"can"}
    BY DEF Requests, Sources
  <2> QED BY <1>1, <2>1, <2>2, RequestSettles
<1> QED BY <1>2, <1>3

LEMMA InitIInv == Init => IInv
<1> SUFFICES ASSUME Init PROVE IInv
  OBVIOUS
<1>1. Nothing \in Results /\ "none" \in Tasks /\ <<>> \in Seq(Calls)
  BY DEF Nothing, Results, Tasks
<1>2. accUp \in BOOLEAN
  BY DEF Init
<1>3. TypeOK
  BY <1>1, <1>2 DEF Init, TypeOK
<1> QED BY <1>3 DEF Init, IInv, Coming, Overlooked, Kept, Nothing

LEMMA NextIInv == IInv /\ [Next]_vars => IInv'
<1> SUFFICES ASSUME IInv, [Next]_vars PROVE IInv'
  OBVIOUS
<1>1. CASE Config
  <2>1. PICK s \in Sources, b \in BOOLEAN :
          /\ task = "none"
          /\ \/ Succeeds(Set(s, b)) /\ result' = [of |-> "config", end |-> "ok"]
             \/ Fails(Set(s, b)) /\ result' = [of |-> "config", end |-> "failed"]
          /\ req' = {x \in {s} : b} /\ lost' = {}
          /\ UNCHANGED <<task, plan>>
    BY <1>1 DEF Config
  <2>2. Set(s, b) \in Calls
    BY CallsTyped DEF Set
  <2>3. on' \subseteq Sources /\ accUp' \in BOOLEAN /\ "can2" \notin on'
    BY <2>1, <2>2, SwitchTyped DEF IInv
  <2>4. TypeOK'
    BY <2>1, <2>3 DEF IInv, TypeOK, Results
  <2>5. Kept'
    <3>1. result'.of = "config"
      BY <2>1
    <3> QED BY <3>1 DEF Kept, Promises
  <2> QED BY <2>1, <2>3, <2>4, <2>5 DEF IInv, Coming, Overlooked
<1>2. CASE DisableAll \/ Request
  BY <1>2, StartKeeps
<1>3. CASE StepSucceeds
  <2>1. task # "none" /\ Succeeds(Head(plan)) /\ GoOn /\ Head(plan) \in Calls
    BY <1>3, HeadAndTail DEF StepSucceeds, IInv, TypeOK
  <2>2. on' \subseteq Sources /\ accUp' \in BOOLEAN /\ "can2" \notin on'
    BY <2>1, SwitchTyped DEF IInv
  <2>4. /\ lost' = lost \cup Missed(Head(plan)) /\ lost \subseteq lost'
        /\ lost' \subseteq Sources \ Cans
    BY <1>3, <2>1, MissedTyped DEF StepSucceeds, IInv, TypeOK
  <2>3. ASSUME NEW s \in Sources, NEW w \in States, Promises(task, req, s, w)
        PROVE  /\ Decides(Head(plan), s) =>
                    (s \in on' <=> SwitchesOn(Head(plan))) \/ s \in lost'
               /\ ~Decides(Head(plan), s) => (s \in on' <=> s \in on)
    <3>1. s # "sms"
      BY <2>3 DEF Promises
    <3> QED BY <2>1, <2>4, <3>1, CallSwitches
  <2> QED BY <2>1, <2>2, <2>3, <2>4, GoesOn
<1>4. CASE StepFails
  <2>1. task # "none" /\ Fails(Head(plan)) /\ Head(plan) \in Calls /\ UNCHANGED lost
    BY <1>4, HeadAndTail DEF StepFails, IInv, TypeOK
  <2>5. lost' \subseteq Sources \ Cans /\ lost \subseteq lost'
    BY <2>1 DEF IInv, TypeOK
  <2>2. on' \subseteq Sources /\ accUp' \in BOOLEAN /\ "can2" \notin on'
    BY <2>1, SwitchTyped DEF IInv
  <2>3. CASE Overwritten
    <3>1. GoOn /\ task = "request" /\ Head(plan) = Off("rtc")
      BY <1>4, <2>3 DEF StepFails, Overwritten
    <3>2. req \cap {"timer", "rtc"} = {}
      BY <2>1, <3>1, HeadAndTail DEF IInv, TypeOK, Overlooked, Careful
    <3>3. \A s \in Sources \ {"rtc"} : s \in on' <=> s \in on
      BY <2>1, <3>1 DEF Fails, Off
    <3>4. ASSUME NEW s \in Sources, NEW w \in States, Promises(task, req, s, w)
          PROVE  ~Decides(Head(plan), s) /\ s # "rtc"
      <4>1. s # "rtc"
        BY <3>1, <3>2, <3>4 DEF Promises
      <4> QED BY <3>1, <4>1, WhatIsDecided
    <3> QED BY <2>1, <2>2, <2>5, <3>1, <3>3, <3>4, GoesOn
  <2>4. CASE ~Overwritten
    BY <1>4, <2>1, <2>2, <2>4, ReturnKeeps DEF StepFails
  <2> QED BY <2>3, <2>4
<1>5. CASE AlarmFires
  <2>1. /\ on' = on \ {"timer"} /\ task' = task /\ plan' = plan /\ req' = req
        /\ result' = result /\ accUp' = accUp /\ lost' = lost
    BY <1>5 DEF AlarmFires
  <2>2. TypeOK'
    BY <2>1 DEF IInv, TypeOK
  <2>3. \A t, r, w : w \in States /\ Promises(t, r, "timer", w) => w = "off"
    BY DEF Promises
  <2>4. \A p, s, t, r, w : s \in Sources /\ w \in States /\ Promises(t, r, s, w) =>
          (Will(p, s, w) => Settled(p, s, w) \/ (Untouched(p, s) /\ Stands(s, w)'))
    BY <2>1, <2>3 DEF Will, States, Stands
  <2>5. Coming'
    BY <2>1, <2>4 DEF IInv, Coming, Will
  <2>6. Kept'
    BY <2>1, <2>3 DEF IInv, Kept, States, Stands
  <2>7. Overlooked'
    BY <2>1 DEF IInv, Overlooked
  <2> QED BY <2>1, <2>2, <2>5, <2>6, <2>7 DEF IInv
<1>6. CASE Restart
  <2>1. Nothing \in Results /\ "none" \in Tasks /\ <<>> \in Seq(Calls)
    BY DEF Nothing, Results, Tasks
  <2>2. accUp' \in BOOLEAN
    BY <1>6 DEF Restart
  <2>3. TypeOK'
    BY <1>6, <2>1, <2>2 DEF Restart, IInv, TypeOK
  <2> QED BY <1>6, <2>3 DEF Restart, IInv, Coming, Overlooked, Kept, Nothing
<1>7. CASE UNCHANGED vars
  BY <1>7 DEF vars, IInv, TypeOK, Coming, Overlooked, Kept, Will, Stands
<1> QED BY <1>1, <1>2, <1>3, <1>4, <1>5, <1>6, <1>7 DEF Next

LEMMA Invariant == Spec => []IInv
BY InitIInv, NextIInv, PTL DEF Spec

-----------------------------------------------------------------------------
(* The theorems.                                                           *)

(* The sources, the calls and the results stay in their sets; a sequence   *)
(* that is at work has a call to make (power_management.c 19-97,           *)
(* mcu_test_app.c 66-215).                                                 *)
THEOREM TypeCorrect == Spec => []TypeOK
BY Invariant, PTL DEF IInv

(* After a disable_all_wakeup_sources() that returned 0, what can still     *)
(* wake the device of the six sources is what a call could not see itself  *)
(* fail to switch off; the CAN files are never among it, in spite of the   *)
(* crossed names (power_management.c 19-97).                               *)
THEOREM DisabledAll == Spec => []DisabledAfterInit
<1>1. IInv => DisabledAfterInit
  <2> SUFFICES ASSUME IInv, result = [of |-> "disable", end |-> "ok"],
                      NEW s \in {"mcu", "timer", "ign", "acc", "can0", "can1"}, s \in on
               PROVE  s \in lost
    BY DEF DisabledAfterInit, Returned
  <2>1. result.of = "disable" /\ result.end = "ok"
    OBVIOUS
  <2>2. Promises(result.of, req, s, "off") /\ s \in Sources /\ "off" \in States
    BY <2>1 DEF Promises, Sources, Cans, States
  <2> QED BY <2>1, <2>2 DEF IInv, Kept, Stands
<1> QED BY <1>1, Invariant, PTL

(* The two CAN files alone are certain: after a                             *)
(* disable_all_wakeup_sources() that returned 0 neither says "enabled",     *)
(* because config_can_wakeup() tests its fclose() (power_management.c       *)
(* 435-443, 469-477, 503-511).                                              *)
THEOREM CanDisabled == Spec => [](Returned("disable") => on \cap Cans = {})
<1>1. IInv => (Returned("disable") => on \cap Cans = {})
  <2> SUFFICES ASSUME IInv, result = [of |-> "disable", end |-> "ok"], NEW s \in Cans
               PROVE  s \notin on
    BY DEF Returned
  <2>1. result.of = "disable" /\ result.end = "ok"
    OBVIOUS
  <2>2. lost \cap Cans = {}
    BY DEF IInv, TypeOK
  <2>3. CASE s = "can2"
    BY <2>3 DEF IInv
  <2>4. CASE s # "can2"
    <3>1. Promises(result.of, req, s, "off") /\ s \in Sources /\ "off" \in States
      BY <2>1, <2>4 DEF Promises, Sources, Cans, States
    <3> QED BY <2>1, <2>2, <3>1 DEF IInv, Kept, Stands
  <2> QED BY <2>3, <2>4
<1> QED BY <1>1, Invariant, PTL

(* After an enable_requested_wakeup_sources() that returned 0 every source  *)
(* it speaks of is as asked, or is one whose write was lost unseen in this *)
(* very request, whatever was on before and although it overlooks one      *)
(* failure (mcu_test_app.c 66-215); CAN follows the request for certain.   *)
THEOREM RequestsHonoured == Spec => []RequestHonoured
<1>1. IInv => RequestHonoured
  <2> SUFFICES ASSUME IInv, result = [of |-> "request", end |-> "ok"]
               PROVE  /\ "mcu" \in on \cup lost
                      /\ \A s \in {"ign", "acc"} \ lost : (s \in on) = (s \in req)
                      /\ ("can0" \in on) = ("can" \in req) /\ "can1" \notin on
                      /\ "rtc" \in req /\ "timer" \notin req => "rtc" \in on \cup lost
                      /\ req \cap {"timer", "rtc"} = {} => "timer" \notin on \ lost
    BY DEF RequestHonoured, Returned
  <2>1. \A s \in Sources, w \in States :
          Promises("request", req, s, w) => (s \in on <=> w = "on") \/ s \in lost
    BY DEF IInv, Kept, Stands
  <2>2. /\ Promises("request", req, "mcu", "on") /\ Promises("request", req, "can1", "off")
        /\ Promises("request", req, "can0", Wish("can", req))
        /\ \A s \in {"ign", "acc"} : Promises("request", req, s, Wish(s, req))
        /\ "rtc" \in req /\ "timer" \notin req => Promises("request", req, "rtc", "on")
        /\ req \cap {"timer", "rtc"} = {} => Promises("request", req, "timer", "off")
    BY DEF Promises
  <2>3. \A s : Wish(s, req) \in States /\ (Wish(s, req) = "on" <=> s \in req)
    BY DEF Wish, States
  <2>4. /\ {"mcu", "can0", "can1", "ign", "acc", "rtc", "timer"} \subseteq Sources
        /\ "on" \in States /\ "off" \in States
        /\ "can0" \notin lost /\ "can1" \notin lost
    BY DEF Sources, Cans, States, IInv, TypeOK
  <2> QED BY <2>1, <2>2, <2>3, <2>4
<1> QED BY <1>1, Invariant, PTL

(* The power/wakeup file of CAN2 is never written, whatever is asked and in *)
(* whatever order: a request that names "can2", or one of the MCU test      *)
(* program for the CAN bus, cannot make CAN2 wake the device                *)
(* (power_management.c 411-500).                                            *)
THEOREM CanTwoNeverWakes == Spec => []("can2" \notin on)
BY Invariant, PTL DEF IInv

(* Finding 2 for every history: where there is an external RTC, every       *)
(* disable_all_wakeup_sources() that returned 0 has armed it, unless the    *)
(* set-up of its interrupt line was lost unseen in that very call           *)
(* (power_management.c 19-97, 166-250).                                     *)
THEOREM RtcArmedByDisable ==
  Rtc => (Spec => [](Returned("disable") => "rtc" \in on \cup lost))
<1> SUFFICES ASSUME Rtc PROVE Spec => [](Returned("disable") => "rtc" \in on \cup lost)
  OBVIOUS
<1>1. IInv => (Returned("disable") => "rtc" \in on \cup lost)
  <2> SUFFICES ASSUME IInv, result = [of |-> "disable", end |-> "ok"]
               PROVE  "rtc" \in on \cup lost
    BY DEF Returned
  <2>1. result.of = "disable" /\ result.end = "ok"
    OBVIOUS
  <2>2. Promises(result.of, req, "rtc", "on") /\ "rtc" \in Sources /\ "on" \in States
    BY <2>1 DEF Promises, Sources, States
  <2> QED BY <2>1, <2>2 DEF IInv, Kept, Stands
<1> QED BY <1>1, Invariant, PTL
=============================================================================
