------------------------------ MODULE LightsProofs -----------------------------
(***************************************************************************)
(* What holds of every state of Lights, for any levels, delays and lights. *)
(* Every task is a list of steps that others come between, so that an      *)
(* invariant has to speak of what is left of a list.  The first half says  *)
(* what can be left of a store, who has the lock of the trigger, and what  *)
(* is settled at each step (TriggerInv): the LED is quiet without a        *)
(* trigger.  The second half follows the HAL, while nobody else writes,    *)
(* through the files of a call and the steps of each store (ShownInv):     *)
(* they come to the light that was set.                                    *)
(***************************************************************************)
EXTENDS Lights, TLAPS

-------------------------------------------------------------------------------
(* What the steps of a task are *)

LightStep == [do : {"level"}, v : Nat] \cup [do : {"drive", "gpio"}, v : 0..Full]
WriterStep ==
    LightStep
    \cup [do : {"delete", "stop", "lock", "detach", "remove", "data", "unlock"}]
    \cup [do : {"blink", "assign"}, attr : {"on", "off", "both"}, v : Nat]
    \cup [do : {"delays"}, on : Nat, off : Nat]
    \cup [do : {"attach"}, name : {"none", "timer"}]
TimerStep == LightStep \cup [do : {"rearm"}]
PowerStep == LightStep \cup [do : {"resumed"}]
AnyStep == WriterStep \cup TimerStep \cup PowerStep

StepsOK ==
    /\ steps \in [Tasks -> Seq(AnyStep)]
    /\ \A t \in Writers : steps[t] \in Seq(WriterStep)
    /\ steps[Timer] \in Seq(TimerStep)
    /\ steps[Power] \in Seq(PowerStep)

FieldsOK ==
    /\ brightness \in 0..Full /\ blinkBrightness \in 0..Full
    /\ delayOn \in Nat /\ delayOff \in Nat
    /\ trigger \in {"none", "timer"}
    /\ data \in BOOLEAN /\ suspended \in BOOLEAN /\ armed \in BOOLEAN /\ files \in BOOLEAN
    /\ lock \in BOOLEAN /\ lit \in BOOLEAN /\ lost \in BOOLEAN

-------------------------------------------------------------------------------
(* Where a task is *)

\* The steps that a task meets any number of times; all the others come once, in
\* the order of their ranks.
Free == {"level", "drive", "gpio", "rearm", "resumed"}
Rank(k) ==
    IF k = "lock" THEN 1 ELSE IF k \in {"detach", "delete"} THEN 2
    ELSE IF k \in {"remove", "blink"} THEN 3 ELSE IF k = "stop" THEN 4
    ELSE IF k \in {"attach", "delays"} THEN 5 ELSE IF k \in {"data", "assign"} THEN 6 ELSE 7

Kind(s) == {s[i].do : i \in DOMAIN s} \ Free
Ordered(s) ==
    \A i, j \in DOMAIN s : i < j /\ s[i].do \notin Free /\ s[j].do \notin Free
                           => Rank(s[i].do) < Rank(s[j].do)

\* What can be left of SetTrigger and of DelayStore.
Shapes == {
    {}, {"unlock"}, {"data", "unlock"},
    {"lock", "detach", "attach", "unlock"}, {"detach", "attach", "unlock"},
    {"remove", "stop", "attach", "unlock"}, {"stop", "attach", "unlock"}, {"attach", "unlock"},
    {"delete", "blink", "data", "unlock"}, {"blink", "data", "unlock"},
    {"stop", "delays", "data", "unlock"}, {"delays", "data", "unlock"},
    {"delete", "blink", "assign"}, {"blink", "assign"},
    {"stop", "delays", "assign"}, {"delays", "assign"}, {"assign"}}

AssignLast(s) == "assign" \in Kind(s) => s[Len(s)].do = "assign"
Formed(s) == Ordered(s) /\ AssignLast(s) /\ Kind(s) \in Shapes

K(t) == Kind(steps[t])
\* The writer that has the lock of the trigger.
Holder(t) == "unlock" \in K(t) /\ "lock" \notin K(t)
\* Inside an activation or a store of a delay.
Blinking(t) == "blink" \in K(t) \/ "delays" \in K(t) \/ "assign" \in K(t)
Quiet == ~armed /\ Idle(Timer) /\ delayOn = 0 /\ delayOff = 0

\* The old trigger is gone, but for its timer, and the new one is not there.
Detached(t) == Holder(t) /\ "attach" \in K(t) /\ "detach" \notin K(t) /\ "remove" \notin K(t)

\* One writer and the LED.
WriterOK(t) ==
    /\ Formed(steps[t])
    /\ Holder(t) => lock
    /\ "assign" \in K(t) => files
    /\ Detached(t) => ~files /\ ("stop" \notin K(t) => Quiet)
    /\ Blinking(t) => trigger = "timer"

TriggerInv ==
    /\ \A t \in Writers : WriterOK(t)
    /\ lock => \E t \in Writers : Holder(t)
    /\ \A t, u \in Writers : Holder(t) /\ Holder(u) => t = u
    /\ files => trigger = "timer" /\ (data \/ \E t \in Writers : "data" \in K(t))
    /\ trigger = "none" => Quiet
-------------------------------------------------------------------------------
(* Lists of steps *)

LEMMA ConsIs ==
    ASSUME NEW S, NEW d \in S, NEW r \in Seq(S)
    PROVE  /\ <<d>> \o r \in Seq(S) /\ Len(<<d>> \o r) = Len(r) + 1 /\ <<d>> \o r # <<>>
           /\ (<<d>> \o r)[1] = d
           /\ \A i \in 1..Len(r) : (<<d>> \o r)[i + 1] = r[i]
           /\ Head(<<d>> \o r) = d /\ Tail(<<d>> \o r) = r
<1>1. /\ <<d>> \o r \in Seq(S) /\ Len(<<d>> \o r) = Len(r) + 1 /\ (<<d>> \o r)[1] = d
      /\ \A i \in 1..Len(r) : (<<d>> \o r)[i + 1] = r[i]
  OBVIOUS
<1>2. <<d>> \o r # <<>> /\ Head(<<d>> \o r) = d
  BY <1>1
<1>3. Tail(<<d>> \o r) = r
  BY <1>1
<1> QED
  BY <1>1, <1>2, <1>3

LEMMA HeadTail ==
    ASSUME NEW S, NEW s \in Seq(S), s # <<>>
    PROVE  Head(s) \in S /\ Tail(s) \in Seq(S) /\ s = <<Head(s)>> \o Tail(s)
<1>1. Head(s) \in S /\ Tail(s) \in Seq(S) /\ Len(s) > 0 /\ Len(Tail(s)) = Len(s) - 1
  OBVIOUS
<1>2. Head(s) = s[1] /\ \A i \in 1..Len(Tail(s)) : Tail(s)[i] = s[i + 1]
  BY <1>1
<1>3. /\ <<Head(s)>> \o Tail(s) \in Seq(S) /\ Len(<<Head(s)>> \o Tail(s)) = Len(s)
      /\ (<<Head(s)>> \o Tail(s))[1] = Head(s)
      /\ \A i \in 1..Len(Tail(s)) : (<<Head(s)>> \o Tail(s))[i + 1] = Tail(s)[i]
  BY <1>1, ConsIs
<1>4. ASSUME NEW i \in 1..Len(s) PROVE (<<Head(s)>> \o Tail(s))[i] = s[i]
  <2>1. CASE i = 1
    BY <2>1, <1>2, <1>3
  <2>2. CASE i # 1
    <3>1. i - 1 \in 1..Len(Tail(s)) /\ i = (i - 1) + 1
      BY <2>2, <1>1
    <3> HIDE <1>3
    <3> QED
      BY <3>1, <1>2, <1>3
  <2> QED
    BY <2>1, <2>2
<1> QED
  BY <1>1, <1>3, <1>4

LEMMA SameSeq ==
    ASSUME NEW S, NEW s \in Seq(S), NEW r \in Seq(S), Len(s) = Len(r),
           \A i \in 1..Len(s) : s[i] = r[i]
    PROVE  s = r
OBVIOUS

LEMMA Cat2 ==
    ASSUME NEW r \in Seq(AnyStep), NEW a \in AnyStep, NEW b \in AnyStep
    PROVE  <<a, b>> \o r = <<a>> \o (<<b>> \o r)
<1>1. <<b>> \o r \in Seq(AnyStep)
  BY ConsIs
<1>2. /\ <<a, b>> \o r \in Seq(AnyStep) /\ <<a>> \o (<<b>> \o r) \in Seq(AnyStep)
      /\ Len(<<a, b>> \o r) = Len(r) + 2 /\ Len(<<a>> \o (<<b>> \o r)) = Len(r) + 2
  BY <1>1, ConsIs
<1>3. ASSUME NEW i \in 1..(Len(r) + 2)
      PROVE  (<<a, b>> \o r)[i] = (<<a>> \o (<<b>> \o r))[i]
  OBVIOUS
<1> QED
  BY <1>2, <1>3, SameSeq

LEMMA Cat3 ==
    ASSUME NEW r \in Seq(AnyStep), NEW a \in AnyStep, NEW b \in AnyStep, NEW c \in AnyStep
    PROVE  <<a, b, c>> \o r = <<a>> \o (<<b>> \o (<<c>> \o r))
<1>1. <<c>> \o r \in Seq(AnyStep)
  BY ConsIs
<1>2. <<a>> \o (<<b>> \o (<<c>> \o r)) = <<a, b>> \o (<<c>> \o r)
  BY <1>1, Cat2
<1>3. /\ <<a, b, c>> \o r \in Seq(AnyStep) /\ <<a, b>> \o (<<c>> \o r) \in Seq(AnyStep)
      /\ Len(<<a, b, c>> \o r) = Len(r) + 3 /\ Len(<<a, b>> \o (<<c>> \o r)) = Len(r) + 3
  BY <1>1, ConsIs
<1>4. ASSUME NEW i \in 1..(Len(r) + 3)
      PROVE  (<<a, b, c>> \o r)[i] = (<<a, b>> \o (<<c>> \o r))[i]
  OBVIOUS
<1>5. <<a, b, c>> \o r = <<a, b>> \o (<<c>> \o r)
  BY <1>3, <1>4, SameSeq
<1> QED
  BY <1>2, <1>5

LEMMA Cat4 ==
    ASSUME NEW r \in Seq(AnyStep), NEW a \in AnyStep, NEW b \in AnyStep, NEW c \in AnyStep,
           NEW d \in AnyStep
    PROVE  <<a, b, c, d>> \o r = <<a, b, c>> \o (<<d>> \o r)
<1>1. <<d>> \o r \in Seq(AnyStep)
  BY ConsIs
<1>2. /\ <<a, b, c, d>> \o r \in Seq(AnyStep) /\ <<a, b, c>> \o (<<d>> \o r) \in Seq(AnyStep)
      /\ Len(<<a, b, c, d>> \o r) = Len(r) + 4 /\ Len(<<a, b, c>> \o (<<d>> \o r)) = Len(r) + 4
  BY <1>1, ConsIs
<1>3. ASSUME NEW i \in 1..(Len(r) + 4)
      PROVE  (<<a, b, c, d>> \o r)[i] = (<<a, b, c>> \o (<<d>> \o r))[i]
  OBVIOUS
<1> QED
  BY <1>2, <1>3, SameSeq

LEMMA Join ==
    ASSUME NEW a \in AnyStep, NEW b \in AnyStep, NEW c \in AnyStep
    PROVE  <<a>> \o <<b, c>> = <<a, b, c>> /\ <<a, b>> \o <<c>> = <<a, b, c>>
<1>1. /\ <<a>> \o <<b, c>> \in Seq(AnyStep) /\ <<a, b>> \o <<c>> \in Seq(AnyStep) /\ <<a, b, c>> \in Seq(AnyStep)
      /\ Len(<<a>> \o <<b, c>>) = 3 /\ Len(<<a, b>> \o <<c>>) = 3 /\ Len(<<a, b, c>>) = 3
  OBVIOUS
<1>2. ASSUME NEW i \in 1..3
      PROVE  /\ (<<a>> \o <<b, c>>)[i] = <<a, b, c>>[i]
             /\ (<<a, b>> \o <<c>>)[i] = <<a, b, c>>[i]
  <2>1. i = 1 \/ i = 2 \/ i = 3
    OBVIOUS
  <2> QED
    BY <2>1
<1> QED
  BY <1>1, <1>2, SameSeq

LEMMA Cat0 ==
    ASSUME NEW S, NEW r \in Seq(S)
    PROVE  <<>> \o r = r /\ r \o <<>> = r
OBVIOUS

LEMMA Pair ==
    ASSUME NEW S, NEW a \in S, NEW b \in S
    PROVE  <<a>> \o <<b>> = <<a, b>>
<1>1. /\ <<a>> \o <<b>> \in Seq(S) /\ <<a, b>> \in Seq(S)
      /\ Len(<<a>> \o <<b>>) = 2 /\ Len(<<a, b>>) = 2
  OBVIOUS
<1>2. /\ (<<a>> \o <<b>>)[1] = <<a, b>>[1] /\ (<<a>> \o <<b>>)[2] = <<a, b>>[2]
  OBVIOUS
<1>3. \A i \in 1..2 : (<<a>> \o <<b>>)[i] = <<a, b>>[i]
  <2>1. \A i \in 1..2 : i = 1 \/ i = 2
    OBVIOUS
  <2> QED
    BY <1>2, <2>1
<1> HIDE <1>2
<1> QED
  BY <1>1, <1>3, SameSeq

LEMMA Quadruple ==
    ASSUME NEW S, NEW a \in S, NEW b \in S, NEW c \in S, NEW d \in S
    PROVE  <<a, b, c>> \o <<d>> = <<a, b, c, d>>
<1>1. /\ <<a, b, c>> \o <<d>> \in Seq(S) /\ <<a, b, c, d>> \in Seq(S)
      /\ Len(<<a, b, c>> \o <<d>>) = 4 /\ Len(<<a, b, c, d>>) = 4
  OBVIOUS
<1>2. /\ (<<a, b, c>> \o <<d>>)[1] = a /\ (<<a, b, c>> \o <<d>>)[2] = b
      /\ (<<a, b, c>> \o <<d>>)[3] = c /\ (<<a, b, c>> \o <<d>>)[4] = d
  OBVIOUS
<1>3. \A i \in 1..4 : (<<a, b, c>> \o <<d>>)[i] = <<a, b, c, d>>[i]
  <2>1. \A i \in 1..4 : i = 1 \/ i = 2 \/ i = 3 \/ i = 4
    OBVIOUS
  <2> QED
    BY <1>2, <2>1
<1> HIDE <1>2
<1> QED
  BY <1>1, <1>3, SameSeq

LEMMA ConsKind ==
    ASSUME NEW d \in AnyStep, NEW r \in Seq(AnyStep)
    PROVE  Kind(<<d>> \o r) = ({d.do} \ Free) \cup Kind(r)
<1> DEFINE s == <<d>> \o r
<1>1. s \in Seq(AnyStep) /\ DOMAIN s = 1..(Len(r) + 1) /\ DOMAIN r = 1..Len(r) /\ Len(r) \in Nat
  BY ConsIs
<1>2. s[1] = d /\ \A i \in 1..Len(r) : s[i + 1] = r[i]
  BY ConsIs
<1> HIDE DEF s
<1>3. ASSUME NEW k \in Kind(s) PROVE k \in ({d.do} \ Free) \cup Kind(r)
  <2>1. PICK i \in 1..(Len(r) + 1) : k = s[i].do
    BY <1>1 DEF Kind
  <2>2. CASE i = 1
    BY <2>1, <2>2, <1>2 DEF Kind
  <2>3. CASE i # 1
    <3>1. i - 1 \in 1..Len(r) /\ (i - 1) + 1 = i
      BY <2>3, <1>1
    <3>2. r[i - 1] = s[i]
      BY <3>1, <1>2
    <3> QED
      BY <3>1, <3>2, <2>1, <1>1 DEF Kind
  <2> QED
    BY <2>2, <2>3
<1>4. ASSUME NEW k \in ({d.do} \ Free) \cup Kind(r) PROVE k \in Kind(s)
  <2>1. CASE k \in {d.do} \ Free
    BY <2>1, <1>1, <1>2 DEF Kind
  <2>2. CASE k \in Kind(r)
    <3>1. PICK i \in 1..Len(r) : k = r[i].do
      BY <2>2, <1>1 DEF Kind
    <3>2. i + 1 \in 1..(Len(r) + 1) /\ s[i + 1] = r[i]
      BY <1>1, <1>2
    <3> QED
      BY <3>1, <3>2, <2>2, <1>1 DEF Kind
  <2> QED
    BY <2>1, <2>2
<1> QED
  BY <1>3, <1>4 DEF s

LEMMA ConsOrdered ==
    ASSUME NEW d \in AnyStep, NEW r \in Seq(AnyStep)
    PROVE  Ordered(<<d>> \o r) <=>
             Ordered(r) /\ (d.do \notin Free => \A k \in Kind(r) : Rank(d.do) < Rank(k))
<1> DEFINE s == <<d>> \o r
<1>1. s \in Seq(AnyStep) /\ DOMAIN s = 1..(Len(r) + 1) /\ DOMAIN r = 1..Len(r) /\ Len(r) \in Nat
  BY ConsIs
<1>2. s[1] = d /\ \A i \in 1..Len(r) : s[i + 1] = r[i]
  BY ConsIs
<1> HIDE DEF s
<1>3. ASSUME Ordered(s)
      PROVE  Ordered(r) /\ (d.do \notin Free => \A k \in Kind(r) : Rank(d.do) < Rank(k))
  <2>1. ASSUME NEW i \in 1..Len(r), NEW j \in 1..Len(r), i < j,
               r[i].do \notin Free, r[j].do \notin Free
        PROVE  Rank(r[i].do) < Rank(r[j].do)
    <3>1. i + 1 \in 1..(Len(r) + 1) /\ j + 1 \in 1..(Len(r) + 1) /\ i + 1 < j + 1
      BY <2>1, <1>1
    <3>2. s[i + 1] = r[i] /\ s[j + 1] = r[j]
      BY <1>2
    <3> QED
      BY <3>1, <3>2, <2>1, <1>3, <1>1 DEF Ordered
  <2>2. ASSUME d.do \notin Free, NEW k \in Kind(r) PROVE Rank(d.do) < Rank(k)
    <3>1. PICK j \in 1..Len(r) : k = r[j].do /\ k \notin Free
      BY <1>1 DEF Kind
    <3>2. 1 \in 1..(Len(r) + 1) /\ j + 1 \in 1..(Len(r) + 1) /\ 1 < j + 1 /\ s[j + 1] = r[j]
      BY <1>1, <1>2
    <3> QED
      BY <3>1, <3>2, <2>2, <1>3, <1>1, <1>2 DEF Ordered
  <2> QED
    BY <2>1, <2>2, <1>1 DEF Ordered
<1>4. ASSUME Ordered(r), d.do \notin Free => \A k \in Kind(r) : Rank(d.do) < Rank(k)
      PROVE  Ordered(s)
  <2>1. ASSUME NEW i \in 1..(Len(r) + 1), NEW j \in 1..(Len(r) + 1), i < j,
               s[i].do \notin Free, s[j].do \notin Free
        PROVE  Rank(s[i].do) < Rank(s[j].do)
    <3>1. j - 1 \in 1..Len(r) /\ (j - 1) + 1 = j
      BY <2>1, <1>1
    <3>2. s[j] = r[j - 1]
      BY <3>1, <1>2
    <3>3. CASE i = 1
      <4>1. s[j].do \in Kind(r)
        BY <3>1, <3>2, <2>1, <1>1 DEF Kind
      <4> QED
        BY <4>1, <3>3, <2>1, <1>2, <1>4
    <3>4. CASE i # 1
      <4>1. i - 1 \in 1..Len(r) /\ (i - 1) + 1 = i /\ i - 1 < j - 1
        BY <3>4, <2>1, <1>1
      <4>2. s[i] = r[i - 1]
        BY <4>1, <1>2
      <4> QED
        BY <4>1, <4>2, <3>1, <3>2, <2>1, <1>1, <1>4 DEF Ordered
    <3> QED
      BY <3>3, <3>4
  <2> QED
    BY <2>1, <1>1 DEF Ordered
<1> QED
  BY <1>3, <1>4 DEF s

LEMMA ConsLast ==
    ASSUME NEW d \in AnyStep, NEW r \in Seq(AnyStep)
    PROVE  /\ r = <<>> => (<<d>> \o r)[Len(<<d>> \o r)] = d
           /\ r # <<>> => (<<d>> \o r)[Len(<<d>> \o r)] = r[Len(r)]
<1>1. Len(<<d>> \o r) = Len(r) + 1 /\ (<<d>> \o r)[1] = d
      /\ \A i \in 1..Len(r) : (<<d>> \o r)[i + 1] = r[i]
  BY ConsIs
<1>2. Len(r) \in Nat /\ (r = <<>> <=> Len(r) = 0)
  OBVIOUS
<1> QED
  BY <1>1, <1>2, Z3

LEMMA EmptyKind == Kind(<<>>) = {} /\ Ordered(<<>>) /\ AssignLast(<<>>)
BY DEF Kind, Ordered, AssignLast

\* A list that begins with d is as good as the rest of it.
LEMMA TailGood ==
    ASSUME NEW d \in AnyStep, NEW r \in Seq(AnyStep),
           Ordered(<<d>> \o r), AssignLast(<<d>> \o r)
    PROVE  /\ Ordered(r) /\ AssignLast(r)
           /\ Kind(<<d>> \o r) = ({d.do} \ Free) \cup Kind(r)
           /\ d.do \notin Free => \A k \in Kind(r) : Rank(d.do) < Rank(k)
<1>1. /\ Ordered(r) /\ (d.do \notin Free => \A k \in Kind(r) : Rank(d.do) < Rank(k))
      /\ Kind(<<d>> \o r) = ({d.do} \ Free) \cup Kind(r)
  BY ConsOrdered, ConsKind
<1>2. ASSUME "assign" \in Kind(r) PROVE r[Len(r)].do = "assign"
  <2>1. r # <<>>
    BY <1>2, EmptyKind
  <2>2. "assign" \in Kind(<<d>> \o r)
    BY <1>1, <1>2
  <2> QED
    BY <2>1, <2>2, ConsLast DEF AssignLast
<1> QED
  BY <1>1, <1>2 DEF AssignLast

LEMMA ConsGood ==
    ASSUME NEW d \in AnyStep, NEW r \in Seq(AnyStep), Ordered(r), AssignLast(r),
           d.do \notin Free => \A k \in Kind(r) : Rank(d.do) < Rank(k),
           d.do = "assign" => r = <<>>
    PROVE  /\ Ordered(<<d>> \o r) /\ AssignLast(<<d>> \o r)
           /\ Kind(<<d>> \o r) = ({d.do} \ Free) \cup Kind(r)
<1>1. Ordered(<<d>> \o r) /\ Kind(<<d>> \o r) = ({d.do} \ Free) \cup Kind(r)
  BY ConsOrdered, ConsKind
<1>2. ASSUME "assign" \in Kind(<<d>> \o r)
      PROVE  (<<d>> \o r)[Len(<<d>> \o r)].do = "assign"
  <2>1. CASE r = <<>>
    <3>1. d.do = "assign"
      BY <2>1, <1>1, <1>2, EmptyKind
    <3>2. (<<d>> \o r)[Len(<<d>> \o r)] = d
      BY <2>1, ConsLast
    <3> QED
      BY <3>1, <3>2
  <2>2. CASE r # <<>>
    <3>1. "assign" \in Kind(r)
      BY <2>2, <1>1, <1>2
    <3>2. (<<d>> \o r)[Len(<<d>> \o r)] = r[Len(r)]
      BY <2>2, ConsLast
    <3> QED
      BY <3>1, <3>2 DEF AssignLast
  <2> QED
    BY <2>1, <2>2
<1> QED
  BY <1>1, <1>2 DEF AssignLast

\* What is left of a list when its first step, of kind k, is done.
LEMMA ShapeTails ==
    ASSUME NEW k, NEW R, {k} \cup R \in Shapes, \A j \in R : Rank(k) < Rank(j)
    PROVE  /\ k = "lock" => R = {"detach", "attach", "unlock"}
           /\ k = "detach" => R = {"attach", "unlock"}
           /\ k = "remove" => R = {"stop", "attach", "unlock"}
           /\ k = "stop" => R \in {{"attach", "unlock"}, {"delays", "data", "unlock"},
                                   {"delays", "assign"}}
           /\ k = "attach" => R = {"unlock"}
           /\ k = "delete" => R \in {{"blink", "data", "unlock"}, {"blink", "assign"}}
           /\ k \in {"blink", "delays"} => R \in {{"data", "unlock"}, {"assign"}}
           /\ k = "data" => R = {"unlock"}
           /\ k \in {"assign", "unlock"} => R = {}
<1> QED
  BY DEF Shapes, Rank

LEMMA StepKinds ==
    /\ WriterStep \subseteq AnyStep /\ TimerStep \subseteq AnyStep /\ PowerStep \subseteq AnyStep
    /\ \A d \in WriterStep : d.do \notin {"rearm", "resumed"}
    /\ \A d \in TimerStep : d.do \in {"level", "drive", "gpio", "rearm"}
    /\ \A d \in PowerStep : d.do \in {"level", "drive", "gpio", "resumed"}
<1>1. WriterStep \subseteq AnyStep /\ TimerStep \subseteq AnyStep /\ PowerStep \subseteq AnyStep
  BY DEF AnyStep
<1>2. \A d \in LightStep : d.do \in {"level", "drive", "gpio"}
  BY DEF LightStep
<1>3. \A d \in WriterStep : d.do \notin {"rearm", "resumed"}
  BY <1>2 DEF WriterStep
<1>4. \A d \in TimerStep : d.do \in {"level", "drive", "gpio", "rearm"}
  BY <1>2 DEF TimerStep
<1>5. \A d \in PowerStep : d.do \in {"level", "drive", "gpio", "resumed"}
  BY <1>2 DEF PowerStep
<1> QED
  BY <1>1, <1>3, <1>4, <1>5

\* The fields of a step.
LEMMA StepFields ==
    ASSUME NEW d \in AnyStep
    PROVE  /\ d.do = "level" => d.v \in Nat
           /\ d.do \in {"drive", "gpio"} => d.v \in 0..Full
           /\ d.do \in {"blink", "assign"} => d.attr \in {"on", "off", "both"} /\ d.v \in Nat
           /\ d.do = "delays" => d.on \in Nat /\ d.off \in Nat
           /\ d.do = "attach" => d.name \in {"none", "timer"}
<1>1. d.do = "level" => d.v \in Nat
  BY DEF AnyStep, WriterStep, TimerStep, PowerStep, LightStep
<1>2. d.do \in {"drive", "gpio"} => d.v \in 0..Full
  BY DEF AnyStep, WriterStep, TimerStep, PowerStep, LightStep
<1>3. d.do \in {"blink", "assign"} => d.attr \in {"on", "off", "both"} /\ d.v \in Nat
  BY DEF AnyStep, WriterStep, TimerStep, PowerStep, LightStep
<1>4. d.do = "delays" => d.on \in Nat /\ d.off \in Nat
  BY DEF AnyStep, WriterStep, TimerStep, PowerStep, LightStep
<1>5. d.do = "attach" => d.name \in {"none", "timer"}
  BY DEF AnyStep, WriterStep, TimerStep, PowerStep, LightStep
<1> QED
  BY <1>1, <1>2, <1>3, <1>4, <1>5

\* What the first step of a writer tells of the others.
LEMMA HeadWriter ==
    ASSUME StepsOK, NEW t \in Writers, Formed(steps[t]), NEW k, Does(t, k)
    PROVE  /\ Tail(steps[t]) \in Seq(WriterStep) /\ Tail(steps[t]) \in Seq(AnyStep)
           /\ Head(steps[t]) \in WriterStep /\ Head(steps[t]) \in AnyStep
           /\ Head(steps[t]).do = k
           /\ Ordered(Tail(steps[t])) /\ AssignLast(Tail(steps[t]))
           /\ k \in Free => Kind(Tail(steps[t])) = K(t)
           /\ k \notin Free => /\ K(t) = {k} \cup Kind(Tail(steps[t]))
                               /\ \A j \in Kind(Tail(steps[t])) : Rank(k) < Rank(j)
<1> DEFINE d == Head(steps[t])  r == Tail(steps[t])
<1>1. /\ steps[t] \in Seq(WriterStep) /\ steps[t] # <<>> /\ d.do = k
  BY DEF StepsOK, Does, Idle
<1>2. d \in WriterStep /\ r \in Seq(WriterStep) /\ steps[t] = <<d>> \o r
  BY <1>1, HeadTail
<1>3. d \in AnyStep /\ r \in Seq(AnyStep)
  BY <1>2, StepKinds
<1>4. /\ Ordered(r) /\ AssignLast(r)
      /\ K(t) = ({k} \ Free) \cup Kind(r)
      /\ k \notin Free => \A j \in Kind(r) : Rank(k) < Rank(j)
  BY <1>1, <1>2, <1>3, TailGood DEF Formed, K
<1> QED
  BY <1>1, <1>2, <1>3, <1>4

\* A writer is given other steps: the other tasks keep theirs.
LEMMA SetWriter ==
    ASSUME StepsOK, NEW t \in Writers, NEW q \in Seq(WriterStep),
           steps' = [steps EXCEPT ![t] = q]
    PROVE  StepsOK' /\ steps'[t] = q /\ \A u \in Tasks \ {t} : steps'[u] = steps[u]
<1>1. q \in Seq(AnyStep)
  BY StepKinds
<1>2. steps \in [Tasks -> Seq(AnyStep)] /\ t \in Tasks
  BY DEF StepsOK, Tasks
<1>3. /\ steps' \in [Tasks -> Seq(AnyStep)] /\ steps'[t] = q
      /\ \A u \in Tasks \ {t} : steps'[u] = steps[u]
  BY <1>1, <1>2
<1>4. StepsOK'
  BY <1>3, LedTasks DEF StepsOK, Tasks
<1> QED
  BY <1>3, <1>4

\* A writer does its first step: the others keep theirs, and what it has left is as
\* good as before.
LEMMA ThenWriter ==
    ASSUME StepsOK, NEW t \in Writers, Formed(steps[t]), NEW k, Does(t, k),
           NEW new \in Seq(WriterStep), Then(t, new)
    PROVE  /\ StepsOK'
           /\ steps'[t] = new \o Tail(steps[t])
           /\ \A u \in Tasks \ {t} : steps'[u] = steps[u]
           /\ Tail(steps[t]) \in Seq(WriterStep) /\ Tail(steps[t]) \in Seq(AnyStep)
           /\ Head(steps[t]) \in WriterStep /\ Head(steps[t]) \in AnyStep
           /\ Head(steps[t]).do = k
           /\ Ordered(Tail(steps[t])) /\ AssignLast(Tail(steps[t]))
           /\ k \in Free => Kind(Tail(steps[t])) = K(t)
           /\ k \notin Free => /\ K(t) = {k} \cup Kind(Tail(steps[t]))
                               /\ \A j \in Kind(Tail(steps[t])) : Rank(k) < Rank(j)
<1>1. Tail(steps[t]) \in Seq(WriterStep)
  BY HeadWriter
<1>2. steps' = [steps EXCEPT ![t] = new \o Tail(steps[t])]
      /\ new \o Tail(steps[t]) \in Seq(WriterStep)
  BY <1>1 DEF Then
<1>3. StepsOK' /\ steps'[t] = new \o Tail(steps[t])
      /\ \A u \in Tasks \ {t} : steps'[u] = steps[u]
  BY <1>2, SetWriter
<1> QED
  BY <1>3, HeadWriter

\* The step leaves nothing new to do.
LEMMA ThenNothing ==
    ASSUME StepsOK, NEW t \in Writers, Formed(steps[t]), NEW k, Does(t, k), Then(t, <<>>)
    PROVE  /\ StepsOK' /\ \A u \in Tasks \ {t} : steps'[u] = steps[u]
           /\ Ordered(steps'[t]) /\ AssignLast(steps'[t])
           /\ steps'[t] = Tail(steps[t])
           /\ Head(steps[t]) \in AnyStep /\ Head(steps[t]).do = k
           /\ k \in Free => K(t)' = K(t)
           /\ k \notin Free => /\ K(t) = {k} \cup K(t)'
                               /\ \A j \in K(t)' : Rank(k) < Rank(j)
<1>1. <<>> \in Seq(WriterStep)
  OBVIOUS
<1>2. /\ StepsOK'
      /\ steps'[t] = <<>> \o Tail(steps[t])
      /\ \A u \in Tasks \ {t} : steps'[u] = steps[u]
      /\ Tail(steps[t]) \in Seq(AnyStep)
      /\ Head(steps[t]) \in AnyStep /\ Head(steps[t]).do = k
      /\ Ordered(Tail(steps[t])) /\ AssignLast(Tail(steps[t]))
      /\ k \in Free => Kind(Tail(steps[t])) = K(t)
      /\ k \notin Free => /\ K(t) = {k} \cup Kind(Tail(steps[t]))
                          /\ \A j \in Kind(Tail(steps[t])) : Rank(k) < Rank(j)
  BY <1>1, ThenWriter
<1>3. steps'[t] = Tail(steps[t])
  BY <1>2, Cat0
<1>4. K(t)' = Kind(Tail(steps[t]))
  BY <1>3 DEF K
<1> QED
  BY <1>2, <1>3, <1>4

\* The step is one that may come at any time, and leaves at most another such step.
LEMMA ThenFree ==
    ASSUME StepsOK, NEW t \in Writers, Formed(steps[t]), NEW k \in Free, Does(t, k),
           NEW new \in Seq(WriterStep), Then(t, new),
           new = <<>> \/ \E d \in WriterStep : new = <<d>> /\ d.do \in Free
    PROVE  /\ StepsOK' /\ \A u \in Tasks \ {t} : steps'[u] = steps[u]
           /\ Formed(steps'[t]) /\ K(t)' = K(t)
<1> DEFINE r == Tail(steps[t])
<1>1. /\ StepsOK'
      /\ steps'[t] = new \o r
      /\ \A u \in Tasks \ {t} : steps'[u] = steps[u]
      /\ r \in Seq(AnyStep)
      /\ Ordered(r) /\ AssignLast(r) /\ Kind(r) = K(t)
  BY ThenWriter
<1>2. K(t) \in Shapes
  BY DEF Formed, K
<1> HIDE DEF r
<1>3. CASE new = <<>>
  <2>1. steps'[t] = r
    BY <1>1, <1>3, Cat0
  <2> QED
    BY <1>1, <1>2, <2>1 DEF Formed, K
<1>4. CASE \E d \in WriterStep : new = <<d>> /\ d.do \in Free
  <2>1. PICK d \in WriterStep : new = <<d>> /\ d.do \in Free
    BY <1>4
  <2>2. d \in AnyStep /\ d.do # "assign"
    BY <2>1, StepKinds DEF Free
  <2>3. /\ Ordered(<<d>> \o r) /\ AssignLast(<<d>> \o r)
        /\ Kind(<<d>> \o r) = ({d.do} \ Free) \cup Kind(r)
    BY <1>1, <2>1, <2>2, ConsGood
  <2>4. steps'[t] = <<d>> \o r /\ Kind(<<d>> \o r) = Kind(r)
    BY <1>1, <2>1, <2>3
  <2> QED
    BY <1>1, <1>2, <2>3, <2>4 DEF Formed, K
<1> QED
  BY <1>3, <1>4

-------------------------------------------------------------------------------
(* The fields *)

TypeInv == FieldsOK /\ StepsOK

\* Every step of a writer keeps the types of the fields that it writes.
LEMMA HeadOf ==
    ASSUME StepsOK, NEW t \in Tasks, NEW k, Does(t, k)
    PROVE  /\ Head(steps[t]) \in AnyStep /\ Head(steps[t]).do = k
           /\ Tail(steps[t]) \in Seq(AnyStep) /\ steps[t] = <<Head(steps[t])>> \o Tail(steps[t])
           /\ steps[t] # <<>>
<1>1. steps[t] \in Seq(AnyStep) /\ steps[t] # <<>>
  BY DEF StepsOK, Does, Idle
<1> QED
  BY <1>1, HeadTail DEF Does

\* Only writers stop, detach and so on; only the timer rearms and the resume ends.
LEMMA WhoDoes ==
    ASSUME StepsOK, NEW t \in Tasks, NEW k, Does(t, k)
    PROVE  /\ t = Timer => k \in {"level", "drive", "gpio", "rearm"}
           /\ t = Power => k \in {"level", "drive", "gpio", "resumed"}
           /\ t \in Writers => k \notin {"rearm", "resumed"}
<1>1. steps[t] # <<>> /\ Head(steps[t]).do = k
  BY DEF Does, Idle
<1>2. ASSUME t = Timer PROVE k \in {"level", "drive", "gpio", "rearm"}
  <2>1. Head(steps[t]) \in TimerStep
    BY <1>1, <1>2, HeadTail DEF StepsOK
  <2> QED
    BY <1>1, <2>1, StepKinds
<1>3. ASSUME t = Power PROVE k \in {"level", "drive", "gpio", "resumed"}
  <2>1. Head(steps[t]) \in PowerStep
    BY <1>1, <1>3, HeadTail DEF StepsOK
  <2> QED
    BY <1>1, <2>1, StepKinds
<1>4. ASSUME t \in Writers PROVE k \notin {"rearm", "resumed"}
  <2>1. Head(steps[t]) \in WriterStep
    BY <1>1, <1>4, HeadTail DEF StepsOK
  <2> QED
    BY <1>1, <2>1, StepKinds
<1> QED
  BY <1>2, <1>3, <1>4

\* Every step of the timer and of the power task is one of theirs.
LEMMA ThenOther ==
    ASSUME StepsOK, NEW t \in Tasks, NEW k, Does(t, k), NEW new, Then(t, new),
           t = Timer => new \in Seq(TimerStep), t = Power => new \in Seq(PowerStep),
           t \notin Writers
    PROVE  StepsOK' /\ \A u \in Tasks \ {t} : steps'[u] = steps[u]
<1>1. steps \in [Tasks -> Seq(AnyStep)] /\ steps[t] # <<>>
  BY DEF StepsOK, Does, Idle
<1>2. CASE t = Timer
  <2>1. Tail(steps[t]) \in Seq(TimerStep)
    BY <1>1, <1>2, HeadTail DEF StepsOK
  <2>2. new \o Tail(steps[t]) \in Seq(TimerStep) /\ new \o Tail(steps[t]) \in Seq(AnyStep)
    BY <2>1, <1>2, StepKinds
  <2> QED
    BY <1>1, <1>2, <2>2, LedTasks DEF StepsOK, Then, Tasks
<1>3. CASE t = Power
  <2>1. Tail(steps[t]) \in Seq(PowerStep)
    BY <1>1, <1>3, HeadTail DEF StepsOK
  <2>2. new \o Tail(steps[t]) \in Seq(PowerStep) /\ new \o Tail(steps[t]) \in Seq(AnyStep)
    BY <2>1, <1>3, StepKinds
  <2> QED
    BY <1>1, <1>3, <2>2, LedTasks DEF StepsOK, Then, Tasks
<1> QED
  BY <1>2, <1>3 DEF Tasks

-------------------------------------------------------------------------------
(* One step and the invariant *)

\* What the list of a writer tells of where it is.
LEMMA ShapeFacts ==
    ASSUME NEW R \in Shapes
    PROVE  /\ "assign" \in R => R \cap {"unlock", "attach", "lock", "detach", "data"} = {}
           /\ "data" \in R => "unlock" \in R /\ R \cap {"lock", "attach", "detach"} = {}
           /\ ("blink" \in R \/ "delays" \in R) /\ "assign" \notin R => "data" \in R
           /\ "unlock" \in R /\ "lock" \notin R /\ "attach" \in R /\ "detach" \notin R
              /\ "remove" \notin R => R \in {{"stop", "attach", "unlock"}, {"attach", "unlock"}}
BY DEF Shapes

\* Nobody blinks the LED while a writer has the old trigger gone and the new one
\* not there.
LEMMA BlinkingExcludes ==
    ASSUME TriggerInv, NEW t \in Writers, Blinking(t) \/ "data" \in K(t), NEW u \in Writers
    PROVE  ~Detached(u)
<1>1. WriterOK(t) /\ WriterOK(u) /\ K(t) \in Shapes /\ K(u) \in Shapes
  BY DEF TriggerInv, WriterOK, Formed, K
<1>2. CASE "assign" \in K(t)
  BY <1>1, <1>2 DEF WriterOK
<1>3. CASE "assign" \notin K(t)
  <2>1. "data" \in K(t)
    BY <1>1, <1>3, ShapeFacts DEF Blinking
  <2>2. Holder(t) /\ "attach" \notin K(t)
    BY <1>1, <2>1, ShapeFacts DEF Holder
  <2> QED
    BY <2>2 DEF TriggerInv, Detached
<1> QED
  BY <1>2, <1>3

\* A step of t that leaves lock, files, trigger and data as they are.
LEMMA Private ==
    ASSUME TriggerInv, NEW t \in Writers, \A u \in Writers \ {t} : steps'[u] = steps[u],
           WriterOK(t)', UNCHANGED <<lock, files, trigger, data>>,
           Holder(t)' <=> Holder(t), "data" \in K(t) => "data" \in K(t)',
           Quiet' \/ ~Quiet \/ (trigger # "none" /\ \A u \in Writers \ {t} : ~Detached(u))
    PROVE  TriggerInv'
<1>1. ASSUME NEW u \in Writers \ {t} PROVE K(u)' = K(u) /\ (Holder(u)' <=> Holder(u))
  BY <1>1 DEF K, Holder
<1>2. ASSUME NEW u \in Writers PROVE WriterOK(u)'
  <2>1. CASE u = t
    BY <2>1
  <2>2. CASE u # t
    <3>1. WriterOK(u) /\ steps'[u] = steps[u]
      BY <2>2 DEF TriggerInv
    <3>2. K(u)' = K(u) /\ (Holder(u)' <=> Holder(u)) /\ (Detached(u)' <=> Detached(u))
          /\ (Blinking(u)' <=> Blinking(u)) /\ (Formed(steps[u])' <=> Formed(steps[u]))
      BY <2>2, <3>1, <1>1 DEF Detached, Blinking
    <3>3. Detached(u) /\ "stop" \notin K(u) => Quiet'
      BY <2>2, <3>1 DEF WriterOK
    <3> QED
      BY <3>1, <3>2, <3>3 DEF WriterOK
  <2> QED
    BY <2>1, <2>2
<1>3. lock' => \E u \in Writers : Holder(u)'
  BY <1>1 DEF TriggerInv
<1>4. \A u, w \in Writers : Holder(u)' /\ Holder(w)' => u = w
  BY <1>1 DEF TriggerInv
<1>5. files' => trigger' = "timer" /\ (data' \/ \E u \in Writers : "data" \in K(u)')
  BY <1>1 DEF TriggerInv
<1>6. trigger' = "none" => Quiet'
  BY DEF TriggerInv
<1> QED
  BY <1>2, <1>3, <1>4, <1>5, <1>6 DEF TriggerInv

\* A step of no writer.
LEMMA Elsewhere ==
    ASSUME TriggerInv, \A u \in Writers : steps'[u] = steps[u],
           UNCHANGED <<lock, files, trigger, data>>, Quiet => Quiet'
    PROVE  TriggerInv'
<1>1. ASSUME NEW u \in Writers
      PROVE  /\ K(u)' = K(u) /\ (Holder(u)' <=> Holder(u)) /\ (Detached(u)' <=> Detached(u))
             /\ (Blinking(u)' <=> Blinking(u)) /\ (Formed(steps[u])' <=> Formed(steps[u]))
             /\ WriterOK(u)'
  <2>1. WriterOK(u) /\ steps'[u] = steps[u]
    BY DEF TriggerInv
  <2>2. /\ K(u)' = K(u) /\ (Holder(u)' <=> Holder(u)) /\ (Detached(u)' <=> Detached(u))
        /\ (Blinking(u)' <=> Blinking(u)) /\ (Formed(steps[u])' <=> Formed(steps[u]))
    BY <2>1 DEF Detached, Blinking, K, Holder
  <2>3. Detached(u) /\ "stop" \notin K(u) => Quiet'
    BY <2>1 DEF WriterOK
  <2> QED
    BY <2>1, <2>2, <2>3 DEF WriterOK
<1>2. lock' => \E u \in Writers : Holder(u)'
  BY <1>1 DEF TriggerInv
<1>3. \A u, w \in Writers : Holder(u)' /\ Holder(w)' => u = w
  BY <1>1 DEF TriggerInv
<1>4. files' => trigger' = "timer" /\ (data' \/ \E u \in Writers : "data" \in K(u)')
  BY <1>1 DEF TriggerInv
<1>5. trigger' = "none" => Quiet'
  BY DEF TriggerInv
<1> QED
  BY <1>1, <1>2, <1>3, <1>4, <1>5 DEF TriggerInv

-------------------------------------------------------------------------------
(* The steps of a writer *)

\* The writer is where it was.
LEMMA FreeWriter ==
    ASSUME TypeInv, TriggerInv, NEW t \in Writers, NEW k \in Free, Does(t, k),
           NEW new \in Seq(WriterStep), Then(t, new),
           new = <<>> \/ \E d \in WriterStep : new = <<d>> /\ d.do \in Free,
           UNCHANGED <<lock, files, trigger, data>>, Quiet => Quiet'
    PROVE  StepsOK' /\ TriggerInv'
<1>1. WriterOK(t) /\ Formed(steps[t])
  BY DEF TriggerInv, WriterOK
<1>2. /\ StepsOK' /\ \A u \in Tasks \ {t} : steps'[u] = steps[u]
      /\ Formed(steps'[t]) /\ K(t)' = K(t)
  BY <1>1, ThenFree DEF TypeInv
<1>3. /\ (Holder(t)' <=> Holder(t)) /\ (Detached(t)' <=> Detached(t))
      /\ (Blinking(t)' <=> Blinking(t))
  BY <1>2 DEF Holder, Detached, Blinking
<1>4. WriterOK(t)'
  BY <1>1, <1>2, <1>3 DEF WriterOK
<1> QED
  BY <1>2, <1>3, <1>4, Private DEF Tasks

LEMMA LevelKeeps ==
    ASSUME TypeInv, TriggerInv, NEW t \in Writers, Level(t)
    PROVE  TypeInv' /\ TriggerInv'
<1> DEFINE v == Head(steps[t]).v
           capped == IF v > Full THEN Full ELSE v
           new == IF suspended THEN <<>> ELSE <<[do |-> "drive", v |-> capped]>>
<1>1. Does(t, "level") /\ Then(t, new) /\ brightness' = capped
      /\ UNCHANGED <<blinkBrightness, delayOn, delayOff, trigger, data, suspended,
                     armed, files, lock, lit, lost>>
  BY DEF Level
<1>2. v \in Nat
  BY <1>1, HeadOf, StepFields DEF TypeInv, Tasks
<1>3. capped \in 0..Full
  BY <1>2, LedValues
<1> HIDE DEF capped
<1>4. [do |-> "drive", v |-> capped] \in WriterStep
  BY <1>3 DEF WriterStep, LightStep
<1>5. new \in Seq(WriterStep)
      /\ (new = <<>> \/ \E d \in WriterStep : new = <<d>> /\ d.do \in Free)
  BY <1>4 DEF Free
<1> HIDE DEF new
<1>6. StepsOK' /\ TriggerInv'
  <2>1. Quiet => Quiet'
    <3>1. steps'[Timer] = steps[Timer]
      BY <1>1, LedTasks DEF Then, TypeInv, StepsOK, Tasks
    <3> QED
      BY <3>1, <1>1 DEF Quiet, Idle
  <2>2. "level" \in Free
    BY DEF Free
  <2> QED
    BY <2>1, <2>2, <1>1, <1>5, FreeWriter
<1> QED
  BY <1>1, <1>3, <1>6 DEF TypeInv, FieldsOK

LEMMA DriveKeeps ==
    ASSUME TypeInv, TriggerInv, NEW t \in Writers, Drive(t)
    PROVE  TypeInv' /\ TriggerInv'
<1> DEFINE v == Head(steps[t]).v
           new == <<[do |-> "gpio", v |-> v]>>
<1>1. Does(t, "drive") /\ Then(t, new) /\ brightness' = v
      /\ UNCHANGED <<blinkBrightness, delayOn, delayOff, trigger, data, suspended,
                     armed, files, lock, lit, lost>>
  BY DEF Drive
<1>2. v \in 0..Full
  BY <1>1, HeadOf, StepFields DEF TypeInv, Tasks
<1> HIDE DEF v
<1>3. [do |-> "gpio", v |-> v] \in WriterStep
  BY <1>2 DEF WriterStep, LightStep
<1>4. new \in Seq(WriterStep) /\ \E d \in WriterStep : new = <<d>> /\ d.do \in Free
  BY <1>3 DEF Free
<1> HIDE DEF new
<1>5. StepsOK' /\ TriggerInv'
  <2>1. Quiet => Quiet'
    <3>1. steps'[Timer] = steps[Timer]
      BY <1>1, LedTasks DEF Then, TypeInv, StepsOK, Tasks
    <3> QED
      BY <3>1, <1>1 DEF Quiet, Idle
  <2>2. "drive" \in Free
    BY DEF Free
  <2> QED
    BY <2>1, <2>2, <1>1, <1>4, FreeWriter
<1> QED
  BY <1>1, <1>2, <1>5 DEF TypeInv, FieldsOK

LEMMA GpioKeeps ==
    ASSUME TypeInv, TriggerInv, NEW t \in Writers, Gpio(t)
    PROVE  TypeInv' /\ TriggerInv'
<1>1. Does(t, "gpio") /\ Then(t, <<>>) /\ lit' = (Head(steps[t]).v # 0)
      /\ UNCHANGED <<brightness, blinkBrightness, delayOn, delayOff, trigger, data, suspended,
                     armed, files, lock, lost>>
  BY DEF Gpio, fields
<1>2. Quiet => Quiet'
  <2>1. steps'[Timer] = steps[Timer]
    BY <1>1, LedTasks DEF Then, TypeInv, StepsOK, Tasks
  <2> QED
    BY <2>1, <1>1 DEF Quiet, Idle
<1>3. "gpio" \in Free /\ <<>> \in Seq(WriterStep)
  BY DEF Free
<1>4. StepsOK' /\ TriggerInv'
  BY <1>1, <1>2, <1>3, FreeWriter
<1> QED
  BY <1>1, <1>4 DEF TypeInv, FieldsOK

LEMMA DeleteKeeps ==
    ASSUME TypeInv, TriggerInv, NEW t \in Writers, Delete(t)
    PROVE  TypeInv' /\ TriggerInv'
<1>1. /\ Does(t, "delete") /\ Then(t, <<>>) /\ armed' = FALSE
      /\ UNCHANGED <<brightness, blinkBrightness, delayOn, delayOff, trigger, data, suspended,
                     files, lock, lit, lost>>
  BY DEF Delete, fields
<1>2. WriterOK(t) /\ Formed(steps[t])
  BY DEF TriggerInv, WriterOK
<1>3. "delete" \notin Free
  BY DEF Free
<1>4. /\ StepsOK' /\ \A u \in Tasks \ {t} : steps'[u] = steps[u]
      /\ Ordered(steps'[t]) /\ AssignLast(steps'[t])
      /\ K(t) = {"delete"} \cup K(t)' /\ \A j \in K(t)' : Rank("delete") < Rank(j)
  BY <1>1, <1>2, <1>3, ThenNothing DEF TypeInv
<1>5. K(t)' \in {{"blink", "data", "unlock"}, {"blink", "assign"}}
  <2>1. {"delete"} \cup K(t)' \in Shapes
    BY <1>2, <1>4 DEF Formed, K
  <2> QED
    BY <2>1, <1>4, ShapeTails
<1>6. Formed(steps'[t])
  BY <1>4, <1>5 DEF Formed, K, Shapes
<1>7. (Holder(t)' <=> Holder(t)) /\ ("data" \in K(t) => "data" \in K(t)') /\ ~Detached(t)'
  BY <1>4, <1>5 DEF Holder, Detached
<1>8. trigger = "timer"
  <2>1. CASE "assign" \in K(t)
    BY <2>1, <1>2 DEF TriggerInv, WriterOK
  <2>2. CASE "blink" \in K(t)
    BY <2>2, <1>2 DEF WriterOK, Blinking
  <2> QED
    BY <1>4, <1>5, <2>1, <2>2
<1>9. WriterOK(t)'
  BY <1>1, <1>2, <1>4, <1>6, <1>7, <1>8 DEF WriterOK
<1>10. Quiet => Quiet'
  BY <1>1, <1>4, LedTasks DEF Quiet, Idle, Tasks
<1>11. TriggerInv'
  BY <1>1, <1>4, <1>7, <1>9, <1>10, Private DEF Tasks
<1> QED
  BY <1>1, <1>4, <1>11 DEF TypeInv, FieldsOK

LEMMA StopKeeps ==
    ASSUME TypeInv, TriggerInv, NEW t \in Writers, Stop(t)
    PROVE  TypeInv' /\ TriggerInv'
<1>1. /\ Does(t, "stop") /\ Then(t, <<>>) /\ Idle(Timer)
      /\ armed' = FALSE /\ delayOn' = 0 /\ delayOff' = 0 /\ lost' = FALSE
      /\ UNCHANGED <<brightness, blinkBrightness, trigger, data, suspended, files, lock, lit>>
  BY DEF Stop
<1>2. WriterOK(t) /\ Formed(steps[t])
  BY DEF TriggerInv, WriterOK
<1>3. "stop" \notin Free
  BY DEF Free
<1>4. /\ StepsOK' /\ \A u \in Tasks \ {t} : steps'[u] = steps[u]
      /\ Ordered(steps'[t]) /\ AssignLast(steps'[t])
      /\ K(t) = {"stop"} \cup K(t)' /\ \A j \in K(t)' : Rank("stop") < Rank(j)
  BY <1>1, <1>2, <1>3, ThenNothing DEF TypeInv
<1>5. K(t)' \in {{"attach", "unlock"}, {"delays", "data", "unlock"}, {"delays", "assign"}}
  <2>1. {"stop"} \cup K(t)' \in Shapes
    BY <1>2, <1>4 DEF Formed, K
  <2> QED
    BY <2>1, <1>4, ShapeTails
<1>6. Formed(steps'[t])
  BY <1>4, <1>5 DEF Formed, K, Shapes
<1>7. /\ (Holder(t)' <=> Holder(t)) /\ ("data" \in K(t) => "data" \in K(t)')
      /\ Detached(t)' => Detached(t)
      /\ Blinking(t)' => Blinking(t)
      /\ "assign" \in K(t)' => "assign" \in K(t)
  BY <1>4, <1>5 DEF Holder, Detached, Blinking
<1>8. Quiet'
  BY <1>1, <1>4, LedTasks DEF Quiet, Idle, Tasks
<1>9. WriterOK(t)'
  BY <1>1, <1>2, <1>6, <1>7, <1>8 DEF WriterOK
<1>10. TriggerInv'
  BY <1>1, <1>4, <1>7, <1>8, <1>9, Private DEF Tasks
<1> QED
  BY <1>1, <1>4, <1>10 DEF TypeInv, FieldsOK

LEMMA BlinkKeeps ==
    ASSUME TypeInv, TriggerInv, NEW t \in Writers, Blink(t)
    PROVE  TypeInv' /\ TriggerInv'
<1> DEFINE attr == Head(steps[t]).attr
           asked == Asked(attr, Head(steps[t]).v)
           storedOn == IF asked.default /\ attr # "on" THEN Default ELSE delayOn
           storedOff == IF asked.default /\ attr # "off" THEN Default ELSE delayOff
           same == data /\ asked.on = storedOn /\ asked.off = storedOff
           rest == Tail(steps[t])
           assigns == rest # <<>> /\ Head(rest).do = "assign"
           state == IF attr = "on" THEN asked.on ELSE asked.off
           a == [do |-> "stop"]
           b == [do |-> "delays", on |-> asked.on, off |-> asked.off]
           c == [do |-> "assign", attr |-> attr, v |-> state]
           first == IF same THEN <<>> ELSE <<a, b>>
           last == IF assigns THEN <<c>> ELSE rest
<1>1. /\ Does(t, "blink") /\ delayOn' = storedOn /\ delayOff' = storedOff
      /\ blinkBrightness' = IF brightness # 0 THEN brightness
                            ELSE IF blinkBrightness = 0 THEN Full ELSE blinkBrightness
      /\ steps' = [steps EXCEPT ![t] = first \o last]
      /\ lost' = (lost \/ same)
      /\ UNCHANGED <<brightness, trigger, data, suspended, armed, files, lock, lit>>
  BY DEF Blink
<1>2. WriterOK(t) /\ Formed(steps[t])
  BY DEF TriggerInv, WriterOK
<1>3. "blink" \notin Free
  BY DEF Free
<1>4. /\ rest \in Seq(WriterStep) /\ rest \in Seq(AnyStep)
      /\ Head(steps[t]) \in AnyStep /\ Head(steps[t]).do = "blink"
      /\ Ordered(rest) /\ AssignLast(rest)
      /\ K(t) = {"blink"} \cup Kind(rest)
      /\ \A j \in Kind(rest) : Rank("blink") < Rank(j)
  BY <1>1, <1>2, <1>3, HeadWriter DEF TypeInv
<1>5. Kind(rest) \in {{"data", "unlock"}, {"assign"}}
  <2>1. {"blink"} \cup Kind(rest) \in Shapes
    BY <1>2, <1>4 DEF Formed, K
  <2> QED
    BY <2>1, <1>4, ShapeTails
<1>6. /\ asked.on \in Nat /\ asked.off \in Nat /\ asked.default \in BOOLEAN /\ state \in Nat
      /\ attr \in {"on", "off", "both"}
  <2>1. attr \in {"on", "off", "both"} /\ Head(steps[t]).v \in Nat
    BY <1>4, StepFields
  <2> QED
    BY <2>1, LedValues DEF TypeInv, FieldsOK, Asked
<1> HIDE DEF attr, asked, state, rest
<1>7. /\ a \in WriterStep /\ b \in WriterStep /\ c \in WriterStep
      /\ a \in AnyStep /\ b \in AnyStep /\ c \in AnyStep
      /\ a.do = "stop" /\ b.do = "delays" /\ c.do = "assign"
  <2>1. a \in WriterStep /\ b \in WriterStep /\ c \in WriterStep
    BY <1>6 DEF WriterStep
  <2> QED
    BY <2>1, StepKinds
<1> HIDE DEF a, b, c
<1>8. /\ last \in Seq(WriterStep) /\ last \in Seq(AnyStep)
      /\ Ordered(last) /\ AssignLast(last) /\ Kind(last) = Kind(rest)
  <2>1. CASE assigns
    <3>1. Head(rest) \in AnyStep /\ Tail(rest) \in Seq(AnyStep)
          /\ rest = <<Head(rest)>> \o Tail(rest)
      BY <2>1, <1>4, HeadTail
    <3>2. Kind(rest) = ({Head(rest).do} \ Free) \cup Kind(Tail(rest))
      BY <3>1, ConsKind
    <3>3. Kind(rest) = {"assign"}
      BY <3>2, <2>1, <1>5 DEF Free
    <3>4. <<c>> = <<c>> \o <<>> /\ <<c>> \in Seq(WriterStep) /\ <<>> \in Seq(AnyStep)
      BY <1>7
    <3>5. /\ Ordered(<<c>> \o <<>>) /\ AssignLast(<<c>> \o <<>>)
          /\ Kind(<<c>> \o <<>>) = ({"assign"} \ Free) \cup {}
      BY <3>4, <1>7, EmptyKind, ConsGood
    <3>6. last = <<c>>
      BY <2>1
    <3>7. last \in Seq(AnyStep)
      BY <3>6, <1>7
    <3> QED
      BY <3>3, <3>4, <3>5, <3>6, <3>7 DEF Free
  <2>2. CASE ~assigns
    BY <2>2, <1>4
  <2> QED
    BY <2>1, <2>2
<1> HIDE DEF last
<1>9. /\ first \o last \in Seq(WriterStep)
      /\ Ordered(first \o last) /\ AssignLast(first \o last)
      /\ Kind(first \o last) = IF same THEN Kind(rest) ELSE {"stop", "delays"} \cup Kind(rest)
  <2>1. CASE same
    <3>1. first \o last = last
      BY <2>1, <1>8, Cat0
    <3> QED
      BY <3>1, <2>1, <1>8
  <2>2. CASE ~same
    <3>1. first \o last = <<a>> \o (<<b>> \o last)
      BY <2>2, <1>7, <1>8, Cat2
    <3>2. /\ <<b>> \o last \in Seq(WriterStep) /\ <<a>> \o (<<b>> \o last) \in Seq(WriterStep)
          /\ <<b>> \o last \in Seq(AnyStep)
      BY <1>7, <1>8
    <3>3. \A j \in Kind(last) : Rank("delays") < Rank(j)
      BY <1>5, <1>8 DEF Rank
    <3>4. /\ Ordered(<<b>> \o last) /\ AssignLast(<<b>> \o last)
          /\ Kind(<<b>> \o last) = ({"delays"} \ Free) \cup Kind(rest)
      BY <3>3, <1>7, <1>8, ConsGood
    <3>5. \A j \in Kind(<<b>> \o last) : Rank("stop") < Rank(j)
      BY <3>4, <1>5 DEF Rank
    <3>6. /\ Ordered(<<a>> \o (<<b>> \o last)) /\ AssignLast(<<a>> \o (<<b>> \o last))
          /\ Kind(<<a>> \o (<<b>> \o last)) = ({"stop"} \ Free) \cup Kind(<<b>> \o last)
      BY <3>2, <3>4, <3>5, <1>7, ConsGood
    <3> QED
      BY <3>1, <3>2, <3>4, <3>6, <2>2 DEF Free
  <2> QED
    BY <2>1, <2>2
<1>10. StepsOK' /\ steps'[t] = first \o last /\ \A u \in Tasks \ {t} : steps'[u] = steps[u]
  BY <1>1, <1>9, SetWriter DEF TypeInv
<1> HIDE DEF first, same
<1>11. /\ Ordered(steps'[t]) /\ AssignLast(steps'[t])
       /\ K(t)' \in {Kind(rest), {"stop", "delays"} \cup Kind(rest)}
  BY <1>9, <1>10 DEF K
<1>12. Formed(steps'[t])
  <2>1. K(t)' \in Shapes
    BY <1>11, <1>5 DEF Shapes
  <2> QED
    BY <2>1, <1>11 DEF Formed, K
<1>13. /\ (Holder(t)' <=> Holder(t)) /\ ("data" \in K(t) => "data" \in K(t)')
       /\ ~Detached(t)' /\ Blinking(t)
       /\ "assign" \in K(t)' => "assign" \in K(t)
  BY <1>4, <1>5, <1>11 DEF Holder, Detached, Blinking
<1>14. trigger = "timer" /\ \A u \in Writers : ~Detached(u)
  BY <1>2, <1>13, BlinkingExcludes DEF WriterOK
<1>15. WriterOK(t)'
  BY <1>1, <1>2, <1>12, <1>13, <1>14 DEF WriterOK
<1>16. TriggerInv'
  BY <1>1, <1>10, <1>13, <1>14, <1>15, Private DEF Tasks
<1>17. FieldsOK'
  <2>1. storedOn \in Nat /\ storedOff \in Nat
    BY LedValues DEF TypeInv, FieldsOK
  <2>2. lost' \in BOOLEAN
    BY <1>1
  <2>3. blinkBrightness' \in 0..Full
    BY <1>1, LedValues DEF TypeInv, FieldsOK
  <2> QED
    BY <1>1, <2>1, <2>2, <2>3 DEF TypeInv, FieldsOK
<1> QED
  BY <1>10, <1>16, <1>17 DEF TypeInv

LEMMA SetDelaysKeeps ==
    ASSUME TypeInv, TriggerInv, NEW t \in Writers, SetDelays(t)
    PROVE  TypeInv' /\ TriggerInv'
<1> DEFINE on == Head(steps[t]).on
           off == Head(steps[t]).off
           b == [do |-> "level", v |-> blinkBrightness]
           new == IF on # 0 /\ off = 0 THEN <<b>> ELSE <<>>
           rest == Tail(steps[t])
<1>1. /\ Does(t, "delays") /\ delayOn' = on /\ delayOff' = off
      /\ armed' = (armed \/ Starts(on, off))
      /\ lost' = (lost /\ ~Starts(on, off))
      /\ Then(t, new)
      /\ UNCHANGED <<brightness, blinkBrightness, trigger, data, suspended, files, lock, lit>>
  BY DEF SetDelays, SetBrightness
<1>2. WriterOK(t) /\ Formed(steps[t])
  BY DEF TriggerInv, WriterOK
<1>3. "delays" \notin Free
  BY DEF Free
<1>4. b \in WriterStep /\ b \in AnyStep /\ b.do = "level"
  <2>1. b \in WriterStep
    BY LedValues DEF WriterStep, LightStep, TypeInv, FieldsOK
  <2> QED
    BY <2>1, StepKinds
<1> HIDE DEF b
<1>5. new \in Seq(WriterStep)
  BY <1>4
<1>6. /\ StepsOK' /\ steps'[t] = new \o rest
      /\ \A u \in Tasks \ {t} : steps'[u] = steps[u]
      /\ rest \in Seq(AnyStep) /\ Head(steps[t]) \in AnyStep /\ Head(steps[t]).do = "delays"
      /\ Ordered(rest) /\ AssignLast(rest)
      /\ K(t) = {"delays"} \cup Kind(rest)
      /\ \A j \in Kind(rest) : Rank("delays") < Rank(j)
  BY <1>1, <1>2, <1>3, <1>5, ThenWriter DEF TypeInv
<1>7. on \in Nat /\ off \in Nat
  BY <1>6, StepFields
<1>8. Kind(rest) \in {{"data", "unlock"}, {"assign"}}
  <2>1. {"delays"} \cup Kind(rest) \in Shapes
    BY <1>2, <1>6 DEF Formed, K
  <2> QED
    BY <2>1, <1>6, ShapeTails
<1> HIDE DEF on, off, rest
<1>9. Formed(steps'[t]) /\ K(t)' = Kind(rest)
  <2>1. Kind(rest) \in Shapes
    BY <1>8 DEF Shapes
  <2>2. CASE new = <<b>>
    <3>1. b.do \in Free /\ b.do # "assign"
      BY <1>4 DEF Free
    <3>2. /\ Ordered(<<b>> \o rest) /\ AssignLast(<<b>> \o rest)
          /\ Kind(<<b>> \o rest) = ({b.do} \ Free) \cup Kind(rest)
      BY <1>4, <1>6, <3>1, ConsGood
    <3>3. Kind(<<b>> \o rest) = Kind(rest)
      BY <3>1, <3>2
    <3> QED
      BY <2>1, <2>2, <3>2, <3>3, <1>6 DEF Formed, K
  <2>3. CASE new = <<>>
    <3>1. steps'[t] = rest
      BY <2>3, <1>6, Cat0
    <3> QED
      BY <2>1, <3>1, <1>6 DEF Formed, K
  <2> QED
    BY <2>2, <2>3
<1> HIDE DEF new
<1>10. /\ (Holder(t)' <=> Holder(t)) /\ ("data" \in K(t) => "data" \in K(t)')
       /\ ~Detached(t)' /\ Blinking(t)
       /\ "assign" \in K(t)' => "assign" \in K(t)
  BY <1>6, <1>8, <1>9 DEF Holder, Detached, Blinking
<1>11. trigger = "timer" /\ \A u \in Writers : ~Detached(u)
  BY <1>2, <1>10, BlinkingExcludes DEF WriterOK
<1>12. WriterOK(t)'
  BY <1>1, <1>2, <1>9, <1>10, <1>11 DEF WriterOK
<1>13. TriggerInv'
  BY <1>1, <1>6, <1>10, <1>11, <1>12, Private DEF Tasks
<1>14. armed' \in BOOLEAN /\ lost' \in BOOLEAN
  BY <1>1
<1> QED
  BY <1>1, <1>6, <1>7, <1>13, <1>14 DEF TypeInv, FieldsOK

LEMMA AssignKeeps ==
    ASSUME TypeInv, TriggerInv, NEW t \in Writers, AssignDelay(t)
    PROVE  TypeInv' /\ TriggerInv'
<1>1. /\ Does(t, "assign") /\ Then(t, <<>>)
      /\ IF Head(steps[t]).attr = "on"
         THEN delayOn' = Head(steps[t]).v /\ UNCHANGED delayOff
         ELSE delayOff' = Head(steps[t]).v /\ UNCHANGED delayOn
      /\ UNCHANGED <<brightness, blinkBrightness, trigger, data, suspended,
                     armed, files, lock, lit, lost>>
  BY DEF AssignDelay
<1>2. WriterOK(t) /\ Formed(steps[t])
  BY DEF TriggerInv, WriterOK
<1>3. "assign" \notin Free
  BY DEF Free
<1>4. /\ StepsOK' /\ \A u \in Tasks \ {t} : steps'[u] = steps[u]
      /\ Ordered(steps'[t]) /\ AssignLast(steps'[t])
      /\ Head(steps[t]) \in AnyStep /\ Head(steps[t]).do = "assign"
      /\ K(t) = {"assign"} \cup K(t)' /\ \A j \in K(t)' : Rank("assign") < Rank(j)
  BY <1>1, <1>2, <1>3, ThenNothing DEF TypeInv
<1>5. K(t)' = {}
  <2>1. {"assign"} \cup K(t)' \in Shapes
    BY <1>2, <1>4 DEF Formed, K
  <2> QED
    BY <2>1, <1>4, ShapeTails
<1>6. Formed(steps'[t])
  BY <1>4, <1>5 DEF Formed, K, Shapes
<1>7. /\ (Holder(t)' <=> Holder(t)) /\ ("data" \in K(t) => "data" \in K(t)')
      /\ ~Detached(t)' /\ Blinking(t) /\ ~Blinking(t)'
  BY <1>4, <1>5 DEF Holder, Detached, Blinking
<1>8. trigger = "timer" /\ \A u \in Writers : ~Detached(u)
  BY <1>2, <1>7, BlinkingExcludes DEF WriterOK
<1>9. WriterOK(t)'
  BY <1>1, <1>2, <1>5, <1>6, <1>7 DEF WriterOK, Holder
<1>10. TriggerInv'
  BY <1>1, <1>4, <1>7, <1>8, <1>9, Private DEF Tasks
<1>11. Head(steps[t]).v \in Nat
  BY <1>4, StepFields
<1> QED
  BY <1>1, <1>4, <1>10, <1>11 DEF TypeInv, FieldsOK

LEMMA LockKeeps ==
    ASSUME TypeInv, TriggerInv, NEW t \in Writers, Lock(t)
    PROVE  TypeInv' /\ TriggerInv'
<1>1. /\ Does(t, "lock") /\ Then(t, <<>>) /\ ~lock /\ lock' = TRUE
      /\ UNCHANGED <<brightness, blinkBrightness, delayOn, delayOff, trigger, data, suspended,
                     armed, files, lit, lost>>
  BY DEF Lock, fields
<1>2. WriterOK(t) /\ Formed(steps[t])
  BY DEF TriggerInv, WriterOK
<1>3. "lock" \notin Free
  BY DEF Free
<1>4. /\ StepsOK' /\ \A u \in Tasks \ {t} : steps'[u] = steps[u]
      /\ Ordered(steps'[t]) /\ AssignLast(steps'[t])
      /\ K(t) = {"lock"} \cup K(t)' /\ \A j \in K(t)' : Rank("lock") < Rank(j)
  BY <1>1, <1>2, <1>3, ThenNothing DEF TypeInv
<1>5. K(t)' = {"detach", "attach", "unlock"}
  <2>1. {"lock"} \cup K(t)' \in Shapes
    BY <1>2, <1>4 DEF Formed, K
  <2> QED
    BY <2>1, <1>4, ShapeTails
<1>6. Formed(steps'[t])
  BY <1>4, <1>5 DEF Formed, K, Shapes
<1>7. Holder(t)' /\ ~Detached(t)' /\ ~Blinking(t)' /\ "assign" \notin K(t)' /\ "data" \notin K(t)
  BY <1>4, <1>5 DEF Holder, Detached, Blinking
<1>8. Quiet' <=> Quiet
  BY <1>1, <1>4, LedTasks DEF Quiet, Idle, Tasks
<1>9. ASSUME NEW u \in Writers \ {t}
      PROVE  K(u)' = K(u) /\ ~Holder(u) /\ ~Holder(u)' /\ WriterOK(u)'
  <2>1. WriterOK(u) /\ ~Holder(u)
    BY <1>1 DEF TriggerInv, WriterOK
  <2>2. /\ K(u)' = K(u) /\ (Holder(u)' <=> Holder(u)) /\ (Detached(u)' <=> Detached(u))
        /\ (Blinking(u)' <=> Blinking(u)) /\ (Formed(steps[u])' <=> Formed(steps[u]))
    BY <1>4 DEF K, Holder, Detached, Blinking, Tasks
  <2> QED
    BY <2>1, <2>2, <1>1, <1>8 DEF WriterOK
<1>10. WriterOK(t)'
  BY <1>1, <1>6, <1>7 DEF WriterOK
<1>11. /\ \E u \in Writers : Holder(u)'
       /\ \A u, w \in Writers : Holder(u)' /\ Holder(w)' => u = w
  BY <1>7, <1>9
<1>12. files' => trigger' = "timer" /\ (data' \/ \E u \in Writers : "data" \in K(u)')
  BY <1>1, <1>7, <1>9 DEF TriggerInv
<1>13. trigger' = "none" => Quiet'
  BY <1>1, <1>8 DEF TriggerInv
<1>14. TriggerInv'
  BY <1>9, <1>10, <1>11, <1>12, <1>13 DEF TriggerInv
<1> QED
  BY <1>1, <1>4, <1>14 DEF TypeInv, FieldsOK

LEMMA UnlockKeeps ==
    ASSUME TypeInv, TriggerInv, NEW t \in Writers, Unlock(t)
    PROVE  TypeInv' /\ TriggerInv'
<1>1. /\ Does(t, "unlock") /\ Then(t, <<>>) /\ lock' = FALSE
      /\ UNCHANGED <<brightness, blinkBrightness, delayOn, delayOff, trigger, data, suspended,
                     armed, files, lit, lost>>
  BY DEF Unlock, fields
<1>2. WriterOK(t) /\ Formed(steps[t])
  BY DEF TriggerInv, WriterOK
<1>3. "unlock" \notin Free
  BY DEF Free
<1>4. /\ StepsOK' /\ \A u \in Tasks \ {t} : steps'[u] = steps[u]
      /\ Ordered(steps'[t]) /\ AssignLast(steps'[t])
      /\ K(t) = {"unlock"} \cup K(t)' /\ \A j \in K(t)' : Rank("unlock") < Rank(j)
  BY <1>1, <1>2, <1>3, ThenNothing DEF TypeInv
<1>5. K(t)' = {}
  <2>1. {"unlock"} \cup K(t)' \in Shapes
    BY <1>2, <1>4 DEF Formed, K
  <2> QED
    BY <2>1, <1>4, ShapeTails
<1>6. Formed(steps'[t])
  BY <1>4, <1>5 DEF Formed, K, Shapes
<1>7. Holder(t) /\ ~Holder(t)' /\ ~Detached(t)' /\ ~Blinking(t)' /\ "assign" \notin K(t)'
      /\ "data" \notin K(t)
  BY <1>4, <1>5 DEF Holder, Detached, Blinking
<1>8. Quiet' <=> Quiet
  BY <1>1, <1>4, LedTasks DEF Quiet, Idle, Tasks
<1>9. ASSUME NEW u \in Writers \ {t}
      PROVE  K(u)' = K(u) /\ ~Holder(u) /\ ~Holder(u)' /\ WriterOK(u)'
  <2>1. WriterOK(u) /\ ~Holder(u)
    BY <1>7 DEF TriggerInv
  <2>2. /\ K(u)' = K(u) /\ (Holder(u)' <=> Holder(u)) /\ (Detached(u)' <=> Detached(u))
        /\ (Blinking(u)' <=> Blinking(u)) /\ (Formed(steps[u])' <=> Formed(steps[u]))
    BY <1>4 DEF K, Holder, Detached, Blinking, Tasks
  <2> QED
    BY <2>1, <2>2, <1>1, <1>8 DEF WriterOK
<1>10. WriterOK(t)'
  BY <1>1, <1>6, <1>7 DEF WriterOK
<1>11. \A u \in Writers : ~Holder(u)'
  BY <1>7, <1>9
<1>12. files' => trigger' = "timer" /\ (data' \/ \E u \in Writers : "data" \in K(u)')
  BY <1>1, <1>7, <1>9 DEF TriggerInv
<1>13. trigger' = "none" => Quiet'
  BY <1>1, <1>8 DEF TriggerInv
<1>14. TriggerInv'
  BY <1>1, <1>9, <1>10, <1>11, <1>12, <1>13 DEF TriggerInv
<1> QED
  BY <1>1, <1>4, <1>14 DEF TypeInv, FieldsOK

LEMMA DetachKeeps ==
    ASSUME TypeInv, TriggerInv, NEW t \in Writers, Detach(t)
    PROVE  TypeInv' /\ TriggerInv'
<1> DEFINE a == [do |-> "remove"]
           b == [do |-> "stop"]
           c == [do |-> "drive", v |-> 0]
           new == IF trigger = "timer" THEN Deactivate ELSE <<>>
           rest == Tail(steps[t])
<1>1. /\ Does(t, "detach") /\ Then(t, new)
      /\ UNCHANGED <<brightness, blinkBrightness, delayOn, delayOff, trigger, data, suspended,
                     armed, files, lock, lit, lost>>
  BY DEF Detach, fields
<1>2. WriterOK(t) /\ Formed(steps[t])
  BY DEF TriggerInv, WriterOK
<1>3. "detach" \notin Free
  BY DEF Free
<1>4. /\ a \in WriterStep /\ b \in WriterStep /\ c \in WriterStep
      /\ a \in AnyStep /\ b \in AnyStep /\ c \in AnyStep
      /\ a.do = "remove" /\ b.do = "stop" /\ c.do = "drive"
  <2>1. a \in WriterStep /\ b \in WriterStep /\ c \in WriterStep
    BY LedValues DEF WriterStep, LightStep
  <2> QED
    BY <2>1, StepKinds
<1>5. /\ trigger # "timer" => new = <<>>
      /\ trigger = "timer" /\ ~data => new = <<b, c>>
      /\ trigger = "timer" /\ data => new = <<a, b, c>>
  <2>1. ~data => Deactivate = <<b, c>>
    BY DEF Deactivate, BrightnessSet
  <2>2. data => Deactivate = <<a, b, c>>
    <3>1. data => Deactivate = <<a>> \o <<b, c>>
      BY DEF Deactivate, BrightnessSet
    <3> HIDE DEF a, b, c
    <3>2. <<a>> \o <<b, c>> = <<a, b, c>>
      BY <1>4, Join
    <3> QED
      BY <3>1, <3>2
  <2> QED
    BY <2>1, <2>2
<1> HIDE DEF a, b, c, new
<1>6. new \in Seq(WriterStep)
  <2>1. <<>> \in Seq(WriterStep) /\ <<b, c>> \in Seq(WriterStep) /\ <<a, b, c>> \in Seq(WriterStep)
    BY <1>4
  <2> QED
    BY <2>1, <1>5 DEF TypeInv, FieldsOK
<1>7. /\ StepsOK' /\ steps'[t] = new \o rest
      /\ \A u \in Tasks \ {t} : steps'[u] = steps[u]
      /\ rest \in Seq(AnyStep)
      /\ Ordered(rest) /\ AssignLast(rest)
      /\ K(t) = {"detach"} \cup Kind(rest)
      /\ \A j \in Kind(rest) : Rank("detach") < Rank(j)
  BY <1>1, <1>2, <1>3, <1>6, ThenWriter DEF TypeInv
<1>8. Kind(rest) = {"attach", "unlock"}
  <2>1. {"detach"} \cup Kind(rest) \in Shapes
    BY <1>2, <1>7 DEF Formed, K
  <2> QED
    BY <2>1, <1>7, ShapeTails, ZenonT(60)
<1> HIDE DEF rest
<1>9. /\ <<c>> \o rest \in Seq(AnyStep) /\ Ordered(<<c>> \o rest) /\ AssignLast(<<c>> \o rest)
      /\ Kind(<<c>> \o rest) = {"attach", "unlock"}
  <2>1. /\ Ordered(<<c>> \o rest) /\ AssignLast(<<c>> \o rest)
        /\ Kind(<<c>> \o rest) = ({c.do} \ Free) \cup Kind(rest)
    BY <1>4, <1>7, ConsGood DEF Free
  <2>2. {c.do} \ Free = {}
    BY <1>4 DEF Free
  <2> QED
    BY <2>1, <2>2, <1>4, <1>7, <1>8
<1>10. /\ <<b>> \o (<<c>> \o rest) \in Seq(AnyStep)
       /\ Ordered(<<b>> \o (<<c>> \o rest)) /\ AssignLast(<<b>> \o (<<c>> \o rest))
       /\ Kind(<<b>> \o (<<c>> \o rest)) = {"stop", "attach", "unlock"}
  <2>1. \A j \in Kind(<<c>> \o rest) : Rank("stop") < Rank(j)
    BY <1>9 DEF Rank
  <2>2. /\ Ordered(<<b>> \o (<<c>> \o rest)) /\ AssignLast(<<b>> \o (<<c>> \o rest))
        /\ Kind(<<b>> \o (<<c>> \o rest)) = ({b.do} \ Free) \cup Kind(<<c>> \o rest)
    BY <1>4, <1>9, <2>1, ConsGood
  <2> QED
    BY <2>2, <1>4, <1>9 DEF Free
<1>11. /\ Ordered(<<a>> \o (<<b>> \o (<<c>> \o rest)))
       /\ AssignLast(<<a>> \o (<<b>> \o (<<c>> \o rest)))
       /\ Kind(<<a>> \o (<<b>> \o (<<c>> \o rest))) = {"remove", "stop", "attach", "unlock"}
  <2>1. \A j \in Kind(<<b>> \o (<<c>> \o rest)) : Rank("remove") < Rank(j)
    BY <1>10 DEF Rank
  <2>2. /\ Ordered(<<a>> \o (<<b>> \o (<<c>> \o rest)))
        /\ AssignLast(<<a>> \o (<<b>> \o (<<c>> \o rest)))
        /\ Kind(<<a>> \o (<<b>> \o (<<c>> \o rest)))
             = ({a.do} \ Free) \cup Kind(<<b>> \o (<<c>> \o rest))
    BY <1>4, <1>10, <2>1, ConsGood
  <2> QED
    BY <2>2, <1>4, <1>10 DEF Free
<1>12. /\ Ordered(steps'[t]) /\ AssignLast(steps'[t])
       /\ trigger # "timer" => Kind(steps'[t]) = {"attach", "unlock"}
       /\ trigger = "timer" /\ ~data => Kind(steps'[t]) = {"stop", "attach", "unlock"}
       /\ trigger = "timer" /\ data => Kind(steps'[t]) = {"remove", "stop", "attach", "unlock"}
  <2>1. CASE trigger # "timer"
    BY <2>1, <1>5, <1>7, <1>8, Cat0
  <2>2. CASE trigger = "timer" /\ ~data
    <3>1. steps'[t] = <<b>> \o (<<c>> \o rest)
      BY <2>2, <1>4, <1>5, <1>7, Cat2
    <3> QED
      BY <3>1, <2>2, <1>10
  <2>3. CASE trigger = "timer" /\ data
    <3>1. steps'[t] = <<a>> \o (<<b>> \o (<<c>> \o rest))
      BY <2>3, <1>4, <1>5, <1>7, Cat3, SMTT(60)
    <3> QED
      BY <3>1, <2>3, <1>11
  <2> QED
    BY <2>1, <2>2, <2>3
<1>13. /\ Formed(steps'[t])
       /\ K(t)' \in {{"attach", "unlock"}, {"stop", "attach", "unlock"},
                     {"remove", "stop", "attach", "unlock"}}
       /\ "stop" \notin K(t)' => trigger = "none"
       /\ "remove" \in K(t)' \/ trigger = "none" \/ ~data
  BY <1>12 DEF Formed, K, Shapes, TypeInv, FieldsOK
<1>14. /\ Holder(t) /\ Holder(t)' /\ "data" \notin K(t)
       /\ ~Blinking(t)' /\ "assign" \notin K(t)'
  BY <1>7, <1>8, <1>13 DEF Holder, Blinking
<1>15. Quiet' <=> Quiet
  BY <1>1, <1>7, LedTasks DEF Quiet, Idle, Tasks
<1>16. Detached(t)' => ~files
  <2>1. ASSUME NEW u \in Writers, "data" \in K(u) PROVE FALSE
    <3>1. K(u) \in Shapes
      BY DEF TriggerInv, WriterOK, Formed, K
    <3>2. Holder(u)
      BY <2>1, <3>1, ShapeFacts DEF Holder
    <3> QED
      BY <2>1, <3>2, <1>14 DEF TriggerInv
  <2>2. files => trigger = "timer" /\ data
    BY <2>1 DEF TriggerInv
  <2> QED
    BY <2>2, <1>13 DEF Detached
<1>17. Detached(t)' /\ "stop" \notin K(t)' => Quiet'
  BY <1>13, <1>15 DEF TriggerInv
<1>18. WriterOK(t)'
  BY <1>1, <1>2, <1>13, <1>14, <1>16, <1>17 DEF WriterOK
<1>19. TriggerInv'
  BY <1>1, <1>7, <1>14, <1>15, <1>18, Private DEF Tasks
<1> QED
  BY <1>1, <1>7, <1>19 DEF TypeInv, FieldsOK

LEMMA RemoveKeeps ==
    ASSUME TypeInv, TriggerInv, NEW t \in Writers, Remove(t)
    PROVE  TypeInv' /\ TriggerInv'
<1>1. /\ Does(t, "remove") /\ Then(t, <<>>) /\ files' = FALSE
      /\ \A u \in Writers : ~InDelayStore(u)
      /\ UNCHANGED <<brightness, blinkBrightness, delayOn, delayOff, trigger, data, suspended,
                     armed, lock, lit, lost>>
  BY DEF Remove, fields
<1>2. WriterOK(t) /\ Formed(steps[t])
  BY DEF TriggerInv, WriterOK
<1>3. "remove" \notin Free
  BY DEF Free
<1>4. /\ StepsOK' /\ \A u \in Tasks \ {t} : steps'[u] = steps[u]
      /\ Ordered(steps'[t]) /\ AssignLast(steps'[t])
      /\ K(t) = {"remove"} \cup K(t)' /\ \A j \in K(t)' : Rank("remove") < Rank(j)
  BY <1>1, <1>2, <1>3, ThenNothing DEF TypeInv
<1>5. K(t)' = {"stop", "attach", "unlock"}
  <2>1. {"remove"} \cup K(t)' \in Shapes
    BY <1>2, <1>4 DEF Formed, K
  <2> QED
    BY <2>1, <1>4, ShapeTails, ZenonT(60)
<1>6. Formed(steps'[t])
  BY <1>4, <1>5 DEF Formed, K, Shapes
<1>7. /\ Holder(t) /\ Holder(t)' /\ ~Blinking(t)' /\ "assign" \notin K(t)' /\ "stop" \in K(t)'
  BY <1>4, <1>5 DEF Holder, Blinking
<1>8. Quiet' <=> Quiet
  BY <1>1, <1>4, LedTasks DEF Quiet, Idle, Tasks
<1>9. ASSUME NEW u \in Writers \ {t}
      PROVE  K(u)' = K(u) /\ ~Holder(u)' /\ WriterOK(u)'
  <2>1. WriterOK(u) /\ ~Holder(u)
    BY <1>7 DEF TriggerInv
  <2>2. /\ K(u)' = K(u) /\ (Holder(u)' <=> Holder(u)) /\ (Detached(u)' <=> Detached(u))
        /\ (Blinking(u)' <=> Blinking(u)) /\ (Formed(steps[u])' <=> Formed(steps[u]))
    BY <1>4 DEF K, Holder, Detached, Blinking, Tasks
  <2>3. "assign" \notin K(u)
    <3>1. ASSUME "assign" \in K(u) PROVE InDelayStore(u)
      <4>1. steps[u] # <<>>
        BY <3>1, EmptyKind DEF K
      <4>2. steps[u][Len(steps[u])].do = "assign"
        BY <3>1, <2>1 DEF WriterOK, Formed, AssignLast, K
      <4> QED
        BY <4>1, <4>2 DEF InDelayStore, Idle
    <3> QED
      BY <3>1, <1>1
  <2> QED
    BY <2>1, <2>2, <2>3, <1>1, <1>8 DEF WriterOK, Detached
<1>10. WriterOK(t)'
  BY <1>1, <1>2, <1>6, <1>7 DEF WriterOK
<1>11. /\ \E u \in Writers : Holder(u)'
       /\ \A u, w \in Writers : Holder(u)' /\ Holder(w)' => u = w
  BY <1>7, <1>9
<1>12. trigger' = "none" => Quiet'
  BY <1>1, <1>8 DEF TriggerInv
<1>13. TriggerInv'
  BY <1>1, <1>9, <1>10, <1>11, <1>12 DEF TriggerInv
<1> QED
  BY <1>1, <1>4, <1>13 DEF TypeInv, FieldsOK

LEMMA ActivatedKeeps ==
    ASSUME TypeInv, TriggerInv, NEW t \in Writers, Activated(t)
    PROVE  TypeInv' /\ TriggerInv'
<1>1. /\ Does(t, "data") /\ Then(t, <<>>) /\ data' = TRUE
      /\ UNCHANGED <<brightness, blinkBrightness, delayOn, delayOff, trigger, suspended,
                     armed, files, lock, lit, lost>>
  BY DEF Activated
<1>2. WriterOK(t) /\ Formed(steps[t])
  BY DEF TriggerInv, WriterOK
<1>3. "data" \notin Free
  BY DEF Free
<1>4. /\ StepsOK' /\ \A u \in Tasks \ {t} : steps'[u] = steps[u]
      /\ Ordered(steps'[t]) /\ AssignLast(steps'[t])
      /\ K(t) = {"data"} \cup K(t)' /\ \A j \in K(t)' : Rank("data") < Rank(j)
  BY <1>1, <1>2, <1>3, ThenNothing DEF TypeInv
<1>5. K(t)' = {"unlock"}
  <2>1. {"data"} \cup K(t)' \in Shapes
    BY <1>2, <1>4 DEF Formed, K
  <2> QED
    BY <2>1, <1>4, ShapeTails, ZenonT(60)
<1>6. Formed(steps'[t])
  BY <1>4, <1>5 DEF Formed, K, Shapes
<1>7. /\ Holder(t) /\ Holder(t)' /\ ~Detached(t)' /\ ~Blinking(t)' /\ "assign" \notin K(t)'
  BY <1>4, <1>5 DEF Holder, Blinking, Detached
<1>8. Quiet' <=> Quiet
  BY <1>1, <1>4, LedTasks DEF Quiet, Idle, Tasks
<1>9. ASSUME NEW u \in Writers \ {t}
      PROVE  K(u)' = K(u) /\ ~Holder(u)' /\ WriterOK(u)'
  <2>1. WriterOK(u) /\ ~Holder(u)
    BY <1>7 DEF TriggerInv
  <2>2. /\ K(u)' = K(u) /\ (Holder(u)' <=> Holder(u)) /\ (Detached(u)' <=> Detached(u))
        /\ (Blinking(u)' <=> Blinking(u)) /\ (Formed(steps[u])' <=> Formed(steps[u]))
    BY <1>4 DEF K, Holder, Detached, Blinking, Tasks
  <2> QED
    BY <2>1, <2>2, <1>1, <1>8 DEF WriterOK, Detached
<1>10. WriterOK(t)'
  BY <1>1, <1>2, <1>6, <1>7 DEF WriterOK
<1>11. /\ \E u \in Writers : Holder(u)'
       /\ \A u, w \in Writers : Holder(u)' /\ Holder(w)' => u = w
  BY <1>7, <1>9
<1>12. (trigger' = "none" => Quiet') /\ (files' => trigger' = "timer" /\ data')
  BY <1>1, <1>8 DEF TriggerInv
<1>13. TriggerInv'
  BY <1>1, <1>9, <1>10, <1>11, <1>12 DEF TriggerInv
<1> QED
  BY <1>1, <1>4, <1>13 DEF TypeInv, FieldsOK

LEMMA AttachKeeps ==
    ASSUME TypeInv, TriggerInv, NEW t \in Writers, Attach(t)
    PROVE  TypeInv' /\ TriggerInv'
<1> DEFINE a == [do |-> "delete"]
           b == [do |-> "blink", attr |-> "both", v |-> 0]
           c == [do |-> "data"]
           rest == Tail(steps[t])
<1>1. /\ Does(t, "attach") /\ trigger' = Head(steps[t]).name
      /\ UNCHANGED <<brightness, blinkBrightness, delayOn, delayOff, suspended,
                     armed, lock, lit, lost>>
  BY DEF Attach
<1>2. WriterOK(t) /\ Formed(steps[t])
  BY DEF TriggerInv, WriterOK
<1>3. "attach" \notin Free
  BY DEF Free
<1>4. /\ a \in WriterStep /\ b \in WriterStep /\ c \in WriterStep
      /\ a \in AnyStep /\ b \in AnyStep /\ c \in AnyStep
      /\ a.do = "delete" /\ b.do = "blink" /\ c.do = "data"
  <2>1. a \in WriterStep /\ b \in WriterStep /\ c \in WriterStep
    BY DEF WriterStep
  <2> QED
    BY <2>1, StepKinds
<1>5. \/ trigger' = "timer" /\ data' = FALSE /\ files' = TRUE /\ Then(t, <<a, b, c>>)
      \/ trigger' = "timer" /\ data' = FALSE /\ files' = FALSE /\ Then(t, <<>>)
      \/ trigger' # "timer" /\ UNCHANGED <<data, files>> /\ Then(t, <<>>)
  <2>1. BlinkSet("both", 0) = <<a, b>>
    BY DEF BlinkSet
  <2>2. BlinkSet("both", 0) \o <<[do |-> "data"]>> = <<a, b>> \o <<c>>
    BY <2>1
  <2> HIDE DEF a, b, c
  <2>3. BlinkSet("both", 0) \o <<[do |-> "data"]>> = <<a, b, c>>
    BY <2>2, <1>4, Join
  <2> QED
    BY <2>3 DEF Attach
<1> HIDE DEF a, b, c
<1>6. PICK new \in Seq(WriterStep) :
        /\ Then(t, new)
        /\ \/ trigger' = "timer" /\ data' = FALSE /\ files' = TRUE /\ new = <<a, b, c>>
           \/ trigger' = "timer" /\ data' = FALSE /\ files' = FALSE /\ new = <<>>
           \/ trigger' # "timer" /\ UNCHANGED <<data, files>> /\ new = <<>>
  <2>1. <<>> \in Seq(WriterStep) /\ <<a, b, c>> \in Seq(WriterStep)
    BY <1>4
  <2> QED
    BY <2>1, <1>5
<1>7. /\ StepsOK' /\ steps'[t] = new \o rest
      /\ \A u \in Tasks \ {t} : steps'[u] = steps[u]
      /\ rest \in Seq(AnyStep) /\ Head(steps[t]) \in AnyStep /\ Head(steps[t]).do = "attach"
      /\ Ordered(rest) /\ AssignLast(rest)
      /\ K(t) = {"attach"} \cup Kind(rest)
      /\ \A j \in Kind(rest) : Rank("attach") < Rank(j)
  BY <1>1, <1>2, <1>3, <1>6, ThenWriter DEF TypeInv
<1>8. trigger' \in {"none", "timer"}
  BY <1>1, <1>7, StepFields
<1> HIDE DEF rest
<1>9. Kind(rest) = {"unlock"}
  <2>1. {"attach"} \cup Kind(rest) \in Shapes
    BY <1>2, <1>7 DEF Formed, K
  <2>2. \A j \in Kind(rest) : Rank("attach") < Rank(j)
    BY <1>7
  <2> QED
    BY <2>1, <2>2, ShapeTails
<1>10. ASSUME new = <<a, b, c>>
       PROVE  /\ Ordered(steps'[t]) /\ AssignLast(steps'[t])
              /\ K(t)' = {"delete", "blink", "data", "unlock"}
  <2>1. /\ <<c>> \o rest \in Seq(AnyStep) /\ Ordered(<<c>> \o rest) /\ AssignLast(<<c>> \o rest)
        /\ Kind(<<c>> \o rest) = {"data", "unlock"}
    <3>1. \A j \in Kind(rest) : Rank("data") < Rank(j)
      BY <1>9 DEF Rank
    <3>2. /\ Ordered(<<c>> \o rest) /\ AssignLast(<<c>> \o rest)
          /\ Kind(<<c>> \o rest) = ({c.do} \ Free) \cup Kind(rest)
      BY <1>4, <1>7, <3>1, ConsGood
    <3> QED
      BY <3>2, <1>4, <1>7, <1>9, SMTT(60) DEF Free
  <2>2. /\ <<b>> \o (<<c>> \o rest) \in Seq(AnyStep)
        /\ Ordered(<<b>> \o (<<c>> \o rest)) /\ AssignLast(<<b>> \o (<<c>> \o rest))
        /\ Kind(<<b>> \o (<<c>> \o rest)) = {"blink", "data", "unlock"}
    <3>1. \A j \in Kind(<<c>> \o rest) : Rank("blink") < Rank(j)
      BY <2>1 DEF Rank
    <3>2. /\ Ordered(<<b>> \o (<<c>> \o rest)) /\ AssignLast(<<b>> \o (<<c>> \o rest))
          /\ Kind(<<b>> \o (<<c>> \o rest)) = ({b.do} \ Free) \cup Kind(<<c>> \o rest)
      BY <1>4, <2>1, <3>1, ConsGood
    <3> QED
      BY <3>2, <1>4, <2>1 DEF Free
  <2>3. /\ Ordered(<<a>> \o (<<b>> \o (<<c>> \o rest)))
        /\ AssignLast(<<a>> \o (<<b>> \o (<<c>> \o rest)))
        /\ Kind(<<a>> \o (<<b>> \o (<<c>> \o rest))) = {"delete", "blink", "data", "unlock"}
    <3>1. \A j \in Kind(<<b>> \o (<<c>> \o rest)) : Rank("delete") < Rank(j)
      BY <2>2 DEF Rank
    <3>2. /\ Ordered(<<a>> \o (<<b>> \o (<<c>> \o rest)))
          /\ AssignLast(<<a>> \o (<<b>> \o (<<c>> \o rest)))
          /\ Kind(<<a>> \o (<<b>> \o (<<c>> \o rest)))
               = ({a.do} \ Free) \cup Kind(<<b>> \o (<<c>> \o rest))
      BY <1>4, <2>2, <3>1, ConsGood
    <3> QED
      BY <3>2, <1>4, <2>2 DEF Free
  <2>4. steps'[t] = <<a>> \o (<<b>> \o (<<c>> \o rest))
    BY <1>4, <1>7, <1>10, Cat3, SMTT(60)
  <2> QED
    BY <2>3, <2>4 DEF K
<1>11. ASSUME new = <<>>
       PROVE  Ordered(steps'[t]) /\ AssignLast(steps'[t]) /\ K(t)' = {"unlock"}
  <2>1. steps'[t] = rest
    BY <1>7, <1>11, Cat0
  <2> QED
    BY <2>1, <1>7, <1>9 DEF K
<1>12. /\ Formed(steps'[t])
       /\ K(t)' \in {{"delete", "blink", "data", "unlock"}, {"unlock"}}
       /\ files' => files \/ "data" \in K(t)'
       /\ Blinking(t)' => trigger' = "timer"
  BY <1>6, <1>10, <1>11 DEF Formed, K, Shapes, Blinking
<1>13. /\ Detached(t) /\ Holder(t) /\ Holder(t)' /\ ~Detached(t)' /\ "assign" \notin K(t)'
       /\ "stop" \notin K(t)
  BY <1>7, <1>9, <1>12 DEF Holder, Detached
<1>14. ~files /\ Quiet /\ lock
  BY <1>2, <1>13 DEF WriterOK
<1>15. Quiet'
  BY <1>1, <1>7, <1>14, LedTasks DEF Quiet, Idle, Tasks
<1>16. WriterOK(t)'
  BY <1>1, <1>12, <1>13, <1>14 DEF WriterOK
<1>17. ASSUME NEW u \in Writers \ {t}
       PROVE  K(u)' = K(u) /\ ~Holder(u)' /\ WriterOK(u)'
  <2>1. WriterOK(u) /\ ~Holder(u)
    BY <1>13 DEF TriggerInv
  <2>2. /\ K(u)' = K(u) /\ (Holder(u)' <=> Holder(u)) /\ (Detached(u)' <=> Detached(u))
        /\ (Blinking(u)' <=> Blinking(u)) /\ (Formed(steps[u])' <=> Formed(steps[u]))
    BY <1>7 DEF K, Holder, Detached, Blinking, Tasks
  <2>3. "assign" \notin K(u) /\ ~Blinking(u)
    <3>1. ~Blinking(u)
      BY <1>13, BlinkingExcludes
    <3> QED
      BY <3>1 DEF Blinking
  <2> QED
    BY <2>1, <2>2, <2>3 DEF WriterOK, Detached
<1>18. /\ \E u \in Writers : Holder(u)'
       /\ \A u, w \in Writers : Holder(u)' /\ Holder(w)' => u = w
  BY <1>13, <1>17
<1>19. files' => trigger' = "timer" /\ (data' \/ \E u \in Writers : "data" \in K(u)')
  BY <1>6, <1>12, <1>14
<1>20. TriggerInv'
  BY <1>15, <1>16, <1>17, <1>18, <1>19 DEF TriggerInv
<1>21. data' \in BOOLEAN /\ files' \in BOOLEAN
  BY <1>6 DEF TypeInv, FieldsOK
<1> QED
  BY <1>1, <1>7, <1>8, <1>20, <1>21 DEF TypeInv, FieldsOK

\* All of them.
LEMMA WriterSteps ==
    ASSUME TypeInv, TriggerInv, NEW t \in Writers, Step(t)
    PROVE  TypeInv' /\ TriggerInv'
<1>1. ~Rearm(t) /\ ~Resumed(t)
  BY WhoDoes DEF TypeInv, Rearm, Resumed, Tasks
<1> QED
  BY <1>1, LevelKeeps, DriveKeeps, GpioKeeps, DeleteKeeps, StopKeeps, BlinkKeeps,
     SetDelaysKeeps, AssignKeeps, LockKeeps, UnlockKeeps, DetachKeeps, RemoveKeeps,
     AttachKeeps, ActivatedKeeps DEF Step

-------------------------------------------------------------------------------
(* The steps of the timer and of the power task *)

\* They are few.
LEMMA OtherDoes ==
    ASSUME StepsOK, NEW t \in {Timer, Power}, Step(t)
    PROVE  \/ Level(t) \/ Drive(t) \/ Gpio(t)
           \/ (t = Timer /\ Rearm(t)) \/ (t = Power /\ Resumed(t))
<1>1. t \in Tasks
  BY DEF Tasks
<1>2. ASSUME NEW k, Does(t, k)
      PROVE  k \in {"level", "drive", "gpio"} \/ (k = "rearm" /\ t = Timer)
             \/ (k = "resumed" /\ t = Power)
  BY <1>1, <1>2, WhoDoes
<1>3. ~Delete(t) /\ ~Stop(t) /\ ~SetDelays(t) /\ ~AssignDelay(t)
  BY <1>2 DEF Delete, Stop, SetDelays, AssignDelay
<1>4. ~Blink(t)
  <2>1. ASSUME Blink(t) PROVE Does(t, "blink")
    BY <2>1 DEF Blink
  <2> QED
    BY <2>1, <1>2
<1>5. ~Lock(t) /\ ~Unlock(t) /\ ~Detach(t) /\ ~Remove(t) /\ ~Attach(t) /\ ~Activated(t)
  BY <1>2 DEF Lock, Unlock, Detach, Remove, Attach, Activated
<1>6. (Rearm(t) => t = Timer) /\ (Resumed(t) => t = Power)
  BY <1>2 DEF Rearm, Resumed
<1> QED
  BY <1>3, <1>4, <1>5, <1>6 DEF Step

LEMMA OtherSteps ==
    ASSUME TypeInv, TriggerInv, NEW t \in {Timer, Power}, Step(t)
    PROVE  TypeInv' /\ TriggerInv'
<1>1. t \in Tasks /\ t \notin Writers /\ StepsOK /\ Timer # Power /\ Writers \subseteq Tasks
  BY LedTasks DEF Tasks, TypeInv
<1>2. \/ Level(t) \/ Drive(t) \/ Gpio(t) \/ (t = Timer /\ Rearm(t)) \/ (t = Power /\ Resumed(t))
  BY <1>1, OtherDoes
\* The timer does a step, so that it was not idle; otherwise its steps are kept.
<1>3. ASSUME NEW k, Does(t, k), NEW new, Then(t, new),
             t = Timer => new \in Seq(TimerStep), t = Power => new \in Seq(PowerStep),
             UNCHANGED <<delayOn, delayOff, trigger, data, files, lock>>,
             t = Power => UNCHANGED armed
      PROVE  StepsOK' /\ TriggerInv'
  <2>1. StepsOK' /\ \A u \in Tasks \ {t} : steps'[u] = steps[u]
    BY <1>1, <1>3, ThenOther
  <2>2. Quiet => Quiet'
    <3>1. CASE t = Timer
      BY <3>1, <1>3 DEF Quiet, Does
    <3>2. CASE t = Power
      BY <3>2, <1>1, <1>3, <2>1 DEF Quiet, Idle, Tasks
    <3> QED
      BY <3>1, <3>2
  <2>3. \A u \in Writers : steps'[u] = steps[u]
    BY <1>1, <2>1
  <2> QED
    BY <1>3, <2>1, <2>2, <2>3, Elsewhere
<1>4. CASE Level(t)
  <2> DEFINE v == Head(steps[t]).v
             capped == IF v > Full THEN Full ELSE v
             new == IF suspended THEN <<>> ELSE <<[do |-> "drive", v |-> capped]>>
  <2>1. Does(t, "level") /\ Then(t, new) /\ brightness' = capped
        /\ UNCHANGED <<blinkBrightness, delayOn, delayOff, trigger, data, suspended,
                       armed, files, lock, lit, lost>>
    BY <1>4 DEF Level
  <2>2. v \in Nat
    BY <2>1, <1>1, HeadOf, StepFields
  <2>3. capped \in 0..Full
    BY <2>2, LedValues
  <2> HIDE DEF capped
  <2>4. [do |-> "drive", v |-> capped] \in TimerStep /\ [do |-> "drive", v |-> capped] \in PowerStep
    BY <2>3 DEF TimerStep, PowerStep, LightStep
  <2>5. new \in Seq(TimerStep) /\ new \in Seq(PowerStep)
    BY <2>4
  <2> HIDE DEF new
  <2>6. StepsOK' /\ TriggerInv'
    BY <1>3, <2>1, <2>5
  <2> QED
    BY <2>1, <2>3, <2>6 DEF TypeInv, FieldsOK
<1>5. CASE Drive(t)
  <2> DEFINE v == Head(steps[t]).v
             new == <<[do |-> "gpio", v |-> v]>>
  <2>1. Does(t, "drive") /\ Then(t, new) /\ brightness' = v
        /\ UNCHANGED <<blinkBrightness, delayOn, delayOff, trigger, data, suspended,
                       armed, files, lock, lit, lost>>
    BY <1>5 DEF Drive
  <2>2. v \in 0..Full
    BY <2>1, <1>1, HeadOf, StepFields
  <2> HIDE DEF v
  <2>3. [do |-> "gpio", v |-> v] \in TimerStep /\ [do |-> "gpio", v |-> v] \in PowerStep
    BY <2>2 DEF TimerStep, PowerStep, LightStep
  <2>4. new \in Seq(TimerStep) /\ new \in Seq(PowerStep)
    BY <2>3
  <2> HIDE DEF new
  <2>5. StepsOK' /\ TriggerInv'
    BY <1>3, <2>1, <2>4
  <2> QED
    BY <2>1, <2>2, <2>5 DEF TypeInv, FieldsOK
<1>6. CASE Gpio(t)
  <2>1. Does(t, "gpio") /\ Then(t, <<>>) /\ lit' = (Head(steps[t]).v # 0)
        /\ UNCHANGED <<brightness, blinkBrightness, delayOn, delayOff, trigger, data, suspended,
                       armed, files, lock, lost>>
    BY <1>6 DEF Gpio, fields
  <2>2. <<>> \in Seq(TimerStep) /\ <<>> \in Seq(PowerStep)
    OBVIOUS
  <2>3. StepsOK' /\ TriggerInv'
    BY <1>3, <2>1, <2>2
  <2> QED
    BY <2>1, <2>3 DEF TypeInv, FieldsOK
<1>7. CASE t = Timer /\ Rearm(t)
  <2>1. Does(t, "rearm") /\ Then(t, <<>>) /\ armed' = TRUE
        /\ UNCHANGED <<brightness, blinkBrightness, delayOn, delayOff, trigger, data, suspended,
                       files, lock, lit, lost>>
    BY <1>7 DEF Rearm, fields
  <2>2. <<>> \in Seq(TimerStep) /\ <<>> \in Seq(PowerStep)
    OBVIOUS
  <2>3. StepsOK' /\ TriggerInv'
    BY <1>1, <1>3, <1>7, <2>1, <2>2
  <2> QED
    BY <2>1, <2>3 DEF TypeInv, FieldsOK
<1>8. CASE t = Power /\ Resumed(t)
  <2>1. Does(t, "resumed") /\ Then(t, <<>>) /\ suspended' = FALSE
        /\ UNCHANGED <<brightness, blinkBrightness, delayOn, delayOff, trigger, data,
                       armed, files, lock, lit, lost>>
    BY <1>8 DEF Resumed
  <2>2. <<>> \in Seq(TimerStep) /\ <<>> \in Seq(PowerStep)
    OBVIOUS
  <2>3. StepsOK' /\ TriggerInv'
    BY <1>1, <1>3, <1>8, <2>1, <2>2
  <2> QED
    BY <2>1, <2>3 DEF TypeInv, FieldsOK
<1> QED
  BY <1>2, <1>4, <1>5, <1>6, <1>7, <1>8

-------------------------------------------------------------------------------
(* What a call gives a writer to do *)

LEMMA LevelProgram ==
    ASSUME NEW v \in Nat
    PROVE  LET q == SetBrightness(v)
           IN  q \in Seq(WriterStep) /\ Ordered(q) /\ AssignLast(q) /\ Kind(q) = {}
<1> DEFINE a == [do |-> "level", v |-> v]
<1>1. SetBrightness(v) = <<a>>
  BY DEF SetBrightness
<1>2. a \in WriterStep /\ a \in AnyStep /\ a.do = "level"
  <2>1. a \in WriterStep
    BY DEF WriterStep, LightStep
  <2> QED
    BY <2>1, StepKinds
<1> HIDE DEF a
<1>3. <<a>> = <<a>> \o <<>> /\ <<>> \in Seq(AnyStep) /\ <<a>> \in Seq(WriterStep)
  BY <1>2
<1>4. /\ Ordered(<<a>> \o <<>>) /\ AssignLast(<<a>> \o <<>>)
      /\ Kind(<<a>> \o <<>>) = ({a.do} \ Free) \cup Kind(<<>>)
  BY <1>2, <1>3, EmptyKind, ConsGood
<1>5. Kind(<<a>>) = {}
  BY <1>2, <1>3, <1>4, EmptyKind DEF Free
<1> QED
  BY <1>1, <1>3, <1>4, <1>5

LEMMA FourSteps ==
    ASSUME NEW a \in WriterStep, NEW b \in WriterStep, NEW c \in WriterStep, NEW d \in WriterStep,
           a.do = "lock", b.do = "detach", c.do = "attach", d.do = "unlock",
           NEW r \in Seq(WriterStep), Ordered(r), AssignLast(r), Kind(r) = {}
    PROVE  LET q == <<a, b, c, d>> \o r
           IN  /\ q \in Seq(WriterStep) /\ Ordered(q) /\ AssignLast(q)
               /\ Kind(q) = {"lock", "detach", "attach", "unlock"}
<1>1. a \in AnyStep /\ b \in AnyStep /\ c \in AnyStep /\ d \in AnyStep
  BY StepKinds
<1>2. r \in Seq(AnyStep)
  BY StepKinds
<1> DEFINE rd == <<d>> \o r
           rc == <<c>> \o rd
           rb == <<b>> \o rc
           ra == <<a>> \o rb
<1>3. rd \in Seq(AnyStep) /\ rc \in Seq(AnyStep) /\ rb \in Seq(AnyStep)
      /\ <<a, b, c, d>> \o r \in Seq(WriterStep)
  BY <1>1, <1>2
<1>4. <<a, b, c, d>> \o r = ra
  <2>1. <<a, b, c, d>> \o r = <<a, b, c>> \o rd
    BY <1>1, <1>2, Cat4
  <2> HIDE DEF rd
  <2>2. <<a, b, c>> \o rd = <<a>> \o (<<b>> \o (<<c>> \o rd))
    BY <1>1, <1>3, Cat3, SMTT(60)
  <2> QED
    BY <2>1, <2>2
<1>5. Ordered(rd) /\ AssignLast(rd) /\ Kind(rd) = {"unlock"}
  <2>1. Ordered(rd) /\ AssignLast(rd) /\ Kind(rd) = ({d.do} \ Free) \cup Kind(r)
    BY <1>1, <1>2, ConsGood
  <2> QED
    BY <2>1, <1>1 DEF Free
<1> HIDE DEF rd
<1>6. Ordered(rc) /\ AssignLast(rc) /\ Kind(rc) = {"attach", "unlock"}
  <2>1. \A j \in Kind(rd) : Rank("attach") < Rank(j)
    BY <1>5 DEF Rank
  <2>2. Ordered(rc) /\ AssignLast(rc) /\ Kind(rc) = ({c.do} \ Free) \cup Kind(rd)
    BY <1>1, <1>3, <1>5, <2>1, ConsGood
  <2> QED
    BY <2>2, <1>1, <1>5 DEF Free
<1> HIDE DEF rc
<1>7. Ordered(rb) /\ AssignLast(rb) /\ Kind(rb) = {"detach", "attach", "unlock"}
  <2>1. \A j \in Kind(rc) : Rank("detach") < Rank(j)
    BY <1>6 DEF Rank
  <2>2. Ordered(rb) /\ AssignLast(rb) /\ Kind(rb) = ({b.do} \ Free) \cup Kind(rc)
    BY <1>1, <1>3, <1>6, <2>1, ConsGood
  <2> QED
    BY <2>2, <1>1, <1>6 DEF Free
<1> HIDE DEF rb
<1>8. Ordered(ra) /\ AssignLast(ra) /\ Kind(ra) = {"lock", "detach", "attach", "unlock"}
  <2>1. \A j \in Kind(rb) : Rank("lock") < Rank(j)
    BY <1>7 DEF Rank
  <2>2. Ordered(ra) /\ AssignLast(ra) /\ Kind(ra) = ({a.do} \ Free) \cup Kind(rb)
    BY <1>1, <1>3, <1>7, <2>1, ConsGood
  <2> QED
    BY <2>2, <1>1, <1>7 DEF Free
<1> QED
  BY <1>3, <1>4, <1>8

\* Before other steps that anyone may do.
LEMMA TriggerProgram ==
    ASSUME NEW name \in {"none", "timer"}, NEW r \in Seq(WriterStep),
           Ordered(r), AssignLast(r), Kind(r) = {}
    PROVE  LET q == SetTrigger(name) \o r
           IN  /\ q \in Seq(WriterStep) /\ Ordered(q) /\ AssignLast(q)
               /\ Kind(q) = {"lock", "detach", "attach", "unlock"}
<1> DEFINE a == [do |-> "lock"]
           b == [do |-> "detach"]
           c == [do |-> "attach", name |-> name]
           d == [do |-> "unlock"]
<1>1. SetTrigger(name) = <<a, b, c, d>>
  BY DEF SetTrigger
<1>2. a \in WriterStep /\ b \in WriterStep /\ c \in WriterStep /\ d \in WriterStep
  BY DEF WriterStep
<1>3. a.do = "lock" /\ b.do = "detach" /\ c.do = "attach" /\ d.do = "unlock"
  OBVIOUS
<1> HIDE DEF a, b, c, d
<1> QED
  BY <1>1, <1>2, <1>3, FourSteps

LEMMA DelayProgram ==
    ASSUME NEW attr \in {"on", "off"}, NEW v \in Nat
    PROVE  LET q == DelayStore(attr, v)
           IN  /\ q \in Seq(WriterStep) /\ Ordered(q) /\ AssignLast(q)
               /\ Kind(q) = {"delete", "blink", "assign"}
               /\ q = <<[do |-> "delete"], [do |-> "blink", attr |-> attr, v |-> v],
                        [do |-> "assign", attr |-> attr, v |-> v]>>
<1> DEFINE a == [do |-> "delete"]
           b == [do |-> "blink", attr |-> attr, v |-> v]
           c == [do |-> "assign", attr |-> attr, v |-> v]
<1>1. DelayStore(attr, v) = <<a, b>> \o <<c>>
  BY DEF DelayStore, BlinkSet
<1>2. /\ a \in WriterStep /\ b \in WriterStep /\ c \in WriterStep
      /\ a \in AnyStep /\ b \in AnyStep /\ c \in AnyStep
      /\ a.do = "delete" /\ b.do = "blink" /\ c.do = "assign"
  <2>1. a \in WriterStep /\ b \in WriterStep /\ c \in WriterStep
    BY DEF WriterStep
  <2> QED
    BY <2>1, StepKinds
<1> HIDE DEF a, b, c
<1> DEFINE rc == <<c>> \o <<>>
           rb == <<b>> \o rc
           ra == <<a>> \o rb
<1>3. DelayStore(attr, v) = <<a, b, c>> /\ <<a, b, c>> \in Seq(WriterStep)
      /\ <<>> \in Seq(AnyStep)
  <2>1. <<a, b>> \o <<c>> = <<a, b, c>>
    BY <1>2, Join
  <2>2. <<a, b, c>> \in Seq(WriterStep)
    BY <1>2
  <2> QED
    BY <1>1, <2>1, <2>2
<1>4. rc \in Seq(AnyStep) /\ rb \in Seq(AnyStep)
  BY <1>2
<1>5. <<a, b, c>> = ra
  <2>1. rc = <<c>>
    <3>1. <<c>> \in Seq(AnyStep)
      BY <1>2
    <3> QED
      BY <3>1, Cat0
  <2>2. rb = <<b, c>>
    <3>1. <<b>> \o <<c>> = <<b, c>>
      BY <1>2, Pair
    <3> QED
      BY <2>1, <3>1
  <2>3. <<a>> \o <<b, c>> = <<a, b, c>>
    BY <1>2, Join
  <2> QED
    BY <2>2, <2>3
<1>6. Ordered(rc) /\ AssignLast(rc) /\ Kind(rc) = {"assign"}
  <2>1. Ordered(rc) /\ AssignLast(rc) /\ Kind(rc) = ({c.do} \ Free) \cup Kind(<<>>)
    BY <1>2, <1>3, EmptyKind, ConsGood
  <2> QED
    BY <2>1, <1>2, EmptyKind DEF Free
<1> HIDE DEF rc
<1>7. Ordered(rb) /\ AssignLast(rb) /\ Kind(rb) = {"blink", "assign"}
  <2>1. \A j \in Kind(rc) : Rank("blink") < Rank(j)
    BY <1>6 DEF Rank
  <2>2. Ordered(rb) /\ AssignLast(rb) /\ Kind(rb) = ({b.do} \ Free) \cup Kind(rc)
    BY <1>2, <1>4, <1>6, <2>1, ConsGood
  <2> QED
    BY <2>2, <1>2, <1>6 DEF Free
<1> HIDE DEF rb
<1>8. Ordered(ra) /\ AssignLast(ra) /\ Kind(ra) = {"delete", "blink", "assign"}
  <2>1. \A j \in Kind(rb) : Rank("delete") < Rank(j)
    BY <1>7 DEF Rank
  <2>2. Ordered(ra) /\ AssignLast(ra) /\ Kind(ra) = ({a.do} \ Free) \cup Kind(rb)
    BY <1>2, <1>4, <1>7, <2>1, ConsGood
  <2> QED
    BY <2>2, <1>2, <1>7 DEF Free
<1> QED
  BY <1>3, <1>5, <1>8 DEF a, b, c

\* A writer begins a store.
LEMMA BeginKeeps ==
    ASSUME TypeInv, TriggerInv, NEW t \in Writers, NEW q \in Seq(WriterStep), Begin(t, q),
           Ordered(q), AssignLast(q),
           \/ Kind(q) \in {{}, {"lock", "detach", "attach", "unlock"}}
           \/ files /\ Kind(q) = {"delete", "blink", "assign"},
           UNCHANGED <<fields, armed, files, lock, lit, lost>>
    PROVE  TypeInv' /\ TriggerInv' /\ K(t) = {} /\ steps'[t] = q
           /\ \A u \in Tasks \ {t} : steps'[u] = steps[u]
<1>1. steps' = [steps EXCEPT ![t] = q] /\ steps[t] = <<>>
      /\ UNCHANGED <<brightness, blinkBrightness, delayOn, delayOff, trigger, data, suspended>>
  BY DEF Begin, Idle, fields
<1>2. StepsOK' /\ steps'[t] = q /\ \A u \in Tasks \ {t} : steps'[u] = steps[u]
  BY <1>1, SetWriter DEF TypeInv
<1>3. K(t) = {} /\ K(t)' = Kind(q)
  BY <1>1, <1>2, EmptyKind DEF K
<1>4. Formed(steps'[t])
  BY <1>2 DEF Formed, Shapes
<1>5. /\ (Holder(t)' <=> Holder(t)) /\ ~Detached(t)' /\ "data" \notin K(t)
      /\ "assign" \in K(t)' => files
      /\ Blinking(t)' => files
  BY <1>3 DEF Holder, Detached, Blinking
<1>6. Quiet' <=> Quiet
  BY <1>1, <1>2, LedTasks DEF Quiet, Idle, Tasks
<1>7. WriterOK(t)'
  BY <1>1, <1>3, <1>4, <1>5 DEF WriterOK, TriggerInv, Holder
<1>8. TriggerInv'
  BY <1>1, <1>2, <1>5, <1>6, <1>7, Private DEF Tasks
<1> QED
  BY <1>1, <1>2, <1>3, <1>8 DEF TypeInv, FieldsOK

LEMMA StoreKeeps ==
    ASSUME TypeInv, TriggerInv, NEW t \in Writers
    PROVE  /\ \A name \in {"none", "timer"} : StoreTrigger(t, name) => TypeInv' /\ TriggerInv'
           /\ \A v \in Nat : StoreBrightness(t, v) => TypeInv' /\ TriggerInv'
           /\ \A attr \in {"on", "off"}, v \in Nat :
                StoreDelay(t, attr, v) => TypeInv' /\ TriggerInv'
<1>1. <<>> \in Seq(WriterStep) /\ <<>> \in Seq(AnyStep)
  OBVIOUS
<1>2. ASSUME NEW name \in {"none", "timer"}, StoreTrigger(t, name) PROVE TypeInv' /\ TriggerInv'
  <2> DEFINE q == SetTrigger(name) \o <<>>
  <2>1. q \in Seq(WriterStep) /\ Ordered(q) /\ AssignLast(q)
        /\ Kind(q) = {"lock", "detach", "attach", "unlock"}
    BY <1>1, EmptyKind, TriggerProgram
  <2>2. SetTrigger(name) = q
    BY DEF SetTrigger
  <2> HIDE DEF q
  <2>3. Begin(t, q) /\ UNCHANGED <<fields, armed, files, lock, lit, lost>>
    BY <1>2, <2>2 DEF StoreTrigger
  <2> QED
    BY <2>1, <2>3, BeginKeeps
<1>3. ASSUME NEW v \in Nat, StoreBrightness(t, v) PROVE TypeInv' /\ TriggerInv'
  <2> DEFINE r == SetBrightness(v)
             q == SetTrigger("none") \o r
  <2>1. r \in Seq(WriterStep) /\ Ordered(r) /\ AssignLast(r) /\ Kind(r) = {}
    BY LevelProgram
  <2> HIDE DEF r
  <2>2. q \in Seq(WriterStep) /\ Ordered(q) /\ AssignLast(q)
        /\ Kind(q) = {"lock", "detach", "attach", "unlock"}
    BY <2>1, TriggerProgram
  <2>3. BrightnessStore(v) = IF v = 0 THEN q ELSE r
    BY <2>1, Cat0 DEF BrightnessStore, r
  <2> HIDE DEF q
  <2>4. Begin(t, BrightnessStore(v)) /\ UNCHANGED <<fields, armed, files, lock, lit, lost>>
    BY <1>3 DEF StoreBrightness
  <2>5. CASE v = 0
    BY <2>2, <2>3, <2>4, <2>5, BeginKeeps
  <2>6. CASE v # 0
    BY <2>1, <2>3, <2>4, <2>6, BeginKeeps
  <2> QED
    BY <2>5, <2>6
<1>4. ASSUME NEW attr \in {"on", "off"}, NEW v \in Nat, StoreDelay(t, attr, v)
      PROVE  TypeInv' /\ TriggerInv'
  <2>1. UNCHANGED <<fields, armed, files, lock, lit, lost>>
        /\ Begin(t, IF files THEN DelayStore(attr, v) ELSE <<>>)
    BY <1>4 DEF StoreDelay
  <2>2. CASE files
    <3> DEFINE q == DelayStore(attr, v)
    <3>1. q \in Seq(WriterStep) /\ Ordered(q) /\ AssignLast(q)
          /\ Kind(q) = {"delete", "blink", "assign"}
      BY DelayProgram
    <3>2. Begin(t, q)
      BY <2>1, <2>2
    <3> HIDE DEF q
    <3> QED
      BY <2>1, <2>2, <3>1, <3>2, BeginKeeps
  <2>3. CASE ~files
    BY <1>1, <2>1, <2>3, EmptyKind, BeginKeeps
  <2> QED
    BY <2>2, <2>3
<1> QED
  BY <1>2, <1>3, <1>4

-------------------------------------------------------------------------------
(* The timer fires, the devices are suspended and resumed *)

LEMMA SetOther ==
    ASSUME StepsOK, NEW t \in {Timer, Power}, NEW q, steps' = [steps EXCEPT ![t] = q],
           t = Timer => q \in Seq(TimerStep), t = Power => q \in Seq(PowerStep)
    PROVE  StepsOK' /\ steps'[t] = q /\ \A u \in Tasks \ {t} : steps'[u] = steps[u]
<1>1. q \in Seq(AnyStep)
  BY StepKinds
<1>2. steps \in [Tasks -> Seq(AnyStep)] /\ t \in Tasks
  BY DEF StepsOK, Tasks
<1>3. /\ steps' \in [Tasks -> Seq(AnyStep)] /\ steps'[t] = q
      /\ \A u \in Tasks \ {t} : steps'[u] = steps[u]
  BY <1>1, <1>2
<1>4. StepsOK'
  BY <1>3, LedTasks DEF StepsOK, Tasks
<1> QED
  BY <1>3, <1>4

\* What the timer function leaves to the softirq.
LEMMA FireIs ==
    ASSUME TypeInv, Fire
    PROVE  /\ armed /\ armed' = FALSE /\ steps[Timer] = <<>>
           /\ UNCHANGED <<brightness, delayOn, delayOff, trigger, data, suspended,
                          files, lock, lit, lost>>
           /\ blinkBrightness' \in 0..Full
           /\ StepsOK' /\ \A u \in Tasks \ {Timer} : steps'[u] = steps[u]
           /\ delayOn # 0 /\ delayOff # 0 =>
                \E i \in DOMAIN steps'[Timer] : steps'[Timer][i].do = "rearm"
<1>1. /\ armed /\ armed' = FALSE
      /\ UNCHANGED <<brightness, delayOn, delayOff, trigger, data, suspended,
                     files, lock, lit, lost>>
  BY DEF Fire
<1>2. PICK v \in 0..Full :
        /\ \/ Begin(Timer, SetBrightness(v)) /\ (delayOn = 0 \/ delayOff = 0)
           \/ Begin(Timer, SetBrightness(v) \o <<[do |-> "rearm"]>>)
        /\ blinkBrightness' \in 0..Full
  <2>1. 0 \in 0..Full /\ brightness \in 0..Full /\ blinkBrightness \in 0..Full
    BY LedValues DEF TypeInv, FieldsOK
  <2> QED
    BY <2>1 DEF Fire
<1> DEFINE a == [do |-> "level", v |-> v]
           b == [do |-> "rearm"]
<1>3. a \in TimerStep /\ b \in TimerStep /\ b.do = "rearm"
  BY LedValues DEF TimerStep, LightStep
<1>4. SetBrightness(v) = <<a>> /\ SetBrightness(v) \o <<[do |-> "rearm"]>> = <<a, b>>
  <2>1. SetBrightness(v) = <<a>> /\ SetBrightness(v) \o <<[do |-> "rearm"]>> = <<a>> \o <<b>>
    BY DEF SetBrightness
  <2> HIDE DEF a, b
  <2> QED
    BY <1>3, <2>1, Pair
<1> HIDE DEF a, b
<1>5. <<a>> \in Seq(TimerStep) /\ <<a, b>> \in Seq(TimerStep)
      /\ 2 \in DOMAIN <<a, b>> /\ <<a, b>>[2] = b
  BY <1>3
<1>6. PICK q \in Seq(TimerStep) :
        /\ Begin(Timer, q)
        /\ delayOn # 0 /\ delayOff # 0 => \E i \in DOMAIN q : q[i].do = "rearm"
  BY <1>2, <1>3, <1>4, <1>5
<1>7. steps[Timer] = <<>> /\ steps' = [steps EXCEPT ![Timer] = q]
  BY <1>6 DEF Begin, Idle
<1>8. StepsOK' /\ steps'[Timer] = q /\ \A u \in Tasks \ {Timer} : steps'[u] = steps[u]
  BY <1>7, LedTasks, SetOther DEF TypeInv
<1> QED
  BY <1>1, <1>2, <1>6, <1>7, <1>8

LEMMA FireKeeps ==
    ASSUME TypeInv, TriggerInv, Fire
    PROVE  TypeInv' /\ TriggerInv'
<1>1. /\ armed /\ armed' = FALSE
      /\ UNCHANGED <<brightness, delayOn, delayOff, trigger, data, suspended,
                     files, lock, lit, lost>>
      /\ blinkBrightness' \in 0..Full
      /\ StepsOK' /\ \A u \in Tasks \ {Timer} : steps'[u] = steps[u]
  BY FireIs
<1>2. TriggerInv'
  BY <1>1, LedTasks, Elsewhere DEF Quiet, Tasks
<1> QED
  BY <1>1, <1>2 DEF TypeInv, FieldsOK

LEMMA PowerKeeps ==
    ASSUME TypeInv, TriggerInv, Suspend \/ Resume
    PROVE  TypeInv' /\ TriggerInv'
<1> DEFINE a(v) == [do |-> "drive", v |-> v]
           b == [do |-> "resumed"]
<1>1. b \in PowerStep /\ \A v \in 0..Full : a(v) \in PowerStep
  BY DEF PowerStep, LightStep
<1>2. 0 \in 0..Full /\ brightness \in 0..Full
  BY LedValues DEF TypeInv, FieldsOK
<1>3. PICK q \in Seq(PowerStep) :
        /\ Begin(Power, q)
        /\ suspended' \in BOOLEAN
        /\ UNCHANGED <<brightness, blinkBrightness, delayOn, delayOff, trigger, data,
                       armed, files, lock, lit, lost>>
  <2>1. <<a(0)>> \in Seq(PowerStep) /\ <<a(brightness), b>> \in Seq(PowerStep)
    BY <1>1, <1>2
  <2>2. Suspend \/ Resume => Begin(Power, <<a(0)>>) \/ Begin(Power, <<a(brightness), b>>)
    BY DEF Suspend, Resume
  <2>3. /\ suspended' \in BOOLEAN
        /\ UNCHANGED <<brightness, blinkBrightness, delayOn, delayOff, trigger, data,
                       armed, files, lock, lit, lost>>
    BY DEF Suspend, Resume, fields, TypeInv, FieldsOK
  <2> HIDE DEF a, b
  <2> QED
    BY <2>1, <2>2, <2>3
<1>4. steps' = [steps EXCEPT ![Power] = q]
  BY <1>3 DEF Begin
<1>5. StepsOK' /\ \A u \in Tasks \ {Power} : steps'[u] = steps[u]
  BY <1>4, LedTasks, SetOther DEF TypeInv
<1>6. Quiet => Quiet'
  BY <1>3, <1>5, LedTasks DEF Quiet, Idle, Tasks
<1>7. TriggerInv'
  BY <1>3, <1>5, <1>6, LedTasks, Elsewhere DEF Tasks
<1> QED
  BY <1>3, <1>5, <1>7 DEF TypeInv, FieldsOK

-------------------------------------------------------------------------------
(* The HAL *)

WriteRec == [to : {"trigger"}, v : {"none", "timer"}] \cup [to : {"on", "off", "brightness"}, v : Nat]
Known(s) == /\ s.lit \in BOOLEAN /\ s.flash \in BOOLEAN /\ s.level \in 0..Full
            /\ (s.level # 0 => s.lit) /\ s.on \in Nat /\ s.off \in Nat

HalOK ==
    /\ notification \in States \cup {Dark} /\ battery \in States \cup {Dark}
    /\ writes \in Seq(WriteRec) /\ meddled \in BOOLEAN /\ meddles \in 0..MaxMeddle

LightsInv == TypeInv /\ TriggerInv /\ HalOK

LEMMA KnownStates == \A s \in States \cup {Dark} : Known(s)
<1>1. Known(Dark)
  BY LedValues DEF Dark, Known
<1> QED
  BY <1>1, LightsStates DEF Known

LEMMA WritesTyped ==
    ASSUME NEW s, Known(s)
    PROVE  Writes(s) \in Seq(WriteRec) /\ Writes(s) # <<>>
<1> DEFINE a == [to |-> "trigger", v |-> "timer"]
           b == [to |-> "on", v |-> s.on]
           c == [to |-> "off", v |-> s.off]
           n == [to |-> "trigger", v |-> "none"]
           d == [to |-> "brightness", v |-> s.level]
<1>1. a \in WriteRec /\ b \in WriteRec /\ c \in WriteRec /\ n \in WriteRec /\ d \in WriteRec
  BY LedValues DEF WriteRec, Known
<1>2. Writes(s) = (IF s.flash THEN <<a, b, c>> ELSE <<n>>) \o <<d>>
  BY DEF Writes
<1> HIDE DEF a, b, c, d, n
<1> QED
  BY <1>1, <1>2

LEMMA LightsInitial == LightsInit => LightsInv
<1> SUFFICES ASSUME LightsInit PROVE LightsInv
  OBVIOUS
<1>1. /\ brightness = 0 /\ blinkBrightness = 0 /\ delayOn = 0 /\ delayOff = 0
      /\ trigger = "none" /\ data = FALSE /\ suspended = FALSE
      /\ armed = FALSE /\ files = FALSE /\ lock = FALSE /\ lit = FALSE /\ lost = FALSE
      /\ steps = [t \in Tasks |-> <<>>]
      /\ notification = Dark /\ battery = Dark /\ writes = <<>> /\ meddled = TRUE /\ meddles = 0
  BY DEF LightsInit, Init
<1>2. \A t \in Tasks : steps[t] = <<>>
  BY <1>1
<1>3. StepsOK
  <2>1. <<>> \in Seq(AnyStep) /\ <<>> \in Seq(WriterStep) /\ <<>> \in Seq(TimerStep)
        /\ <<>> \in Seq(PowerStep)
    OBVIOUS
  <2> QED
    BY <1>1, <1>2, <2>1 DEF StepsOK, Tasks
<1>4. TypeInv
  <2>1. 0 \in 0..Full
    BY LedValues
  <2>2. FieldsOK
    BY <1>1, <2>1 DEF FieldsOK
  <2> QED
    BY <1>3, <2>2 DEF TypeInv
<1>5. \A t \in Writers : K(t) = {} /\ Formed(steps[t])
  BY <1>2, EmptyKind DEF K, Formed, Shapes, Tasks
<1>6. \A t \in Writers : WriterOK(t) /\ ~Holder(t)
  BY <1>5 DEF WriterOK, Holder, Detached, Blinking
<1>7. Quiet
  BY <1>1, <1>2 DEF Quiet, Idle, Tasks
<1>8. TriggerInv
  BY <1>1, <1>6, <1>7 DEF TriggerInv
<1>9. HalOK
  BY <1>1, LightsBound DEF HalOK
<1> QED
  BY <1>4, <1>8, <1>9 DEF LightsInv

\* The next file is written, by one of the stores.
LEMMA WriteIs ==
    ASSUME HalOK, Write
    PROVE  /\ writes # <<>> /\ Head(writes) \in WriteRec
           /\ writes' = Tail(writes) /\ Tail(writes) \in Seq(WriteRec)
           /\ UNCHANGED <<notification, battery, meddled, meddles>>
           /\ Idle(Hal) /\ Hal \in Writers
           /\ LET w == Head(writes)
              IN  \/ w.to = "trigger" /\ w.v \in {"none", "timer"} /\ StoreTrigger(Hal, w.v)
                  \/ w.to = "brightness" /\ w.v \in Nat /\ StoreBrightness(Hal, w.v)
                  \/ w.to \in {"on", "off"} /\ w.v \in Nat /\ StoreDelay(Hal, w.to, w.v)
<1>1. /\ writes # <<>> /\ Idle(Hal) /\ writes' = Tail(writes)
      /\ UNCHANGED <<notification, battery, meddled, meddles>>
  BY DEF Write
<1>2. writes \in Seq(WriteRec)
  BY DEF HalOK
<1>3. Head(writes) \in WriteRec /\ Tail(writes) \in Seq(WriteRec)
  BY <1>1, <1>2
<1> DEFINE w == Head(writes)
<1>4. \/ w.to = "trigger" /\ w.v \in {"none", "timer"}
      \/ w.to \in {"on", "off", "brightness"} /\ w.v \in Nat
  BY <1>3 DEF WriteRec
<1>5. (CASE w.to = "trigger" -> StoreTrigger(Hal, w.v)
          [] w.to = "brightness" -> StoreBrightness(Hal, w.v)
          [] OTHER -> StoreDelay(Hal, w.to, w.v))
  BY DEF Write
<1> HIDE DEF w
<1>6. \/ w.to = "trigger" /\ w.v \in {"none", "timer"} /\ StoreTrigger(Hal, w.v)
      \/ w.to = "brightness" /\ w.v \in Nat /\ StoreBrightness(Hal, w.v)
      \/ w.to \in {"on", "off"} /\ w.v \in Nat /\ StoreDelay(Hal, w.to, w.v)
  BY <1>4, <1>5
<1> QED
  BY <1>1, <1>3, <1>6, LightsWriters DEF w

\* Every step keeps the invariant.
LEMMA LightsNext ==
    ASSUME LightsInv, [Next]_allVars
    PROVE  LightsInv'
<1>1. TypeInv /\ TriggerInv /\ HalOK /\ Hal \in Writers /\ Shell \in Writers
  BY LightsWriters DEF LightsInv
<1>2. ASSUME NEW n \in States \cup {Dark}, NEW b \in States \cup {Dark}, SetLight(n, b)
      PROVE  LightsInv'
  <2>1. Prefer(n, b) \in States \cup {Dark}
    BY DEF Prefer
  <2>2. Writes(Prefer(n, b)) \in Seq(WriteRec)
    BY <2>1, KnownStates, WritesTyped
  <2>3. /\ notification' = n /\ battery' = b /\ writes' = Writes(Prefer(n, b))
        /\ meddled' = FALSE /\ meddles' = meddles /\ UNCHANGED vars
    BY <1>2 DEF SetLight
  <2>4. HalOK'
    BY <1>1, <2>2, <2>3 DEF HalOK
  <2>5. TypeInv' /\ TriggerInv'
    BY <1>1, <2>3 DEF vars, fields, TypeInv, FieldsOK, StepsOK, TriggerInv, WriterOK, Formed,
       K, Holder, Detached, Blinking, Quiet, Idle
  <2> QED
    BY <2>4, <2>5 DEF LightsInv
<1>3. CASE SetNotification
  <2>1. PICK s \in States : SetLight(s, battery)
    BY <1>3 DEF SetNotification
  <2> QED
    BY <1>1, <1>2, <2>1 DEF HalOK
<1>4. CASE SetBattery
  <2>1. PICK s \in Batteries : SetLight(notification, s)
    BY <1>4 DEF SetBattery
  <2>2. s \in States
    BY <2>1, LightsBatteries
  <2> QED
    BY <1>1, <1>2, <2>1, <2>2 DEF HalOK
<1>5. CASE Write
  <2>1. HalOK'
    BY <1>1, <1>5, WriteIs DEF HalOK
  <2>2. \/ \E v \in {"none", "timer"} : StoreTrigger(Hal, v)
        \/ \E v \in Nat : StoreBrightness(Hal, v)
        \/ \E attr \in {"on", "off"}, v \in Nat : StoreDelay(Hal, attr, v)
    BY <1>1, <1>5, WriteIs
  <2>3. TypeInv' /\ TriggerInv'
    BY <1>1, <2>2, StoreKeeps
  <2> QED
    BY <2>1, <2>3 DEF LightsInv
<1>6. ASSUME Meddle PROVE HalOK'
  BY <1>1, <1>6, LightsBound DEF Meddle, HalOK
<1>7. CASE ShellTrigger
  BY <1>1, <1>6, <1>7, StoreKeeps DEF ShellTrigger, LightsInv
<1>8. CASE ShellBrightness
  <2>1. 0 \in Nat /\ Full + 1 \in Nat
    BY LedValues
  <2> QED
    BY <1>1, <1>6, <1>8, <2>1, StoreKeeps DEF ShellBrightness, LightsInv
<1>9. CASE Sleep
  BY <1>1, <1>6, <1>9, PowerKeeps DEF Sleep, LightsInv
<1>10. CASE WakeUp
  <2>1. HalOK'
    BY <1>1, <1>10 DEF WakeUp, HalOK
  <2> QED
    BY <1>1, <1>10, <2>1, PowerKeeps DEF WakeUp, LightsInv
<1>11. CASE Blinks
  <2>1. HalOK'
    BY <1>1, <1>11 DEF Blinks, hal, HalOK
  <2> QED
    BY <1>1, <1>11, <2>1, FireKeeps DEF Blinks, LightsInv
<1>12. ASSUME NEW t \in Tasks, Continue(t) PROVE LightsInv'
  <2>1. HalOK'
    BY <1>1, <1>12 DEF Continue, HalOK
  <2>2. Step(t)
    BY <1>12 DEF Continue
  <2>3. TypeInv' /\ TriggerInv'
    BY <1>1, <2>2, WriterSteps, OtherSteps DEF Tasks
  <2> QED
    BY <2>1, <2>3 DEF LightsInv
<1>13. CASE UNCHANGED allVars
  <2>1. UNCHANGED vars /\ UNCHANGED hal
    BY <1>13 DEF allVars
  <2>2. TypeInv' /\ TriggerInv'
    BY <1>1, <2>1 DEF vars, fields, TypeInv, FieldsOK, StepsOK, TriggerInv, WriterOK, Formed,
       K, Holder, Detached, Blinking, Quiet, Idle
  <2>3. HalOK'
    BY <1>1, <2>1 DEF hal, HalOK
  <2> QED
    BY <2>2, <2>3 DEF LightsInv
<1> QED
  BY <1>3, <1>4, <1>5, <1>7, <1>8, <1>9, <1>10, <1>11, <1>12, <1>13 DEF Next

\* The inductive invariant of the LED: what is left of every store of an attribute
\* file goes with the lock, the files of the trigger, the timer and the delays.
THEOREM TriggerInvAlways == Spec => []LightsInv
<1>1. LightsInit => LightsInv
  BY LightsInitial
<1>2. LightsInv /\ [Next]_allVars => LightsInv'
  BY LightsNext
<1> QED
  BY <1>1, <1>2, PTL DEF Spec

\* Every field of the LED and of the HAL keeps its type; the delays are any numbers,
\* as delay_on and delay_off are written by anyone.
THEOREM LightsTypeOK == Spec => []TypeOK
<1>1. LightsInv => TypeOK
  <2> SUFFICES ASSUME LightsInv PROVE TypeOK
    OBVIOUS
  <2>1. ASSUME NEW t \in Tasks, NEW i \in DOMAIN steps[t]
        PROVE  steps[t][i].do \in Kinds
    <3>1. steps[t] \in Seq(AnyStep)
      BY DEF LightsInv, TypeInv, StepsOK
    <3>2. steps[t][i] \in AnyStep
      BY <3>1
    <3>3. \A d \in AnyStep : d.do \in Kinds
      BY DEF AnyStep, WriterStep, TimerStep, PowerStep, LightStep, Kinds
    <3> QED
      BY <3>2, <3>3
  <2> QED
    BY <2>1 DEF LightsInv, TypeInv, FieldsOK, HalOK, TypeOK
<1> QED
  BY <1>1, TriggerInvAlways, PTL

\* Without a trigger the LED does not blink (led-class.c:109): the timer is off and
\* the delays are zero, however stores, the timer and the power task interleave.
THEOREM QuietAlways == Spec => []QuietWithoutTrigger
<1>1. LightsInv => QuietWithoutTrigger
  BY DEF LightsInv, TriggerInv, Quiet, QuietWithoutTrigger
<1> QED
  BY <1>1, TriggerInvAlways, PTL

-------------------------------------------------------------------------------
(* What the HAL writes comes through *)

Els(s) == {s[i] : i \in DOMAIN s}
Todo == Els(steps[Hal])
Has(k) == \E d \in Todo : d.do = k
\* What the HAL sets the LED to, and whether it is to flash.
Target == Prefer(notification, battery)
Flashes == Target.flash /\ Target.level # 0

\* The HAL has chosen the trigger of its last call and nobody else has written.
HalAlone == ~meddled /\ Idle(Shell) /\ writes # Writes(Target)

\* What can be left of the four files of a call.
Suffixes(s) ==
    LET b == [to |-> "on", v |-> s.on]
        c == [to |-> "off", v |-> s.off]
        d == [to |-> "brightness", v |-> s.level]
    IN  {Writes(s), <<d>>, <<>>} \cup (IF s.flash THEN {<<b, c, d>>, <<c, d>>} ELSE {})
SuffixInv == writes \in Suffixes(Target)

\* Before the delays of led_blink_set are those of the LED.
Busy == "delete" \in K(Hal) \/ "blink" \in K(Hal) \/ "stop" \in K(Hal) \/ "delays" \in K(Hal)

\* The last assignment of a store of a delay assigns what is already there.
Agrees ==
    /\ \A a, d \in Todo : a.do = "assign" /\ d.do = "delays"
                          => a.v = IF a.attr = "on" THEN d.on ELSE d.off
    /\ ~Busy => \A a \in Todo : a.do = "assign"
                                => a.v = IF a.attr = "on" THEN delayOn ELSE delayOff
    /\ "assign" \in K(Hal) /\ ("delete" \in K(Hal) \/ "blink" \in K(Hal))
       => \A d \in Todo : d.do \notin Free
\* The timer of a LED with two delays goes on.
Ticks ==
    ~Busy /\ trigger = "timer" /\ (data \/ "data" \in K(Hal)) /\ delayOn # 0 /\ delayOff # 0
    => armed \/ lost \/ \E d \in Els(steps[Timer]) : d.do = "rearm"

\* The delays that the files written so far come to.
Goal ==
    LET none == Target.on = 0 /\ Target.off = 0
    IN  IF Len(writes) = 3 THEN [on |-> Default, off |-> Default]
        ELSE IF Len(writes) = 2 THEN [on |-> Target.on, off |-> Default]
        ELSE [on |-> IF none THEN Default ELSE Target.on,
              off |-> IF none THEN Default ELSE Target.off]
Meets(p) == p.on = Goal.on /\ p.off = Goal.off
Asks ==
    /\ \A d \in Todo : d.do = "delays" => Meets(d)
    /\ \A d \in Todo : d.do = "blink" => Meets(Asked(d.attr, d.v))
    /\ ~Busy => delayOn = Goal.on /\ delayOff = Goal.off

BlinkInv ==
    HalAlone /\ "attach" \notin K(Hal) => Agrees /\ Ticks /\ (Flashes /\ files => Asks)

\* The trigger is the one that the HAL wants, or will be.
Want == IF Flashes THEN "timer" ELSE "none"
ChosenInv ==
    HalAlone /\ (Flashes \/ ~Target.flash \/ writes = <<>>)
    => /\ \A d \in Todo : d.do = "attach" => d.name = Want
       /\ trigger = Want \/ "attach" \in K(Hal)
       /\ Flashes /\ Len(writes) <= 2 => "attach" \notin K(Hal)

\* The last file of a steady light is written: what is left drives the LED to its level.
SteadyInv ==
    HalAlone /\ writes = <<>> /\ ~Flashes
    => /\ Awake
       /\ \A d \in Todo : d.do \in {"level", "drive", "gpio"} => d.v = Target.level
       /\ "attach" \in K(Hal) => Target.level = 0 /\ steps[Hal][Len(steps[Hal])].do = "level"
       /\ \/ Has("level") \/ Has("drive")
          \/ brightness = Target.level /\ (Has("gpio") \/ lit = (Target.level # 0))

ShownInv == SuffixInv /\ BlinkInv /\ ChosenInv /\ SteadyInv

LEMMA ElsCat ==
    ASSUME NEW q \in Seq(AnyStep), NEW r \in Seq(AnyStep)
    PROVE  Els(q \o r) = Els(q) \cup Els(r)
<1> DEFINE s == q \o r
<1>1. /\ s \in Seq(AnyStep) /\ Len(s) = Len(q) + Len(r) /\ Len(q) \in Nat /\ Len(r) \in Nat
      /\ DOMAIN s = 1..Len(s) /\ DOMAIN q = 1..Len(q) /\ DOMAIN r = 1..Len(r)
  OBVIOUS
<1>2. /\ \A i \in 1..Len(q) : s[i] = q[i]
      /\ \A i \in 1..Len(r) : s[i + Len(q)] = r[i]
  OBVIOUS
<1> HIDE DEF s
<1>3. ASSUME NEW d \in Els(s) PROVE d \in Els(q) \cup Els(r)
  <2>1. PICK i \in 1..Len(s) : d = s[i]
    BY <1>1 DEF Els
  <2>2. CASE i <= Len(q)
    BY <2>1, <2>2, <1>1, <1>2, SMTT(60) DEF Els
  <2>3. CASE i > Len(q)
    <3>1. i - Len(q) \in 1..Len(r) /\ i = (i - Len(q)) + Len(q)
      BY <2>1, <2>3, <1>1
    <3> QED
      BY <3>1, <2>1, <1>1, <1>2 DEF Els
  <2> QED
    BY <1>1, <2>1, <2>2, <2>3
<1>4. ASSUME NEW d \in Els(q) PROVE d \in Els(s)
  <2>1. PICK i \in 1..Len(q) : d = q[i]
    BY <1>1 DEF Els
  <2> QED
    BY <2>1, <1>1, <1>2 DEF Els
<1>5. ASSUME NEW d \in Els(r) PROVE d \in Els(s)
  <2>1. PICK i \in 1..Len(r) : d = r[i]
    BY <1>1 DEF Els
  <2>2. i + Len(q) \in 1..Len(s)
    BY <1>1
  <2> QED
    BY <2>1, <2>2, <1>1, <1>2 DEF Els
<1> QED
  BY <1>3, <1>4, <1>5 DEF s

LEMMA ElsSmall ==
    /\ Els(<<>>) = {}
    /\ \A a : Els(<<a>>) = {a}
    /\ \A a, b : Els(<<a, b>>) = {a, b}
    /\ \A a, b, c : Els(<<a, b, c>>) = {a, b, c}
BY DEF Els

LEMMA ElsKind ==
    ASSUME NEW s
    PROVE  Kind(s) = {d.do : d \in Els(s)} \ Free
BY DEF Els, Kind

\* The last element.
LEMMA LastCat ==
    ASSUME NEW q \in Seq(AnyStep), NEW r \in Seq(AnyStep), r # <<>>
    PROVE  (q \o r)[Len(q \o r)] = r[Len(r)] /\ r[Len(r)] \in Els(r)
<1>1. Len(q \o r) = Len(q) + Len(r) /\ Len(r) \in Nat /\ Len(r) # 0 /\ Len(q) \in Nat
  OBVIOUS
<1>2. r[Len(r)] \in Els(r)
  BY <1>1 DEF Els
<1> QED
  BY <1>1, <1>2

\* The HAL does its first step and has new ones to do before the others.
LEMMA HalThen ==
    ASSUME TypeInv, TriggerInv, NEW k, Does(Hal, k), NEW new \in Seq(WriterStep), Then(Hal, new)
    PROVE  LET d == Head(steps[Hal])
               r == Tail(steps[Hal])
           IN  /\ d \in AnyStep /\ d.do = k /\ r \in Seq(AnyStep)
               /\ Todo = {d} \cup Els(r) /\ Todo' = Els(new) \cup Els(r)
               /\ steps'[Hal] = new \o r
               /\ \A u \in {Shell, Timer, Power} : steps'[u] = steps[u]
               /\ K(Hal) = ({k} \ Free) \cup Kind(r) /\ K(Hal)' = Kind(new) \cup Kind(r)
               /\ k \notin Free => \A j \in Kind(r) : Rank(k) < Rank(j)
               /\ K(Hal) \in Shapes
               /\ r # <<>> => /\ steps[Hal][Len(steps[Hal])] = r[Len(r)]
                              /\ steps'[Hal][Len(steps'[Hal])] = r[Len(r)]
                              /\ r[Len(r)] \in Els(r)
               /\ r = <<>> => Kind(r) = {}
<1> DEFINE d == Head(steps[Hal])  r == Tail(steps[Hal])
<1>1. Hal \in Writers /\ Shell \in Writers \ {Hal} /\ Timer \in Tasks \ {Hal}
      /\ Power \in Tasks \ {Hal} /\ Shell \in Tasks \ {Hal}
  BY LightsWriters, LedTasks DEF Tasks
<1>2. Formed(steps[Hal])
  BY <1>1 DEF TriggerInv, WriterOK
<1>3. /\ d \in AnyStep /\ d.do = k /\ r \in Seq(AnyStep)
      /\ steps'[Hal] = new \o r /\ \A u \in Tasks \ {Hal} : steps'[u] = steps[u]
      /\ Ordered(r) /\ AssignLast(r)
      /\ k \in Free => Kind(r) = K(Hal)
      /\ k \notin Free => K(Hal) = {k} \cup Kind(r) /\ \A j \in Kind(r) : Rank(k) < Rank(j)
  BY <1>1, <1>2, ThenWriter DEF TypeInv
<1>4. steps[Hal] = <<d>> \o r /\ <<d>> \in Seq(AnyStep) /\ new \in Seq(AnyStep)
  <2>1. steps[Hal] \in Seq(WriterStep) /\ steps[Hal] # <<>>
    BY <1>1 DEF TypeInv, StepsOK, Does, Idle
  <2>2. new \in Seq(AnyStep)
    BY StepKinds
  <2> QED
    BY <1>3, <2>1, <2>2, HeadTail
<1> HIDE DEF d, r
<1>5. Todo = {d} \cup Els(r) /\ Todo' = Els(new) \cup Els(r)
  <2>1. Els(steps[Hal]) = {d} \cup Els(r)
    <3>1. Els(<<d>> \o r) = Els(<<d>>) \cup Els(r) /\ Els(<<d>>) = {d}
      BY <1>3, <1>4, ElsCat, ElsSmall
    <3> QED
      BY <3>1, <1>4
  <2>2. Els(steps'[Hal]) = Els(new) \cup Els(r)
    BY <1>3, <1>4, ElsCat
  <2> QED
    BY <2>1, <2>2 DEF Todo
<1>6. K(Hal) = ({k} \ Free) \cup Kind(r)
  BY <1>3
<1>7. K(Hal)' = Kind(new) \cup Kind(r)
  <2>1. K(Hal)' = {e.do : e \in Els(new) \cup Els(r)} \ Free
    <3>1. Kind(steps'[Hal]) = {e.do : e \in Els(steps'[Hal])} \ Free
      BY ElsKind
    <3> QED
      BY <3>1, <1>5 DEF K, Todo
  <2>2. Kind(new) = {e.do : e \in Els(new)} \ Free /\ Kind(r) = {e.do : e \in Els(r)} \ Free
    BY ElsKind
  <2> QED
    BY <2>1, <2>2
<1>8. K(Hal) \in Shapes
  BY <1>2 DEF Formed, K
<1>9. r # <<>> => /\ steps[Hal][Len(steps[Hal])] = r[Len(r)]
                  /\ steps'[Hal][Len(steps'[Hal])] = r[Len(r)]
                  /\ r[Len(r)] \in Els(r)
  BY <1>3, <1>4, LastCat
<1>10. r = <<>> => Kind(r) = {}
  BY EmptyKind
<1> QED
  BY <1>1, <1>3, <1>5, <1>6, <1>7, <1>8, <1>9, <1>10 DEF d, r

\* The HAL goes on with what it was called for.
LEMMA Frame ==
    ASSUME UNCHANGED <<notification, battery, writes, meddled>>, steps'[Shell] = steps[Shell]
    PROVE  /\ Target' = Target /\ (Flashes' <=> Flashes) /\ Goal' = Goal /\ Want' = Want
           /\ (HalAlone' <=> HalAlone) /\ (SuffixInv' <=> SuffixInv)
<1>1. Target' = Target
  BY DEF Target, Prefer
<1>2. Goal' = Goal
  BY <1>1 DEF Goal
<1>3. Flashes' <=> Flashes
  BY <1>1 DEF Flashes
<1>4. Want' = Want
  BY <1>3 DEF Want
<1>5. HalAlone' <=> HalAlone
  BY <1>1 DEF HalAlone, Idle
<1>6. SuffixInv' <=> SuffixInv
  BY <1>1 DEF SuffixInv
<1> QED
  BY <1>1, <1>2, <1>3, <1>4, <1>5, <1>6

\* While the HAL is alone with a steady light, what it does has no delays.
LEMMA SteadyDoesNotBlink ==
    ASSUME TypeInv, TriggerInv, ShownInv, HalAlone, writes = <<>>, ~Flashes
    PROVE  K(Hal) \in {{}, {"unlock"}, {"data", "unlock"},
                       {"lock", "detach", "attach", "unlock"}, {"detach", "attach", "unlock"},
                       {"remove", "stop", "attach", "unlock"}, {"stop", "attach", "unlock"},
                       {"attach", "unlock"}}
           /\ (trigger = "none" \/ "attach" \in K(Hal))
<1>1. WriterOK(Hal)
  BY LightsWriters DEF TriggerInv
<1>2. trigger = "none" \/ "attach" \in K(Hal)
  BY DEF ShownInv, ChosenInv, Want
<1>3. K(Hal) \in Shapes
  BY <1>1 DEF WriterOK, Formed, K
<1>4. Blinking(Hal) => trigger = "timer"
  BY <1>1 DEF WriterOK
<1>5. CASE "attach" \in K(Hal)
  BY <1>5, <1>2, <1>3 DEF Shapes
<1>6. CASE ~Blinking(Hal)
  BY <1>6, <1>2, <1>3 DEF Shapes, Blinking
<1> QED
  BY <1>2, <1>4, <1>5, <1>6

\* A step of the HAL that chooses no trigger.
LEMMA ChosenKept ==
    ASSUME ChosenInv, UNCHANGED <<notification, battery, writes, meddled, trigger>>,
           steps'[Shell] = steps[Shell],
           \A d \in Todo' : d.do = "attach" => d \in Todo,
           "attach" \in K(Hal)' <=> "attach" \in K(Hal)
    PROVE  ChosenInv'
<1>1. Target' = Target /\ (Flashes' <=> Flashes) /\ Want' = Want /\ (HalAlone' <=> HalAlone)
  BY Frame
<1> QED
  BY <1>1 DEF ChosenInv

\* A step of the HAL, or of another task, that does not touch the light.
LEMMA SteadyKept ==
    ASSUME SteadyInv,
           UNCHANGED <<notification, battery, writes, meddled, suspended, brightness, lit>>,
           steps'[Shell] = steps[Shell], Idle(Power) => Idle(Power)',
           \A d \in Todo' : d.do \in {"level", "drive", "gpio"}
                            => d \in Todo \/ (HalAlone /\ writes = <<>> /\ ~Flashes
                                              => d.v = Target.level),
           \A d \in Todo : d.do \in {"level", "drive", "gpio"} => d \in Todo',
           "attach" \in K(Hal)' => /\ "attach" \in K(Hal)
                                   /\ steps'[Hal][Len(steps'[Hal])] = steps[Hal][Len(steps[Hal])]
    PROVE  SteadyInv'
<1>1. Target' = Target /\ (Flashes' <=> Flashes) /\ (HalAlone' <=> HalAlone)
  BY Frame
<1> SUFFICES ASSUME HalAlone, writes = <<>>, ~Flashes
             PROVE  /\ Awake'
                    /\ \A d \in Todo' : d.do \in {"level", "drive", "gpio"} => d.v = Target.level
                    /\ "attach" \in K(Hal)' => Target.level = 0
                                               /\ steps'[Hal][Len(steps'[Hal])].do = "level"
                    /\ \/ Has("level")' \/ Has("drive")'
                       \/ brightness = Target.level
                          /\ (Has("gpio")' \/ lit = (Target.level # 0))
  BY <1>1 DEF SteadyInv
<1>2. /\ Awake
      /\ \A d \in Todo : d.do \in {"level", "drive", "gpio"} => d.v = Target.level
      /\ "attach" \in K(Hal) => Target.level = 0 /\ steps[Hal][Len(steps[Hal])].do = "level"
      /\ \/ Has("level") \/ Has("drive")
         \/ brightness = Target.level /\ (Has("gpio") \/ lit = (Target.level # 0))
  BY DEF SteadyInv
<1>3. Awake'
  BY <1>2 DEF Awake
<1>4. \A d \in Todo' : d.do \in {"level", "drive", "gpio"} => d.v = Target.level
  BY <1>2
<1>5. "attach" \in K(Hal)' => Target.level = 0 /\ steps'[Hal][Len(steps'[Hal])].do = "level"
  BY <1>2
<1>6. (Has("level") => Has("level")') /\ (Has("drive") => Has("drive")')
      /\ (Has("gpio") => Has("gpio")')
  BY DEF Has
<1> QED
  BY <1>2, <1>3, <1>4, <1>5, <1>6

-------------------------------------------------------------------------------
(* The steps of the HAL *)

\* A step that drives the LED is none of the trigger's.
LEMMA BlinkFree ==
    ASSUME TypeInv, TriggerInv, ShownInv, NEW k \in Free, Does(Hal, k),
           NEW new \in Seq(WriterStep), Then(Hal, new),
           new = <<>> \/ \E d \in WriterStep : new = <<d>> /\ d.do \in Free,
           UNCHANGED <<notification, battery, writes, meddled>>,
           UNCHANGED <<delayOn, delayOff, trigger, data, armed, files, lost>>
    PROVE  /\ SuffixInv' /\ BlinkInv' /\ ChosenInv'
           /\ K(Hal)' = K(Hal) /\ Todo' \ Todo \subseteq Els(new)
<1> DEFINE e == Head(steps[Hal])  r == Tail(steps[Hal])
<1>1. /\ e.do = k /\ Todo = {e} \cup Els(r) /\ Todo' = Els(new) \cup Els(r)
      /\ \A u \in {Shell, Timer, Power} : steps'[u] = steps[u]
      /\ K(Hal) = ({k} \ Free) \cup Kind(r) /\ K(Hal)' = Kind(new) \cup Kind(r)
  BY HalThen
<1>2. (\A d \in Els(new) : d.do \in Free) /\ Kind(new) = {}
  <2>1. \A d \in Els(new) : d.do \in Free
    <3>1. CASE new = <<>>
      BY <3>1, ElsSmall
    <3>2. CASE \E d \in WriterStep : new = <<d>> /\ d.do \in Free
      BY <3>2, ElsSmall
    <3> QED
      BY <3>1, <3>2
  <2> QED
    BY <2>1, ElsKind
<1> HIDE DEF e, r
<1>3. /\ \A d \in Todo : d.do \notin Free => d \in Todo'
      /\ \A d \in Todo' : d.do \notin Free => d \in Todo
      /\ K(Hal)' = K(Hal) /\ e \in Todo /\ e.do \in Free
  BY <1>1, <1>2
<1>4. /\ Target' = Target /\ (Flashes' <=> Flashes) /\ Goal' = Goal /\ (HalAlone' <=> HalAlone)
      /\ SuffixInv'
  BY <1>1, Frame DEF ShownInv
<1>5. Busy' <=> Busy
  BY <1>3 DEF Busy
<1>6. Agrees => Agrees'
  <2> SUFFICES ASSUME Agrees PROVE Agrees'
    OBVIOUS
  <2>1. "assign" \notin Free /\ "delays" \notin Free
    BY DEF Free
  <2>2. ~("assign" \in K(Hal) /\ ("delete" \in K(Hal) \/ "blink" \in K(Hal)))
    BY <1>3 DEF Agrees
  <2>3. \A a, d \in Todo' : a.do = "assign" /\ d.do = "delays"
                            => a.v = IF a.attr = "on" THEN d.on ELSE d.off
    BY <1>3, <2>1 DEF Agrees
  <2>4. ~Busy => \A a \in Todo' : a.do = "assign"
                                  => a.v = IF a.attr = "on" THEN delayOn ELSE delayOff
    BY <1>3, <2>1 DEF Agrees
  <2> QED
    BY <1>3, <1>5, <2>2, <2>3, <2>4 DEF Agrees
<1>7. Ticks => Ticks'
  BY <1>1, <1>3, <1>5 DEF Ticks
<1>8. Asks => Asks'
  <2> SUFFICES ASSUME Asks PROVE Asks'
    OBVIOUS
  <2>1. "blink" \notin Free /\ "delays" \notin Free
    BY DEF Free
  <2>2. \A d \in Todo' : d.do = "delays" => Meets(d)'
    BY <1>3, <1>4, <2>1 DEF Asks, Meets
  <2>3. \A d \in Todo' : d.do = "blink" => Meets(Asked(d.attr, d.v))'
    BY <1>3, <1>4, <2>1 DEF Asks, Meets, Asked
  <2> QED
    BY <1>4, <1>5, <2>2, <2>3 DEF Asks
<1>9. BlinkInv'
  BY <1>3, <1>4, <1>6, <1>7, <1>8 DEF ShownInv, BlinkInv
<1>10. ChosenInv'
  <2>1. "attach" \notin Free
    BY DEF Free
  <2>2. \A d \in Todo' : d.do = "attach" => d \in Todo
    BY <1>3, <2>1
  <2> QED
    BY <1>1, <1>3, <2>2, ChosenKept DEF ShownInv
<1> QED
  BY <1>1, <1>3, <1>4, <1>9, <1>10

\* The store of the level, when the last file is written.
LEMMA LevelShown ==
    ASSUME TypeInv, TriggerInv, HalOK, ShownInv, Level(Hal),
           UNCHANGED <<notification, battery, writes, meddled>>
    PROVE  ShownInv'
<1> DEFINE v == Head(steps[Hal]).v
           capped == IF v > Full THEN Full ELSE v
           d == [do |-> "drive", v |-> capped]
           new == IF suspended THEN <<>> ELSE <<d>>
           r == Tail(steps[Hal])
<1>1. Does(Hal, "level") /\ Then(Hal, new) /\ brightness' = capped
      /\ UNCHANGED <<blinkBrightness, delayOn, delayOff, trigger, data, suspended,
                     armed, files, lock, lit, lost>>
  BY DEF Level
<1>2. Hal \in Tasks /\ Hal \in Writers
  BY LightsWriters DEF Tasks
<1>3. v \in Nat
  BY <1>1, <1>2, HeadOf, StepFields DEF TypeInv
<1>4. capped \in 0..Full
  BY <1>3, LedValues
<1>5. d \in WriterStep /\ d.do = "drive" /\ d.v = capped /\ "level" \in Free /\ d.do \in Free
  BY <1>4 DEF WriterStep, LightStep, Free
<1> HIDE DEF d
<1>6. new \in Seq(WriterStep) /\ (new = <<>> \/ \E x \in WriterStep : new = <<x>> /\ x.do \in Free)
  BY <1>5
<1>7. Els(new) = IF suspended THEN {} ELSE {d}
  BY ElsSmall
<1> HIDE DEF new
<1>8. /\ SuffixInv' /\ BlinkInv' /\ ChosenInv' /\ K(Hal)' = K(Hal)
      /\ Todo' \ Todo \subseteq Els(new)
  BY <1>1, <1>5, <1>6, BlinkFree
<1>9. /\ Head(steps[Hal]) \in Todo /\ Head(steps[Hal]).do = "level"
      /\ Todo' = Els(new) \cup Els(r)
      /\ \A u \in {Shell, Timer, Power} : steps'[u] = steps[u]
      /\ K(Hal) = ({"level"} \ Free) \cup Kind(r)
      /\ r # <<>> => /\ steps[Hal][Len(steps[Hal])] = r[Len(r)]
                     /\ steps'[Hal][Len(steps'[Hal])] = r[Len(r)]
      /\ r = <<>> => Kind(r) = {}
  BY <1>1, <1>6, HalThen
<1>10. SteadyInv'
  <2>1. Target' = Target /\ (Flashes' <=> Flashes) /\ (HalAlone' <=> HalAlone)
    BY <1>9, Frame
  <2> SUFFICES ASSUME HalAlone, writes = <<>>, ~Flashes
               PROVE  /\ Awake'
                      /\ \A x \in Todo' : x.do \in {"level", "drive", "gpio"} => x.v = Target.level
                      /\ "attach" \in K(Hal)' => Target.level = 0
                                                 /\ steps'[Hal][Len(steps'[Hal])].do = "level"
                      /\ Has("drive")'
    BY <2>1 DEF SteadyInv
  <2>2. /\ Awake
        /\ \A x \in Todo : x.do \in {"level", "drive", "gpio"} => x.v = Target.level
        /\ "attach" \in K(Hal) => Target.level = 0 /\ steps[Hal][Len(steps[Hal])].do = "level"
    BY DEF ShownInv, SteadyInv
  <2>3. v = Target.level /\ Target.level \in 0..Full
    <3>1. v = Target.level
      BY <2>2, <1>9
    <3>2. Target \in States \cup {Dark}
      BY DEF Target, Prefer, HalOK
    <3> QED
      BY <3>1, <3>2, KnownStates DEF Known
  <2>4. capped = Target.level /\ ~suspended
    BY <2>2, <2>3, <1>3, LedValues DEF Awake
  <2>5. Awake'
    BY <2>2, <1>1, <1>9 DEF Awake, Idle
  <2>6. \A x \in Todo' : x.do \in {"level", "drive", "gpio"} => x.v = Target.level
    <3>1. \A x \in Todo' : x \in Todo \/ x = d
      BY <1>7, <1>8, <2>4
    <3> QED
      BY <3>1, <2>2, <2>4, <1>5
  <2>7. Has("drive")'
    BY <1>5, <1>7, <1>9, <2>4 DEF Has
  <2>8. "attach" \in K(Hal)' => Target.level = 0 /\ steps'[Hal][Len(steps'[Hal])].do = "level"
    BY <1>8, <1>9, <2>2, <1>5
  <2> QED
    BY <2>5, <2>6, <2>7, <2>8
<1> QED
  BY <1>8, <1>10 DEF ShownInv

LEMMA DriveShown ==
    ASSUME TypeInv, TriggerInv, ShownInv, Drive(Hal),
           UNCHANGED <<notification, battery, writes, meddled>>
    PROVE  ShownInv'
<1> DEFINE v == Head(steps[Hal]).v
           d == [do |-> "gpio", v |-> v]
           new == <<d>>
           r == Tail(steps[Hal])
<1>1. Does(Hal, "drive") /\ Then(Hal, new) /\ brightness' = v
      /\ UNCHANGED <<blinkBrightness, delayOn, delayOff, trigger, data, suspended,
                     armed, files, lock, lit, lost>>
  BY DEF Drive
<1>2. Hal \in Tasks /\ Hal \in Writers
  BY LightsWriters DEF Tasks
<1>3. v \in 0..Full
  BY <1>1, <1>2, HeadOf, StepFields DEF TypeInv
<1>4. d \in WriterStep /\ d.do = "gpio" /\ d.v = v /\ "drive" \in Free /\ d.do \in Free
  BY <1>3 DEF WriterStep, LightStep, Free
<1> HIDE DEF d
<1>5. new \in Seq(WriterStep) /\ \E x \in WriterStep : new = <<x>> /\ x.do \in Free
  BY <1>4
<1>6. Els(new) = {d}
  BY ElsSmall
<1> HIDE DEF new
<1>7. /\ SuffixInv' /\ BlinkInv' /\ ChosenInv' /\ K(Hal)' = K(Hal)
      /\ Todo' \ Todo \subseteq Els(new)
  BY <1>1, <1>4, <1>5, BlinkFree
<1>8. /\ Head(steps[Hal]) \in Todo /\ Head(steps[Hal]).do = "drive"
      /\ Todo' = Els(new) \cup Els(r)
      /\ \A u \in {Shell, Timer, Power} : steps'[u] = steps[u]
      /\ K(Hal) = ({"drive"} \ Free) \cup Kind(r)
      /\ r # <<>> => /\ steps[Hal][Len(steps[Hal])] = r[Len(r)]
                     /\ steps'[Hal][Len(steps'[Hal])] = r[Len(r)]
      /\ r = <<>> => Kind(r) = {}
  BY <1>1, <1>5, HalThen
<1>9. SteadyInv'
  <2>1. Target' = Target /\ (Flashes' <=> Flashes) /\ (HalAlone' <=> HalAlone)
    BY <1>8, Frame
  <2> SUFFICES ASSUME HalAlone, writes = <<>>, ~Flashes
               PROVE  /\ Awake'
                      /\ \A x \in Todo' : x.do \in {"level", "drive", "gpio"} => x.v = Target.level
                      /\ "attach" \in K(Hal)' => Target.level = 0
                                                 /\ steps'[Hal][Len(steps'[Hal])].do = "level"
                      /\ brightness' = Target.level /\ Has("gpio")'
    BY <2>1 DEF SteadyInv
  <2>2. /\ Awake
        /\ \A x \in Todo : x.do \in {"level", "drive", "gpio"} => x.v = Target.level
        /\ "attach" \in K(Hal) => Target.level = 0 /\ steps[Hal][Len(steps[Hal])].do = "level"
    BY DEF ShownInv, SteadyInv
  <2>3. v = Target.level
    BY <2>2, <1>8
  <2>4. Awake'
    BY <2>2, <1>1, <1>8 DEF Awake, Idle
  <2>5. \A x \in Todo' : x.do \in {"level", "drive", "gpio"} => x.v = Target.level
    <3>1. \A x \in Todo' : x \in Todo \/ x = d
      BY <1>6, <1>7
    <3> QED
      BY <3>1, <2>2, <2>3, <1>4
  <2>6. Has("gpio")'
    BY <1>4, <1>6, <1>8 DEF Has
  <2>7. "attach" \in K(Hal)' => Target.level = 0 /\ steps'[Hal][Len(steps'[Hal])].do = "level"
    BY <1>7, <1>8, <2>2, <1>4
  <2> QED
    BY <1>1, <2>3, <2>4, <2>5, <2>6, <2>7
<1> QED
  BY <1>7, <1>9 DEF ShownInv

LEMMA GpioShown ==
    ASSUME TypeInv, TriggerInv, ShownInv, Gpio(Hal),
           UNCHANGED <<notification, battery, writes, meddled>>
    PROVE  ShownInv'
<1> DEFINE v == Head(steps[Hal]).v
           r == Tail(steps[Hal])
<1>1. Does(Hal, "gpio") /\ Then(Hal, <<>>) /\ lit' = (v # 0)
      /\ UNCHANGED <<brightness, blinkBrightness, delayOn, delayOff, trigger, data, suspended,
                     armed, files, lock, lost>>
  BY DEF Gpio, fields
<1>2. <<>> \in Seq(WriterStep) /\ "gpio" \in Free /\ Els(<<>>) = {}
  <2>1. <<>> \in Seq(WriterStep)
    OBVIOUS
  <2> QED
    BY <2>1, ElsSmall DEF Free
<1>3. /\ SuffixInv' /\ BlinkInv' /\ ChosenInv' /\ K(Hal)' = K(Hal) /\ Todo' \subseteq Todo
  BY <1>1, <1>2, BlinkFree
<1>4. /\ Head(steps[Hal]) \in Todo /\ Head(steps[Hal]).do = "gpio"
      /\ Todo = {Head(steps[Hal])} \cup Todo'
      /\ \A u \in {Shell, Timer, Power} : steps'[u] = steps[u]
      /\ K(Hal) = ({"gpio"} \ Free) \cup Kind(r)
      /\ r # <<>> => /\ steps[Hal][Len(steps[Hal])] = r[Len(r)]
                     /\ steps'[Hal][Len(steps'[Hal])] = r[Len(r)]
      /\ r = <<>> => Kind(r) = {}
  BY <1>1, <1>2, HalThen
<1>5. SteadyInv'
  <2>1. Target' = Target /\ (Flashes' <=> Flashes) /\ (HalAlone' <=> HalAlone)
    BY <1>4, Frame
  <2> SUFFICES ASSUME HalAlone, writes = <<>>, ~Flashes
               PROVE  /\ Awake'
                      /\ \A x \in Todo' : x.do \in {"level", "drive", "gpio"} => x.v = Target.level
                      /\ "attach" \in K(Hal)' => Target.level = 0
                                                 /\ steps'[Hal][Len(steps'[Hal])].do = "level"
                      /\ \/ Has("level")' \/ Has("drive")'
                         \/ brightness' = Target.level /\ lit' = (Target.level # 0)
    BY <2>1 DEF SteadyInv
  <2>2. /\ Awake
        /\ \A x \in Todo : x.do \in {"level", "drive", "gpio"} => x.v = Target.level
        /\ "attach" \in K(Hal) => Target.level = 0 /\ steps[Hal][Len(steps[Hal])].do = "level"
        /\ Has("level") \/ Has("drive") \/ brightness = Target.level
    BY DEF ShownInv, SteadyInv
  <2>3. v = Target.level
    BY <2>2, <1>4
  <2>4. Awake'
    BY <2>2, <1>1, <1>4 DEF Awake, Idle
  <2>5. (Has("level") => Has("level")') /\ (Has("drive") => Has("drive")')
    BY <1>4 DEF Has
  <2>6. "attach" \in K(Hal)' => Target.level = 0 /\ steps'[Hal][Len(steps'[Hal])].do = "level"
    BY <1>2, <1>3, <1>4, <2>2
  <2> QED
    BY <1>1, <1>3, <2>2, <2>3, <2>4, <2>5, <2>6
<1> QED
  BY <1>3, <1>5 DEF ShownInv

\* A step of the trigger's or of the delays' that has no other in its place.
LEMMA HalDrops ==
    ASSUME TypeInv, TriggerInv, ShownInv, NEW k, k \notin Free, k # "attach", Does(Hal, k),
           Then(Hal, <<>>),
           UNCHANGED <<notification, battery, writes, meddled>>,
           UNCHANGED <<trigger, brightness, lit, suspended>>
    PROVE  /\ Todo = {Head(steps[Hal])} \cup Todo' /\ Head(steps[Hal]).do = k
           /\ K(Hal) = {k} \cup K(Hal)' /\ (\A j \in K(Hal)' : Rank(k) < Rank(j))
           /\ {k} \cup K(Hal)' \in Shapes
           /\ \A d \in Todo' : d.do \in K(Hal)' \/ d.do \in Free
           /\ steps'[Timer] = steps[Timer]
           /\ (HalAlone' <=> HalAlone) /\ Goal' = Goal /\ (Flashes' <=> Flashes)
           /\ SuffixInv' /\ ChosenInv' /\ SteadyInv'
<1> DEFINE e == Head(steps[Hal])  r == Tail(steps[Hal])
<1>1. <<>> \in Seq(WriterStep) /\ Els(<<>>) = {} /\ Kind(<<>>) = {}
  <2>1. <<>> \in Seq(WriterStep)
    OBVIOUS
  <2> QED
    BY <2>1, ElsSmall, EmptyKind
<1>2. /\ e.do = k /\ Todo = {e} \cup Els(r) /\ Todo' = Els(r)
      /\ \A u \in {Shell, Timer, Power} : steps'[u] = steps[u]
      /\ K(Hal) = ({k} \ Free) \cup Kind(r) /\ K(Hal)' = Kind(r)
      /\ k \notin Free => \A j \in Kind(r) : Rank(k) < Rank(j)
      /\ K(Hal) \in Shapes
      /\ r # <<>> => /\ steps[Hal][Len(steps[Hal])] = r[Len(r)]
                     /\ steps'[Hal][Len(steps'[Hal])] = r[Len(r)]
      /\ r = <<>> => Kind(r) = {}
  BY <1>1, HalThen, ZenonT(60)
<1> HIDE DEF e
<1>3. /\ Todo = {e} \cup Todo' /\ K(Hal) = {k} \cup K(Hal)'
      /\ (\A j \in K(Hal)' : Rank(k) < Rank(j)) /\ {k} \cup K(Hal)' \in Shapes
  BY <1>2
<1>4. /\ (HalAlone' <=> HalAlone) /\ Goal' = Goal /\ (Flashes' <=> Flashes) /\ SuffixInv'
  BY <1>2, Frame DEF ShownInv
<1>5. ChosenInv'
  <2>1. "attach" \in K(Hal)' <=> "attach" \in K(Hal)
    BY <1>3
  <2>2. \A d \in Todo' : d.do = "attach" => d \in Todo
    BY <1>3
  <2> QED
    BY <1>2, <2>1, <2>2, ChosenKept DEF ShownInv
<1>6. SteadyInv'
  <2>1. "attach" \in K(Hal)' => /\ "attach" \in K(Hal)
                                /\ steps'[Hal][Len(steps'[Hal])] = steps[Hal][Len(steps[Hal])]
    BY <1>2
  <2>2. \A d \in Todo' : d \in Todo
    BY <1>3
  <2>3. \A d \in Todo : d.do \in {"level", "drive", "gpio"} => d \in Todo'
    BY <1>2, <1>3 DEF Free
  <2>4. Idle(Power) => Idle(Power)'
    BY <1>2 DEF Idle
  <2> QED
    BY <1>2, <2>1, <2>2, <2>3, <2>4, SteadyKept DEF ShownInv
<1>7. \A d \in Todo' : d.do \in K(Hal)' \/ d.do \in Free
  BY <1>2, ElsKind
<1> QED
  BY <1>2, <1>3, <1>4, <1>5, <1>6, <1>7 DEF e

\* Inside the change of a trigger there is nothing to say of the delays.
LEMMA TriggerStepShown ==
    ASSUME TypeInv, TriggerInv, ShownInv, Lock(Hal) \/ Remove(Hal),
           UNCHANGED <<notification, battery, writes, meddled>>
    PROVE  ShownInv'
<1>1. PICK k \in {"lock", "remove"} :
        /\ Does(Hal, k) /\ Then(Hal, <<>>)
        /\ UNCHANGED <<trigger, brightness, lit, suspended>>
  BY DEF Lock, Remove, fields
<1>2. k \notin Free /\ k # "attach"
  BY DEF Free
<1>3. /\ {k} \cup K(Hal)' \in Shapes /\ \A j \in K(Hal)' : Rank(k) < Rank(j)
      /\ SuffixInv' /\ ChosenInv' /\ SteadyInv'
  BY <1>1, <1>2, HalDrops
<1>4. "attach" \in K(Hal)'
  <2>1. /\ k = "lock" => K(Hal)' = {"detach", "attach", "unlock"}
        /\ k = "remove" => K(Hal)' = {"stop", "attach", "unlock"}
    BY <1>3, ShapeTails, ZenonT(60)
  <2> QED
    BY <2>1
<1> QED
  BY <1>3, <1>4 DEF ShownInv, BlinkInv

LEMMA DetachShown ==
    ASSUME TypeInv, TriggerInv, ShownInv, Detach(Hal),
           UNCHANGED <<notification, battery, writes, meddled>>
    PROVE  ShownInv'
<1> DEFINE a == [do |-> "remove"]
           b == [do |-> "stop"]
           c == [do |-> "drive", v |-> 0]
           new == IF trigger = "timer" THEN IF data THEN <<a, b, c>> ELSE <<b, c>> ELSE <<>>
           r == Tail(steps[Hal])
<1>1. /\ Does(Hal, "detach")
      /\ Then(Hal, IF trigger = "timer" THEN Deactivate ELSE <<>>)
      /\ UNCHANGED <<trigger, brightness, lit, suspended>>
  BY DEF Detach, fields
<1>2. /\ a \in WriterStep /\ b \in WriterStep /\ c \in WriterStep
      /\ a.do = "remove" /\ b.do = "stop" /\ c.do = "drive" /\ c.v = 0
  BY LedValues DEF WriterStep, LightStep
<1>3. Deactivate = IF data THEN <<a>> \o <<b, c>> ELSE <<>> \o <<b, c>>
  BY DEF Deactivate, BrightnessSet
<1> HIDE DEF a, b, c
<1>4. <<b, c>> \in Seq(WriterStep) /\ <<b, c>> \in Seq(AnyStep)
      /\ a \in AnyStep /\ b \in AnyStep /\ c \in AnyStep
  <2>1. a \in AnyStep /\ b \in AnyStep /\ c \in AnyStep
    BY <1>2, StepKinds
  <2> QED
    BY <2>1, <1>2
<1>5. Deactivate = IF data THEN <<a, b, c>> ELSE <<b, c>>
  BY <1>3, <1>4, Join, Cat0
<1>6. Then(Hal, new)
  BY <1>1, <1>5
<1>7. new \in Seq(WriterStep) /\ Els(new) \subseteq {a, b, c}
  <2>1. <<a, b, c>> \in Seq(WriterStep) /\ <<b, c>> \in Seq(WriterStep) /\ <<>> \in Seq(WriterStep)
    BY <1>2
  <2>2. Els(<<a, b, c>>) = {a, b, c} /\ Els(<<b, c>>) = {b, c} /\ Els(<<>>) = {}
    BY ElsSmall
  <2> QED
    BY <2>1, <2>2
<1> HIDE DEF new
<1>8. /\ Head(steps[Hal]).do = "detach" /\ Todo = {Head(steps[Hal])} \cup Els(r)
      /\ Todo' = Els(new) \cup Els(r)
      /\ \A u \in {Shell, Timer, Power} : steps'[u] = steps[u]
      /\ K(Hal) = ({"detach"} \ Free) \cup Kind(r) /\ K(Hal)' = Kind(new) \cup Kind(r)
      /\ "detach" \notin Free => \A j \in Kind(r) : Rank("detach") < Rank(j)
      /\ K(Hal) \in Shapes
      /\ r # <<>> => /\ steps[Hal][Len(steps[Hal])] = r[Len(r)]
                     /\ steps'[Hal][Len(steps'[Hal])] = r[Len(r)]
      /\ r = <<>> => Kind(r) = {}
  BY <1>1, <1>6, <1>7, HalThen
<1> HIDE DEF r
<1>9. Kind(r) = {"attach", "unlock"} /\ "detach" \notin Free
  <2>1. "detach" \notin Free
    BY DEF Free
  <2>2. {"detach"} \cup Kind(r) \in Shapes
    BY <2>1, <1>8
  <2> QED
    BY <2>1, <2>2, <1>8, ShapeTails, ZenonT(60)
<1>10. "attach" \in K(Hal) /\ "attach" \in K(Hal)'
  BY <1>8, <1>9
<1>11. SuffixInv'
  BY <1>8, Frame DEF ShownInv
<1>12. ChosenInv'
  <2>1. \A d \in Todo' : d.do = "attach" => d \in Todo
    BY <1>2, <1>7, <1>8
  <2> QED
    BY <1>1, <1>8, <1>10, <2>1, ChosenKept DEF ShownInv
<1>13. SteadyInv'
  <2>1. HalAlone /\ writes = <<>> /\ ~Flashes => Target.level = 0
    BY <1>10 DEF ShownInv, SteadyInv
  <2>2. \A d \in Todo' : d.do \in {"level", "drive", "gpio"}
                         => d \in Todo \/ (HalAlone /\ writes = <<>> /\ ~Flashes
                                           => d.v = Target.level)
    BY <1>2, <1>7, <1>8, <2>1
  <2>3. \A d \in Todo : d.do \in {"level", "drive", "gpio"} => d \in Todo'
    BY <1>8
  <2>4. steps'[Hal][Len(steps'[Hal])] = steps[Hal][Len(steps[Hal])]
    BY <1>8, <1>9
  <2>5. Idle(Power) => Idle(Power)'
    BY <1>8 DEF Idle
  <2> QED
    BY <1>1, <1>8, <1>10, <2>2, <2>3, <2>4, <2>5, SteadyKept DEF ShownInv
<1> QED
  BY <1>10, <1>11, <1>12, <1>13 DEF ShownInv, BlinkInv

LEMMA DeleteShown ==
    ASSUME TypeInv, TriggerInv, ShownInv, Delete(Hal),
           UNCHANGED <<notification, battery, writes, meddled>>
    PROVE  ShownInv'
<1>1. /\ Does(Hal, "delete") /\ Then(Hal, <<>>)
      /\ UNCHANGED <<trigger, brightness, lit, suspended>>
      /\ UNCHANGED <<delayOn, delayOff, data, files, lost>>
  BY DEF Delete, fields
<1>2. "delete" \notin Free
  BY DEF Free
<1>3. /\ Todo = {Head(steps[Hal])} \cup Todo'
      /\ {"delete"} \cup K(Hal)' \in Shapes /\ \A j \in K(Hal)' : Rank("delete") < Rank(j)
      /\ K(Hal) = {"delete"} \cup K(Hal)'
      /\ (HalAlone' <=> HalAlone) /\ Goal' = Goal /\ (Flashes' <=> Flashes)
      /\ SuffixInv' /\ ChosenInv' /\ SteadyInv'
  BY <1>1, <1>2, HalDrops
<1>4. K(Hal)' \in {{"blink", "data", "unlock"}, {"blink", "assign"}}
  BY <1>3, ShapeTails
<1>5. Busy' /\ ("attach" \notin K(Hal)' => "attach" \notin K(Hal))
  BY <1>3, <1>4 DEF Busy
<1>6. Agrees => Agrees'
  BY <1>3, <1>5 DEF Agrees
<1>7. Ticks'
  BY <1>5 DEF Ticks
<1>8. Asks => Asks'
  <2>1. Asks => /\ \A d \in Todo' : d.do = "delays" => Meets(d)'
                /\ \A d \in Todo' : d.do = "blink" => Meets(Asked(d.attr, d.v))'
    BY <1>1, <1>3 DEF Asks, Meets, Asked
  <2> QED
    BY <1>5, <2>1 DEF Asks
<1>9. BlinkInv'
  BY <1>1, <1>3, <1>5, <1>6, <1>7, <1>8 DEF ShownInv, BlinkInv
<1> QED
  BY <1>3, <1>9 DEF ShownInv

LEMMA StopShown ==
    ASSUME TypeInv, TriggerInv, ShownInv, Stop(Hal),
           UNCHANGED <<notification, battery, writes, meddled>>
    PROVE  ShownInv'
<1>1. /\ Does(Hal, "stop") /\ Then(Hal, <<>>)
      /\ UNCHANGED <<trigger, brightness, lit, suspended>>
      /\ UNCHANGED <<data, files>>
  BY DEF Stop
<1>2. "stop" \notin Free
  BY DEF Free
<1>3. /\ Todo = {Head(steps[Hal])} \cup Todo'
      /\ {"stop"} \cup K(Hal)' \in Shapes /\ \A j \in K(Hal)' : Rank("stop") < Rank(j)
      /\ K(Hal) = {"stop"} \cup K(Hal)'
      /\ \A d \in Todo' : d.do \in K(Hal)' \/ d.do \in Free
      /\ (HalAlone' <=> HalAlone) /\ Goal' = Goal /\ (Flashes' <=> Flashes)
      /\ SuffixInv' /\ ChosenInv' /\ SteadyInv'
  BY <1>1, <1>2, HalDrops
<1>4. K(Hal)' \in {{"attach", "unlock"}, {"delays", "data", "unlock"}, {"delays", "assign"}}
  BY <1>3, ShapeTails
<1>5. CASE "attach" \in K(Hal)'
  BY <1>3, <1>5 DEF ShownInv, BlinkInv
<1>6. CASE "attach" \notin K(Hal)'
  <2>1. /\ Busy' /\ "attach" \notin K(Hal)
        /\ "delete" \notin K(Hal)' /\ "blink" \notin K(Hal)' /\ "blink" \notin Free
    BY <1>3, <1>4, <1>6 DEF Busy, Free
  <2>2. Agrees => Agrees'
    BY <1>3, <2>1 DEF Agrees
  <2>3. Ticks'
    BY <2>1 DEF Ticks
  <2>4. Asks => Asks'
    <3>1. Asks => \A d \in Todo' : d.do = "delays" => Meets(d)'
      BY <1>3 DEF Asks, Meets
    <3>2. \A d \in Todo' : d.do # "blink"
      BY <1>3, <2>1
    <3> QED
      BY <2>1, <3>1, <3>2 DEF Asks
  <2>5. BlinkInv'
    BY <1>1, <1>3, <2>1, <2>2, <2>3, <2>4 DEF ShownInv, BlinkInv
  <2> QED
    BY <1>3, <2>5 DEF ShownInv
<1> QED
  BY <1>5, <1>6

LEMMA AssignShown ==
    ASSUME TypeInv, TriggerInv, ShownInv, AssignDelay(Hal),
           UNCHANGED <<notification, battery, writes, meddled>>
    PROVE  ShownInv'
<1> DEFINE e == Head(steps[Hal])
<1>1. /\ Does(Hal, "assign") /\ Then(Hal, <<>>)
      /\ IF e.attr = "on"
         THEN delayOn' = e.v /\ UNCHANGED delayOff
         ELSE delayOff' = e.v /\ UNCHANGED delayOn
      /\ UNCHANGED <<trigger, brightness, lit, suspended>>
      /\ UNCHANGED <<data, files, armed, lost>>
  BY DEF AssignDelay
<1>2. "assign" \notin Free
  BY DEF Free
<1>3. /\ Todo = {e} \cup Todo' /\ e.do = "assign"
      /\ {"assign"} \cup K(Hal)' \in Shapes /\ \A j \in K(Hal)' : Rank("assign") < Rank(j)
      /\ K(Hal) = {"assign"} \cup K(Hal)'
      /\ \A d \in Todo' : d.do \in K(Hal)' \/ d.do \in Free
      /\ steps'[Timer] = steps[Timer]
      /\ (HalAlone' <=> HalAlone) /\ Goal' = Goal /\ (Flashes' <=> Flashes)
      /\ SuffixInv' /\ ChosenInv' /\ SteadyInv'
  BY <1>1, <1>2, HalDrops
<1>4. K(Hal)' = {} /\ K(Hal) = {"assign"}
  BY <1>3, ShapeTails
<1>5. ~Busy /\ ~Busy' /\ "attach" \notin K(Hal)
  BY <1>4 DEF Busy
<1> HIDE DEF e
<1>6. Agrees => delayOn' = delayOn /\ delayOff' = delayOff
  BY <1>1, <1>3, <1>5 DEF Agrees
<1>7. \A d \in Todo' : d.do \notin {"assign", "blink", "delays"}
  BY <1>3, <1>4 DEF Free
<1>8. Agrees'
  BY <1>4, <1>7 DEF Agrees
<1>9. Agrees /\ Ticks => Ticks'
  BY <1>1, <1>3, <1>4, <1>5, <1>6 DEF Ticks
<1>10. Agrees /\ Asks => Asks'
  BY <1>3, <1>5, <1>6, <1>7 DEF Asks
<1>11. BlinkInv'
  BY <1>1, <1>3, <1>5, <1>8, <1>9, <1>10 DEF ShownInv, BlinkInv
<1> QED
  BY <1>3, <1>11 DEF ShownInv

\* The end of an activation.
LEMMA ActivatedShown ==
    ASSUME TypeInv, TriggerInv, ShownInv, Activated(Hal) \/ Unlock(Hal),
           UNCHANGED <<notification, battery, writes, meddled>>
    PROVE  ShownInv'
<1>1. PICK k \in {"data", "unlock"} :
        /\ Does(Hal, k) /\ Then(Hal, <<>>)
        /\ UNCHANGED <<trigger, brightness, lit, suspended>>
        /\ UNCHANGED <<delayOn, delayOff, files, armed, lost>>
        /\ data' = data \/ (k = "data" /\ data' = TRUE)
  BY DEF Activated, Unlock, fields
<1>2. k \notin Free /\ k # "attach"
  BY DEF Free
<1>3. /\ Todo = {Head(steps[Hal])} \cup Todo'
      /\ {k} \cup K(Hal)' \in Shapes /\ \A j \in K(Hal)' : Rank(k) < Rank(j)
      /\ K(Hal) = {k} \cup K(Hal)'
      /\ \A d \in Todo' : d.do \in K(Hal)' \/ d.do \in Free
      /\ steps'[Timer] = steps[Timer]
      /\ (HalAlone' <=> HalAlone) /\ Goal' = Goal /\ (Flashes' <=> Flashes)
      /\ SuffixInv' /\ ChosenInv' /\ SteadyInv'
  BY <1>1, <1>2, HalDrops
<1>4. (k = "data" /\ K(Hal)' = {"unlock"}) \/ (k = "unlock" /\ K(Hal)' = {})
  <2>1. (k = "data" => K(Hal)' = {"unlock"}) /\ (k \in {"assign", "unlock"} => K(Hal)' = {})
    BY <1>3, ShapeTails, ZenonT(60)
  <2> QED
    BY <2>1
<1>5. /\ ~Busy /\ ~Busy' /\ "attach" \notin K(Hal) /\ "data" \notin K(Hal)'
      /\ "assign" \notin K(Hal)'
      /\ ("data" \in K(Hal) => k = "data")
  BY <1>3, <1>4 DEF Busy
<1>6. \A d \in Todo' : d.do \notin {"assign", "blink", "delays"}
  BY <1>3, <1>4 DEF Free
<1>7. Agrees'
  BY <1>5, <1>6 DEF Agrees
<1>8. Ticks => Ticks'
  BY <1>1, <1>3, <1>5, <1>4 DEF Ticks
<1>9. Asks => Asks'
  BY <1>1, <1>3, <1>5, <1>6 DEF Asks
<1>10. BlinkInv'
  BY <1>1, <1>3, <1>5, <1>7, <1>8, <1>9 DEF ShownInv, BlinkInv
<1> QED
  BY <1>3, <1>10 DEF ShownInv

LEMMA SetDelaysShown ==
    ASSUME TypeInv, TriggerInv, ShownInv, SetDelays(Hal),
           UNCHANGED <<notification, battery, writes, meddled>>
    PROVE  ShownInv'
<1> DEFINE e == Head(steps[Hal])
           b == [do |-> "level", v |-> blinkBrightness]
           new == IF e.on # 0 /\ e.off = 0 THEN <<b>> ELSE <<>>
           r == Tail(steps[Hal])
<1>1. /\ Does(Hal, "delays") /\ delayOn' = e.on /\ delayOff' = e.off
      /\ armed' = (armed \/ Starts(e.on, e.off))
      /\ Then(Hal, new)
      /\ UNCHANGED <<brightness, blinkBrightness, trigger, data, suspended, files, lock, lit>>
  BY DEF SetDelays, SetBrightness
<1>2. b \in WriterStep /\ b.do = "level" /\ b.do \in Free /\ "delays" \notin Free
  BY LedValues DEF WriterStep, LightStep, TypeInv, FieldsOK, Free
<1> HIDE DEF b
<1>3. new \in Seq(WriterStep) /\ Els(new) \subseteq {b}
  <2>1. <<b>> \in Seq(WriterStep) /\ <<>> \in Seq(WriterStep)
    BY <1>2
  <2>2. Els(<<b>>) = {b} /\ Els(<<>>) = {}
    BY ElsSmall
  <2> QED
    BY <2>1, <2>2
<1> HIDE DEF new
<1>4. Kind(new) = {}
  BY <1>2, <1>3, ElsKind
<1>5. /\ e.do = "delays" /\ Todo = {e} \cup Els(r) /\ Todo' = Els(new) \cup Els(r)
      /\ \A u \in {Shell, Timer, Power} : steps'[u] = steps[u]
      /\ K(Hal) = ({"delays"} \ Free) \cup Kind(r) /\ K(Hal)' = Kind(new) \cup Kind(r)
      /\ "delays" \notin Free => \A j \in Kind(r) : Rank("delays") < Rank(j)
      /\ K(Hal) \in Shapes
  BY <1>1, <1>3, HalThen
<1>6. \A d \in Els(r) : d.do \in Kind(r) \/ d.do \in Free
  BY ElsKind
<1> HIDE DEF e, r
<1>7. Kind(r) \in {{"data", "unlock"}, {"assign"}}
  <2>1. {"delays"} \cup Kind(r) \in Shapes
    BY <1>2, <1>5
  <2> QED
    BY <2>1, <1>2, <1>5, ShapeTails
<1>8. /\ K(Hal)' = Kind(r) /\ ~Busy' /\ "attach" \notin K(Hal) /\ "attach" \notin K(Hal)'
      /\ ("data" \in K(Hal)' <=> "data" \in K(Hal))
      /\ "delete" \notin K(Hal)' /\ "blink" \notin K(Hal)'
  BY <1>4, <1>5, <1>7 DEF Busy
<1>9. /\ \A d \in Todo' : d \in Todo \/ d.do = "level"
      /\ \A d \in Todo' : d.do \notin {"blink", "delays", "attach"}
      /\ e \in Todo
  BY <1>2, <1>3, <1>5, <1>6, <1>7 DEF Free
<1>10. (HalAlone' <=> HalAlone) /\ Goal' = Goal /\ (Flashes' <=> Flashes) /\ SuffixInv'
  BY <1>5, Frame DEF ShownInv
<1>11. ChosenInv'
  BY <1>1, <1>5, <1>8, <1>9, ChosenKept DEF ShownInv
<1>12. SteadyInv'
  <2>1. ~(HalAlone /\ writes = <<>> /\ ~Flashes)
    <3>1. "delays" \in K(Hal)
      BY <1>2, <1>5
    <3> QED
      BY <3>1, SteadyDoesNotBlink
  <2> QED
    BY <2>1, <1>10 DEF SteadyInv
<1>13. Agrees => Agrees'
  <2>1. \A a \in Todo' : a.do = "assign" => a \in Todo
    BY <1>9
  <2>2. Agrees => \A a \in Todo' : a.do = "assign" => a.v = IF a.attr = "on" THEN e.on ELSE e.off
    BY <1>5, <1>9, <2>1 DEF Agrees
  <2> QED
    BY <1>1, <1>8, <1>9, <2>2 DEF Agrees
<1>14. Ticks'
  BY <1>1 DEF Ticks, Starts
<1>15. Asks => Asks'
  <2>1. Asks => e.on = Goal.on /\ e.off = Goal.off
    BY <1>5, <1>9 DEF Asks, Meets
  <2> QED
    BY <1>1, <1>9, <1>10, <2>1 DEF Asks
<1>16. BlinkInv'
  BY <1>1, <1>8, <1>10, <1>13, <1>14, <1>15 DEF ShownInv, BlinkInv
<1> QED
  BY <1>10, <1>11, <1>12, <1>16 DEF ShownInv

LEMMA BlinkShown ==
    ASSUME TypeInv, TriggerInv, ShownInv, Blink(Hal),
           UNCHANGED <<notification, battery, writes, meddled>>
    PROVE  ShownInv'
<1> DEFINE e == Head(steps[Hal])
           attr == e.attr
           asked == Asked(attr, e.v)
           storedOn == IF asked.default /\ attr # "on" THEN Default ELSE delayOn
           storedOff == IF asked.default /\ attr # "off" THEN Default ELSE delayOff
           same == data /\ asked.on = storedOn /\ asked.off = storedOff
           rest == Tail(steps[Hal])
           assigns == rest # <<>> /\ Head(rest).do = "assign"
           state == IF attr = "on" THEN asked.on ELSE asked.off
           a == [do |-> "stop"]
           b == [do |-> "delays", on |-> asked.on, off |-> asked.off]
           c == [do |-> "assign", attr |-> attr, v |-> state]
           first == IF same THEN <<>> ELSE <<a, b>>
           last == IF assigns THEN <<c>> ELSE rest
<1>1. /\ Does(Hal, "blink") /\ delayOn' = storedOn /\ delayOff' = storedOff
      /\ steps' = [steps EXCEPT ![Hal] = first \o last]
      /\ lost' = (lost \/ same)
      /\ UNCHANGED <<brightness, trigger, data, suspended, armed, files, lock, lit>>
  BY DEF Blink
<1>2. Hal \in Writers /\ Hal \in Tasks /\ Shell # Hal /\ Timer # Hal /\ Power # Hal
      /\ Shell \in Tasks /\ Timer \in Tasks /\ Power \in Tasks /\ "blink" \notin Free
  BY LightsWriters, LedTasks DEF Tasks, Free
<1>3. WriterOK(Hal) /\ Formed(steps[Hal]) /\ K(Hal) \in Shapes
  BY <1>2 DEF TriggerInv, WriterOK, Formed, K
<1>4. /\ rest \in Seq(WriterStep) /\ rest \in Seq(AnyStep) /\ e \in AnyStep /\ e.do = "blink"
      /\ K(Hal) = {"blink"} \cup Kind(rest)
      /\ \A j \in Kind(rest) : Rank("blink") < Rank(j)
  BY <1>1, <1>2, <1>3, HeadWriter DEF TypeInv
<1>5. Kind(rest) \in {{"data", "unlock"}, {"assign"}}
  <2>1. {"blink"} \cup Kind(rest) \in Shapes
    BY <1>3, <1>4
  <2> QED
    BY <2>1, <1>4, ShapeTails
<1>6. /\ asked.on \in Nat /\ asked.off \in Nat /\ state \in Nat /\ attr \in {"on", "off", "both"}
  <2>1. attr \in {"on", "off", "both"} /\ e.v \in Nat
    BY <1>4, StepFields
  <2> QED
    BY <2>1, LedValues DEF TypeInv, FieldsOK, Asked
<1>7. Todo = {e} \cup Els(rest)
  <2>1. steps[Hal] = <<e>> \o rest /\ <<e>> \in Seq(AnyStep)
    <3>1. steps[Hal] = <<e>> \o rest
      BY <1>1, <1>2, HeadOf DEF TypeInv
    <3> HIDE DEF e
    <3> QED
      BY <3>1, <1>4
  <2>2. Els(<<e>> \o rest) = Els(<<e>>) \cup Els(rest) /\ Els(<<e>>) = {e}
    BY <1>4, <2>1, ElsCat, ElsSmall
  <2> QED
    BY <2>1, <2>2 DEF Todo
<1>8. rest # <<>> /\ Head(rest) \in Els(rest)
  <2> HIDE DEF rest
  <2>1. rest # <<>>
    BY <1>5, EmptyKind
  <2> QED
    BY <2>1, <1>4 DEF Els
<1> HIDE DEF e, asked, state, rest
<1>9. /\ a \in WriterStep /\ b \in WriterStep /\ c \in WriterStep
      /\ a.do = "stop" /\ b.do = "delays" /\ c.do = "assign"
      /\ b.on = asked.on /\ b.off = asked.off /\ c.attr = attr /\ c.v = state
  BY <1>6 DEF WriterStep
<1> HIDE DEF a, b, c
<1>10. /\ first \in Seq(WriterStep) /\ first \in Seq(AnyStep)
       /\ Els(first) = IF same THEN {} ELSE {a, b}
       /\ last \in Seq(WriterStep) /\ last \in Seq(AnyStep)
       /\ Els(last) = IF assigns THEN {c} ELSE Els(rest)
  <2>1. a \in AnyStep /\ b \in AnyStep /\ c \in AnyStep
    BY <1>9, StepKinds
  <2>2. <<a, b>> \in Seq(WriterStep) /\ <<>> \in Seq(WriterStep) /\ <<c>> \in Seq(WriterStep)
        /\ <<a, b>> \in Seq(AnyStep) /\ <<>> \in Seq(AnyStep) /\ <<c>> \in Seq(AnyStep)
    BY <1>9, <2>1
  <2>3. Els(<<a, b>>) = {a, b} /\ Els(<<>>) = {} /\ Els(<<c>>) = {c}
    BY ElsSmall
  <2> QED
    BY <2>2, <2>3, <1>4
<1> HIDE DEF first, last, same, assigns
<1>11. /\ steps'[Hal] = first \o last
       /\ steps'[Shell] = steps[Shell] /\ steps'[Timer] = steps[Timer]
       /\ Todo' = Els(first) \cup Els(last)
  <2>1. first \o last \in Seq(WriterStep)
    BY <1>10
  <2>2. steps'[Hal] = first \o last /\ \A u \in Tasks \ {Hal} : steps'[u] = steps[u]
    BY <1>1, <1>2, <2>1, SetWriter DEF TypeInv
  <2> QED
    BY <2>2, <1>2, <1>10, ElsCat DEF Todo
<1>12. \A d \in Els(rest) : d.do \in Kind(rest) \/ d.do \in Free
  BY ElsKind
<1>13. \A d \in Todo' : \/ d \in Els(rest) /\ ~assigns
                        \/ d = c /\ assigns
                        \/ (d = a \/ d = b) /\ ~same
  BY <1>10, <1>11
<1>14. /\ \A d \in Todo' : d.do \notin {"blink", "delete", "attach"}
       /\ \A d \in Todo' : d.do = "delays" => d = b /\ ~same
  BY <1>5, <1>9, <1>12, <1>13 DEF Free
<1>15. /\ "blink" \notin K(Hal)' /\ "delete" \notin K(Hal)' /\ "attach" \notin K(Hal)'
       /\ "attach" \notin K(Hal)
       /\ ("delays" \in K(Hal)' <=> ~same) /\ ("data" \in K(Hal)' => "data" \in K(Hal))
       /\ (~same => Busy') /\ (same => ~Busy')
  <2>1. K(Hal)' = {d.do : d \in Todo'} \ Free
    <3>1. Kind(steps'[Hal]) = {d.do : d \in Els(steps'[Hal])} \ Free
      BY ElsKind
    <3> QED
      BY <3>1 DEF K, Todo
  <2>2. "delays" \in K(Hal)' <=> ~same
    BY <2>1, <1>9, <1>10, <1>11, <1>14 DEF Free
  <2>3. "data" \in K(Hal)' => "data" \in K(Hal)
    <3>1. \A d \in Todo' : d.do = "data" => d \in Els(rest)
      BY <1>9, <1>13
    <3>2. \A d \in Els(rest) : d.do = "data" => "data" \in Kind(rest)
      BY <1>12 DEF Free
    <3> QED
      BY <2>1, <3>1, <3>2, <1>4
  <2>4. same => "stop" \notin K(Hal)'
    <3>1. same => \A d \in Todo' : d.do # "stop"
      BY <1>5, <1>9, <1>12, <1>13 DEF Free
    <3> QED
      BY <3>1, <2>1
  <2> QED
    BY <2>1, <2>2, <2>3, <2>4, <1>4, <1>5, <1>14 DEF Busy
<1>16. (HalAlone' <=> HalAlone) /\ Goal' = Goal /\ (Flashes' <=> Flashes) /\ SuffixInv'
  BY <1>11, Frame DEF ShownInv
<1>17. ChosenInv'
  BY <1>1, <1>11, <1>14, <1>15, ChosenKept DEF ShownInv
<1>18. SteadyInv'
  <2>1. ~(HalAlone /\ writes = <<>> /\ ~Flashes)
    <3>1. "blink" \in K(Hal)
      BY <1>4
    <3> QED
      BY <3>1, SteadyDoesNotBlink
  <2> QED
    BY <2>1, <1>16 DEF SteadyInv
<1>19. same => delayOn' = asked.on /\ delayOff' = asked.off
  BY <1>1 DEF same
<1>20. Agrees => \A d \in Todo' : d.do = "assign" => d = c
  <2> SUFFICES ASSUME Agrees, NEW d \in Todo', d.do = "assign", d # c PROVE FALSE
    OBVIOUS
  <2>1. d \in Els(rest) /\ ~assigns
    BY <1>9, <1>13
  <2>2. Kind(rest) = {"assign"}
    BY <2>1, <1>5, <1>12 DEF Free
  <2>3. \A x \in Todo : x.do \notin Free
    BY <2>2, <1>4 DEF Agrees
  <2>4. Head(rest).do = "assign"
    BY <2>2, <2>3, <1>7, <1>8, <1>12
  <2> QED
    BY <2>1, <2>4, <1>8 DEF assigns
<1>21. Agrees => Agrees'
  <2>1. c.v = IF c.attr = "on" THEN asked.on ELSE asked.off
    BY <1>9 DEF state
  <2>2. Agrees => \A x, d \in Todo' : x.do = "assign" /\ d.do = "delays"
                                      => x.v = IF x.attr = "on" THEN d.on ELSE d.off
    BY <2>1, <1>9, <1>14, <1>20
  <2>3. Agrees => (~Busy' => \A x \in Todo' : x.do = "assign"
                             => x.v = IF x.attr = "on" THEN delayOn' ELSE delayOff')
    BY <2>1, <1>15, <1>19, <1>20
  <2> QED
    BY <1>15, <2>2, <2>3 DEF Agrees
<1>22. Ticks'
  BY <1>1, <1>15 DEF Ticks
<1>23. Asks => Asks'
  <2>1. Asks => asked.on = Goal.on /\ asked.off = Goal.off
    BY <1>4, <1>7 DEF Asks, Meets, asked
  <2>2. Asks => \A d \in Todo' : d.do = "delays" => Meets(d)'
    BY <2>1, <1>9, <1>14, <1>16 DEF Meets
  <2> QED
    BY <2>1, <2>2, <1>14, <1>15, <1>16, <1>19 DEF Asks
<1>24. BlinkInv'
  BY <1>1, <1>15, <1>16, <1>21, <1>22, <1>23 DEF ShownInv, BlinkInv
<1> QED
  BY <1>16, <1>17, <1>18, <1>24 DEF ShownInv

\* What the HAL still writes when it is alone.
LEMMA Lengths ==
    ASSUME SuffixInv, HalAlone
    PROVE  Len(writes) \in 0..3 /\ (~Target.flash => Len(writes) <= 1)
<1> DEFINE s == Target
           b == [to |-> "on", v |-> s.on]
           c == [to |-> "off", v |-> s.off]
           d == [to |-> "brightness", v |-> s.level]
           one == <<d>>
           two == <<c, d>>
           three == <<b, c, d>>
           none == <<>>
<1>1. writes \in {one, none} \cup (IF s.flash THEN {three, two} ELSE {})
  BY DEF SuffixInv, Suffixes, HalAlone
<1> HIDE DEF b, c, d
<1>2. Len(none) = 0 /\ Len(one) = 1 /\ Len(two) = 2 /\ Len(three) = 3
  OBVIOUS
<1> HIDE DEF s, none, one, two, three
<1>3. writes = none \/ writes = one \/ (s.flash /\ (writes = two \/ writes = three))
  BY <1>1
<1>4. Len(writes) = 0 \/ Len(writes) = 1 \/ (s.flash /\ (Len(writes) = 2 \/ Len(writes) = 3))
  BY <1>2, <1>3
<1>5. Len(writes) \in 0..3 /\ (~s.flash => Len(writes) <= 1)
  BY ONLY <1>4
<1> QED
  BY <1>5 DEF s

LEMMA AttachShown ==
    ASSUME TypeInv, TriggerInv, ShownInv, Attach(Hal),
           UNCHANGED <<notification, battery, writes, meddled>>
    PROVE  ShownInv'
<1> DEFINE a == [do |-> "delete"]
           b == [do |-> "blink", attr |-> "both", v |-> 0]
           c == [do |-> "data"]
           e == Head(steps[Hal])
           r == Tail(steps[Hal])
<1>1. /\ Does(Hal, "attach") /\ trigger' = e.name
      /\ UNCHANGED <<brightness, blinkBrightness, delayOn, delayOff, suspended,
                     armed, lock, lit, lost>>
  BY DEF Attach
<1>2. /\ a \in WriterStep /\ b \in WriterStep /\ c \in WriterStep
      /\ a \in AnyStep /\ b \in AnyStep /\ c \in AnyStep
      /\ a.do = "delete" /\ b.do = "blink" /\ c.do = "data"
      /\ b.attr = "both" /\ b.v = 0
  <2>1. a \in WriterStep /\ b \in WriterStep /\ c \in WriterStep
    BY DEF WriterStep
  <2> QED
    BY <2>1, StepKinds
<1>3. \/ trigger' = "timer" /\ data' = FALSE /\ files' = TRUE /\ Then(Hal, <<a, b, c>>)
      \/ trigger' = "timer" /\ data' = FALSE /\ files' = FALSE /\ Then(Hal, <<>>)
      \/ trigger' # "timer" /\ UNCHANGED <<data, files>> /\ Then(Hal, <<>>)
  <2>1. BlinkSet("both", 0) = <<a, b>>
    BY DEF BlinkSet
  <2>2. BlinkSet("both", 0) \o <<[do |-> "data"]>> = <<a, b>> \o <<c>>
    BY <2>1
  <2> HIDE DEF a, b, c
  <2>3. BlinkSet("both", 0) \o <<[do |-> "data"]>> = <<a, b, c>>
    BY <2>2, <1>2, Join
  <2> QED
    BY <2>3 DEF Attach
<1> HIDE DEF a, b, c
<1>4. PICK new \in Seq(WriterStep) :
        /\ Then(Hal, new)
        /\ \/ trigger' = "timer" /\ data' = FALSE /\ files' = TRUE /\ Els(new) = {a, b, c}
           \/ trigger' = "timer" /\ data' = FALSE /\ files' = FALSE /\ Els(new) = {}
           \/ trigger' # "timer" /\ UNCHANGED <<data, files>> /\ Els(new) = {}
  <2>1. <<>> \in Seq(WriterStep) /\ <<a, b, c>> \in Seq(WriterStep)
    BY <1>2
  <2>2. Els(<<>>) = {} /\ Els(<<a, b, c>>) = {a, b, c}
    BY ElsSmall
  <2> QED
    BY <2>1, <2>2, <1>3
<1>5. /\ e \in Todo /\ e.do = "attach" /\ Todo' = Els(new) \cup Els(r)
      /\ \A u \in {Shell, Timer, Power} : steps'[u] = steps[u]
      /\ K(Hal) = ({"attach"} \ Free) \cup Kind(r) /\ K(Hal)' = Kind(new) \cup Kind(r)
      /\ "attach" \notin Free => \A j \in Kind(r) : Rank("attach") < Rank(j)
      /\ K(Hal) \in Shapes
      /\ r # <<>> => /\ steps[Hal][Len(steps[Hal])] = r[Len(r)]
                     /\ r[Len(r)] \in Els(r)
      /\ r = <<>> => Kind(r) = {}
  BY <1>1, <1>4, HalThen
<1>6. \A d \in Els(r) : d.do \in Kind(r) \/ d.do \in Free
  BY ElsKind
<1>7. Kind(new) = IF Els(new) = {} THEN {} ELSE {"delete", "blink", "data"}
  <2>1. Kind(new) = {d.do : d \in Els(new)} \ Free
    BY ElsKind
  <2> QED
    BY <2>1, <1>2, <1>4 DEF Free
<1>8. Todo = {e} \cup Els(r)
  BY <1>1, <1>4, HalThen
<1> HIDE DEF e, r
<1>9. Kind(r) = {"unlock"} /\ "attach" \in K(Hal)
  <2>1. "attach" \notin Free
    BY DEF Free
  <2>2. {"attach"} \cup Kind(r) \in Shapes /\ \A j \in Kind(r) : Rank("attach") < Rank(j)
    BY <2>1, <1>5
  <2>3. Kind(r) = {"unlock"}
    BY <2>2, ShapeTails
  <2> QED
    BY <2>1, <2>3, <1>5
<1>10. /\ \A d \in Els(r) : d.do \notin {"assign", "blink", "delays", "attach"}
       /\ \A d \in Todo' : d.do \notin {"assign", "delays", "attach"}
       /\ \A d \in Todo' : d.do = "blink" => d = b
       /\ \A d \in Todo' : d.do \in Free => d \in Todo
       /\ "attach" \notin K(Hal)' /\ "assign" \notin K(Hal)'
       /\ Els(new) = {a, b, c} => Busy'
       /\ Els(new) = {} => "data" \notin K(Hal)'
  <2>1. \A d \in Els(r) : d.do \notin {"assign", "blink", "delays", "attach"}
    BY <1>6, <1>9 DEF Free
  <2>2. \A d \in Els(new) : d.do \in {"delete", "blink", "data"} /\ (d.do = "blink" => d = b)
    BY <1>2, <1>4
  <2>3. /\ "attach" \notin K(Hal)' /\ "assign" \notin K(Hal)'
        /\ Els(new) = {a, b, c} => Busy'
        /\ Els(new) = {} => "data" \notin K(Hal)'
    <3>1. CASE Els(new) = {}
      <4>1. K(Hal)' = {"unlock"} /\ {} # {a, b, c}
        BY <3>1, <1>5, <1>7, <1>9
      <4> QED
        BY <3>1, <4>1
    <3>2. CASE Els(new) # {}
      <4>1. K(Hal)' = {"delete", "blink", "data", "unlock"}
        BY <3>2, <1>5, <1>7, <1>9
      <4> QED
        BY <3>2, <4>1 DEF Busy
    <3> QED
      BY <3>1, <3>2
  <2>4. \A d \in Todo' : d.do \in Free => d \in Todo
    BY <2>2, <1>5, <1>8 DEF Free
  <2> QED
    BY <2>1, <2>2, <2>3, <2>4, <1>5
<1>11. /\ Target' = Target /\ (HalAlone' <=> HalAlone) /\ Goal' = Goal /\ (Flashes' <=> Flashes)
       /\ Want' = Want /\ SuffixInv'
  BY <1>5, Frame DEF ShownInv
<1>12. delayOn = 0 /\ delayOff = 0
  <2>1. K(Hal) = {"attach", "unlock"}
    BY <1>5, <1>9
  <2>2. Detached(Hal) /\ "stop" \notin K(Hal)
    BY <2>1 DEF Detached, Holder
  <2>3. WriterOK(Hal)
    BY LightsWriters DEF TriggerInv
  <2> QED
    BY <2>2, <2>3 DEF WriterOK, Quiet
<1>13. HalAlone /\ (Flashes \/ ~Target.flash \/ writes = <<>>) => trigger' = Want
  BY <1>1, <1>5 DEF ShownInv, ChosenInv
<1>14. ChosenInv'
  BY <1>10, <1>11, <1>13 DEF ChosenInv
<1>15. SteadyInv'
  <2> SUFFICES ASSUME HalAlone, writes = <<>>, ~Flashes
               PROVE  /\ Awake'
                      /\ \A d \in Todo' : d.do \in {"level", "drive", "gpio"} => d.v = Target.level
                      /\ Has("level")'
    BY <1>10, <1>11 DEF SteadyInv
  <2>1. /\ Awake
        /\ \A d \in Todo : d.do \in {"level", "drive", "gpio"} => d.v = Target.level
        /\ steps[Hal][Len(steps[Hal])].do = "level"
    BY <1>9 DEF ShownInv, SteadyInv
  <2>2. Awake'
    BY <2>1, <1>1, <1>5 DEF Awake, Idle
  <2>3. \A d \in Todo' : d.do \in {"level", "drive", "gpio"} => d.v = Target.level
    BY <2>1, <1>10 DEF Free
  <2>4. Has("level")'
    <3>1. r # <<>>
      BY <1>5, <1>9
    <3> QED
      BY <3>1, <2>1, <1>5 DEF Has
  <2> QED
    BY <2>2, <2>3, <2>4
<1>16. Agrees'
  BY <1>10 DEF Agrees
<1>17. Ticks'
  BY <1>4, <1>10 DEF Ticks
<1>18. HalAlone /\ Flashes /\ files' => Asks'
  <2> SUFFICES ASSUME HalAlone, Flashes, files' PROVE Asks'
    OBVIOUS
  <2>1. trigger' = "timer"
    BY <1>13 DEF Want
  <2>2. Els(new) = {a, b, c}
    BY <1>4, <2>1
  <2>3. Len(writes) = 3
    <3>1. Len(writes) \in 0..3
      BY Lengths DEF ShownInv
    <3>2. ~(Len(writes) <= 2)
      BY <1>9 DEF ShownInv, ChosenInv
    <3>3. \A n \in 0..3 : n <= 2 \/ n = 3
      OBVIOUS
    <3> QED
      BY <3>1, <3>2, <3>3, Zenon
  <2>4. Goal.on = Default /\ Goal.off = Default
    BY <2>3 DEF Goal
  <2>5. Meets(Asked(b.attr, b.v))'
    <3>1. Asked(b.attr, b.v)' = [on |-> Default, off |-> Default, default |-> TRUE]
      BY <1>1, <1>2, <1>12 DEF Asked
    <3> QED
      BY <3>1, <2>4, <1>11 DEF Meets
  <2>6. \A d \in Todo' : d.do = "blink" => Meets(Asked(d.attr, d.v))'
    BY <2>5, <1>10
  <2> QED
    BY <2>2, <2>6, <1>10 DEF Asks
<1>19. BlinkInv'
  BY <1>11, <1>16, <1>17, <1>18 DEF BlinkInv
<1> QED
  BY <1>11, <1>14, <1>15, <1>19 DEF ShownInv

LEMMA HalSteps ==
    ASSUME TypeInv, TriggerInv, HalOK, ShownInv, Step(Hal),
           UNCHANGED <<notification, battery, writes, meddled>>
    PROVE  ShownInv'
<1>1. Hal \in Writers /\ Hal \in Tasks
  BY LightsWriters DEF Tasks
<1>2. ~Rearm(Hal) /\ ~Resumed(Hal)
  BY <1>1, WhoDoes DEF TypeInv, Rearm, Resumed
<1> QED
  BY <1>2, LevelShown, DriveShown, GpioShown, DeleteShown, StopShown, BlinkShown, SetDelaysShown,
     AssignShown, TriggerStepShown, ActivatedShown, DetachShown, AttachShown DEF Step

-------------------------------------------------------------------------------
(* The steps of the timer and of the power task, and the HAL *)

\* What they leave as it is.
LEMMA OtherLeaves ==
    ASSUME TypeInv, NEW t \in {Timer, Power}, Step(t)
    PROVE  /\ ~Idle(t) /\ \A u \in Tasks \ {t} : steps'[u] = steps[u]
           /\ UNCHANGED <<delayOn, delayOff, trigger, data, files, lost>>
           /\ t = Timer => suspended' = suspended
           /\ \/ armed' = armed /\ (t = Timer => \A d \in Els(steps[Timer]) :
                                                  d.do = "rearm" => d \in Els(steps'[Timer]))
              \/ t = Timer /\ armed' = TRUE
<1>1. t \in Tasks /\ t \notin Writers /\ StepsOK /\ Timer # Power
  BY LedTasks DEF Tasks, TypeInv
<1>2. ASSUME NEW k, Does(t, k), NEW new, Then(t, new), new \in Seq(TimerStep),
             new \in Seq(PowerStep)
      PROVE  /\ ~Idle(t) /\ \A u \in Tasks \ {t} : steps'[u] = steps[u]
             /\ k # "rearm" => \A d \in Els(steps[t]) : d.do = "rearm" => d \in Els(steps'[t])
  <2> DEFINE e == Head(steps[t])  r == Tail(steps[t])
  <2>1. \A u \in Tasks \ {t} : steps'[u] = steps[u]
    BY <1>1, <1>2, ThenOther
  <2>2. /\ e \in AnyStep /\ e.do = k /\ r \in Seq(AnyStep) /\ steps[t] = <<e>> \o r
        /\ steps[t] # <<>>
    BY <1>1, <1>2, HeadOf
  <2>3. steps'[t] = new \o r
    BY <1>1, <1>2 DEF Then, StepsOK
  <2> HIDE DEF e, r
  <2>4. new \in Seq(AnyStep) /\ <<e>> \in Seq(AnyStep)
    BY <1>2, <2>2, StepKinds
  <2>5. Els(steps[t]) = {e} \cup Els(r) /\ Els(steps'[t]) = Els(new) \cup Els(r)
    <3>1. Els(<<e>> \o r) = Els(<<e>>) \cup Els(r) /\ Els(<<e>>) = {e}
      BY <2>2, <2>4, ElsCat, ElsSmall
    <3>2. Els(new \o r) = Els(new) \cup Els(r)
      BY <2>2, <2>4, ElsCat
    <3> QED
      BY <3>1, <3>2, <2>2, <2>3
  <2> QED
    BY <2>1, <2>2, <2>5 DEF Idle
<1>3. <<>> \in Seq(TimerStep) /\ <<>> \in Seq(PowerStep)
  OBVIOUS
<1>4. CASE Level(t)
  <2> DEFINE v == Head(steps[t]).v
             capped == IF v > Full THEN Full ELSE v
             new == IF suspended THEN <<>> ELSE <<[do |-> "drive", v |-> capped]>>
  <2>1. Does(t, "level") /\ Then(t, new)
        /\ UNCHANGED <<delayOn, delayOff, trigger, data, suspended, armed, files, lost>>
    BY <1>4 DEF Level
  <2>2. v \in Nat
    BY <2>1, <1>1, HeadOf, StepFields
  <2>3. capped \in 0..Full
    BY <2>2, LedValues
  <2> HIDE DEF capped
  <2>4. [do |-> "drive", v |-> capped] \in TimerStep /\ [do |-> "drive", v |-> capped] \in PowerStep
    BY <2>3 DEF TimerStep, PowerStep, LightStep
  <2>5. new \in Seq(TimerStep) /\ new \in Seq(PowerStep)
    BY <2>4
  <2> HIDE DEF new
  <2>6. /\ ~Idle(t) /\ \A u \in Tasks \ {t} : steps'[u] = steps[u]
        /\ \A d \in Els(steps[t]) : d.do = "rearm" => d \in Els(steps'[t])
    BY <1>2, <2>1, <2>5
  <2> QED
    BY <2>1, <2>6
<1>5. CASE Drive(t)
  <2> DEFINE v == Head(steps[t]).v
             new == <<[do |-> "gpio", v |-> v]>>
  <2>1. Does(t, "drive") /\ Then(t, new)
        /\ UNCHANGED <<delayOn, delayOff, trigger, data, suspended, armed, files, lost>>
    BY <1>5 DEF Drive
  <2>2. v \in 0..Full
    BY <2>1, <1>1, HeadOf, StepFields
  <2> HIDE DEF v
  <2>3. [do |-> "gpio", v |-> v] \in TimerStep /\ [do |-> "gpio", v |-> v] \in PowerStep
    BY <2>2 DEF TimerStep, PowerStep, LightStep
  <2>4. new \in Seq(TimerStep) /\ new \in Seq(PowerStep)
    BY <2>3
  <2> HIDE DEF new
  <2>5. /\ ~Idle(t) /\ \A u \in Tasks \ {t} : steps'[u] = steps[u]
        /\ \A d \in Els(steps[t]) : d.do = "rearm" => d \in Els(steps'[t])
    BY <1>2, <2>1, <2>4
  <2> QED
    BY <2>1, <2>5
<1>6. CASE Gpio(t)
  <2> DEFINE new == <<>>
  <2>1. Does(t, "gpio") /\ Then(t, new) /\ new \in Seq(TimerStep) /\ new \in Seq(PowerStep)
        /\ UNCHANGED <<delayOn, delayOff, trigger, data, suspended, armed, files, lost>>
    BY <1>3, <1>6 DEF Gpio, fields
  <2> HIDE DEF new
  <2>2. /\ ~Idle(t) /\ \A u \in Tasks \ {t} : steps'[u] = steps[u]
        /\ \A d \in Els(steps[t]) : d.do = "rearm" => d \in Els(steps'[t])
    BY <1>2, <2>1
  <2> QED
    BY <2>1, <2>2
<1>7. CASE t = Timer /\ Rearm(t)
  <2>1. Does(t, "rearm") /\ Then(t, <<>>) /\ armed' = TRUE
        /\ UNCHANGED <<delayOn, delayOff, trigger, data, suspended, files, lost>>
    BY <1>7 DEF Rearm, fields
  <2> QED
    BY <1>2, <1>3, <1>7, <2>1
<1>8. CASE t = Power /\ Resumed(t)
  <2>1. Does(t, "resumed") /\ Then(t, <<>>)
        /\ UNCHANGED <<delayOn, delayOff, trigger, data, armed, files, lost>>
    BY <1>8 DEF Resumed
  <2> QED
    BY <1>1, <1>2, <1>3, <1>8, <2>1
<1> QED
  BY <1>1, <1>4, <1>5, <1>6, <1>7, <1>8, OtherDoes

\* Another task leaves to the HAL what it has to do, and the timer goes on.
LEMMA BlinkLeft ==
    ASSUME ShownInv, UNCHANGED <<notification, battery, writes, meddled>>,
           steps'[Hal] = steps[Hal], steps'[Shell] = steps[Shell],
           UNCHANGED <<delayOn, delayOff, trigger, data, files, lost>>,
           Ticks => Ticks'
    PROVE  SuffixInv' /\ BlinkInv' /\ ChosenInv' /\ Todo' = Todo /\ K(Hal)' = K(Hal)
<1>1. /\ Target' = Target /\ (Flashes' <=> Flashes) /\ Goal' = Goal /\ (HalAlone' <=> HalAlone)
      /\ SuffixInv'
  BY Frame DEF ShownInv
<1>2. Todo' = Todo /\ K(Hal)' = K(Hal)
  BY DEF Todo, K
<1>3. Busy' <=> Busy
  BY <1>2 DEF Busy
<1>4. Agrees => Agrees'
  BY <1>2, <1>3 DEF Agrees
<1>5. Asks => Asks'
  <2>1. Asks => /\ \A d \in Todo' : d.do = "delays" => Meets(d)'
                /\ \A d \in Todo' : d.do = "blink" => Meets(Asked(d.attr, d.v))'
    BY <1>1, <1>2 DEF Asks, Meets, Asked
  <2> QED
    BY <1>1, <1>3, <2>1 DEF Asks
<1>6. BlinkInv'
  BY <1>1, <1>2, <1>4, <1>5 DEF ShownInv, BlinkInv
<1>7. ChosenInv'
  BY <1>2, ChosenKept DEF ShownInv
<1> QED
  BY <1>1, <1>2, <1>6, <1>7

LEMMA OtherShown ==
    ASSUME TypeInv, TriggerInv, ShownInv, NEW t \in {Timer, Power}, Step(t),
           UNCHANGED <<notification, battery, writes, meddled>>
    PROVE  ShownInv'
<1>1. /\ ~Idle(t)
      /\ steps'[Hal] = steps[Hal] /\ steps'[Shell] = steps[Shell]
      /\ t = Timer => steps'[Power] = steps[Power]
      /\ t = Power => steps'[Timer] = steps[Timer]
      /\ UNCHANGED <<delayOn, delayOff, trigger, data, files, lost>>
      /\ t = Timer => suspended' = suspended
      /\ \/ armed' = armed /\ (t = Timer => \A d \in Els(steps[Timer]) :
                                              d.do = "rearm" => d \in Els(steps'[Timer]))
         \/ t = Timer /\ armed' = TRUE
  <2>1. /\ Hal \in Tasks \ {t} /\ Shell \in Tasks \ {t}
        /\ t = Timer => Power \in Tasks \ {t}
        /\ t = Power => Timer \in Tasks \ {t}
    BY LightsWriters, LedTasks DEF Tasks
  <2> QED
    BY <2>1, OtherLeaves
<1>2. Ticks => Ticks'
  <2>1. Busy' <=> Busy
    BY <1>1 DEF Busy, K
  <2>2. K(Hal)' = K(Hal)
    BY <1>1 DEF K
  <2>3. \/ armed' /\ t = Timer
        \/ /\ armed' = armed
           /\ \A d \in Els(steps[Timer]) : d.do = "rearm" => d \in Els(steps'[Timer])
    BY <1>1
  <2> QED
    BY <1>1, <2>1, <2>2, <2>3 DEF Ticks
<1>3. SuffixInv' /\ BlinkInv' /\ ChosenInv' /\ Todo' = Todo /\ K(Hal)' = K(Hal)
  BY <1>1, <1>2, BlinkLeft
<1>4. SteadyInv'
  <2>1. Target' = Target /\ (Flashes' <=> Flashes) /\ (HalAlone' <=> HalAlone)
    BY <1>1, Frame
  <2> SUFFICES ASSUME HalAlone, writes = <<>>, ~Flashes
               PROVE  /\ Awake'
                      /\ \A d \in Todo' : d.do \in {"level", "drive", "gpio"} => d.v = Target.level
                      /\ "attach" \in K(Hal)' => Target.level = 0
                                                 /\ steps'[Hal][Len(steps'[Hal])].do = "level"
                      /\ Has("level")'
    BY <2>1 DEF SteadyInv
  <2>2. /\ Awake
        /\ \A d \in Todo : d.do \in {"level", "drive", "gpio"} => d.v = Target.level
        /\ "attach" \in K(Hal) => Target.level = 0 /\ steps[Hal][Len(steps[Hal])].do = "level"
    BY DEF ShownInv, SteadyInv
  <2>3. t = Timer
    BY <1>1, <2>2 DEF Awake
  <2>4. Awake'
    BY <1>1, <2>2, <2>3 DEF Awake, Idle
  <2>5. "attach" \in K(Hal)
    <3>1. trigger # "none"
      BY <1>1, <2>3 DEF TriggerInv, Quiet
    <3> QED
      BY <3>1, SteadyDoesNotBlink
  <2>6. Has("level")'
    <3>1. steps[Hal] # <<>> /\ steps[Hal] \in Seq(AnyStep)
      <4>1. K(Hal) # {} /\ steps[Hal] \in Seq(AnyStep)
        BY <2>5, LightsWriters DEF TypeInv, StepsOK, Tasks
      <4> QED
        BY <4>1, EmptyKind DEF K
    <3>2. steps[Hal][Len(steps[Hal])] \in Todo
      BY <3>1 DEF Todo, Els
    <3> QED
      BY <3>2, <1>3, <2>2, <2>5 DEF Has
  <2> QED
    BY <1>1, <1>3, <2>2, <2>4, <2>6
<1> QED
  BY <1>3, <1>4 DEF ShownInv

LEMMA FireShown ==
    ASSUME TypeInv, TriggerInv, ShownInv, Fire,
           UNCHANGED <<notification, battery, writes, meddled>>
    PROVE  ShownInv'
<1>1. /\ UNCHANGED <<brightness, delayOn, delayOff, trigger, data, suspended, files, lock,
                     lit, lost>>
      /\ steps'[Hal] = steps[Hal] /\ steps'[Shell] = steps[Shell] /\ steps'[Power] = steps[Power]
      /\ delayOn # 0 /\ delayOff # 0 => \E d \in Els(steps'[Timer]) : d.do = "rearm"
  <2>1. Hal \in Tasks \ {Timer} /\ Shell \in Tasks \ {Timer} /\ Power \in Tasks \ {Timer}
    BY LightsWriters, LedTasks DEF Tasks
  <2>2. /\ UNCHANGED <<brightness, delayOn, delayOff, trigger, data, suspended, files, lock,
                       lit, lost>>
        /\ \A u \in Tasks \ {Timer} : steps'[u] = steps[u]
        /\ delayOn # 0 /\ delayOff # 0 =>
             \E i \in DOMAIN steps'[Timer] : steps'[Timer][i].do = "rearm"
    BY FireIs
  <2> QED
    BY <2>1, <2>2 DEF Els
<1>2. Ticks'
  BY <1>1 DEF Ticks
<1>3. SuffixInv' /\ BlinkInv' /\ ChosenInv' /\ Todo' = Todo /\ K(Hal)' = K(Hal)
  BY <1>1, <1>2, BlinkLeft
<1>4. SteadyInv'
  BY <1>1, <1>3, SteadyKept DEF ShownInv, Idle
<1> QED
  BY <1>3, <1>4 DEF ShownInv

\* The steps that a store of the trigger begins with.
LEMMA TriggerEls ==
    ASSUME NEW name \in {"none", "timer"}, NEW r \in Seq(AnyStep)
    PROVE  LET q == SetTrigger(name) \o r
           IN  /\ \A d \in Els(q) : \/ d \in Els(r)
                                    \/ d.do \in {"lock", "detach", "unlock"}
                                    \/ d.do = "attach" /\ d.name = name
               /\ Els(r) \subseteq Els(q)
               /\ r # <<>> => q[Len(q)] = r[Len(r)]
<1> DEFINE a == [do |-> "lock"]
           b == [do |-> "detach"]
           c == [do |-> "attach", name |-> name]
           d == [do |-> "unlock"]
           p == <<a, b, c, d>>
<1>1. SetTrigger(name) = p
  BY DEF SetTrigger
<1>2. a \in AnyStep /\ b \in AnyStep /\ c \in AnyStep /\ d \in AnyStep
  <2>1. a \in WriterStep /\ b \in WriterStep /\ c \in WriterStep /\ d \in WriterStep
    BY DEF WriterStep
  <2> QED
    BY <2>1, StepKinds
<1>3. /\ a.do \in {"lock", "detach", "unlock"} /\ b.do \in {"lock", "detach", "unlock"}
      /\ d.do \in {"lock", "detach", "unlock"} /\ c.do = "attach" /\ c.name = name
  OBVIOUS
<1> HIDE DEF a, b, c, d
<1>4. p \in Seq(AnyStep) /\ Els(p) = {a, b, c, d}
  BY <1>2 DEF Els
<1> HIDE DEF p
<1>5. Els(p \o r) = Els(p) \cup Els(r)
  BY <1>4, ElsCat
<1>6. r # <<>> => (p \o r)[Len(p \o r)] = r[Len(r)]
  BY <1>4, LastCat
<1> QED
  BY <1>1, <1>3, <1>4, <1>5, <1>6

\* Which of the four files is next.
LEMMA WriteStages ==
    ASSUME SuffixInv, Write
    PROVE  LET s == Target
               b == [to |-> "on", v |-> s.on]
               c == [to |-> "off", v |-> s.off]
               d == [to |-> "brightness", v |-> s.level]
           IN  /\ UNCHANGED <<notification, battery, meddled, meddles>>
               /\ \/ /\ writes = Writes(s)
                     /\ IF s.flash THEN StoreTrigger(Hal, "timer") /\ writes' = <<b, c, d>>
                        ELSE StoreTrigger(Hal, "none") /\ writes' = <<d>>
                  \/ /\ s.flash /\ writes = <<b, c, d>> /\ writes' = <<c, d>>
                     /\ StoreDelay(Hal, "on", s.on)
                  \/ /\ s.flash /\ writes = <<c, d>> /\ writes' = <<d>>
                     /\ StoreDelay(Hal, "off", s.off)
                  \/ /\ writes = <<d>> /\ writes' = <<>> /\ StoreBrightness(Hal, s.level)
<1> DEFINE s == Target
           a == [to |-> "trigger", v |-> "timer"]
           n == [to |-> "trigger", v |-> "none"]
           b == [to |-> "on", v |-> s.on]
           c == [to |-> "off", v |-> s.off]
           d == [to |-> "brightness", v |-> s.level]
<1>1. /\ writes # <<>> /\ writes' = Tail(writes)
      /\ UNCHANGED <<notification, battery, meddled, meddles>>
  BY DEF Write
<1>2. /\ Head(writes) = a => StoreTrigger(Hal, "timer")
      /\ Head(writes) = n => StoreTrigger(Hal, "none")
      /\ Head(writes) = b => StoreDelay(Hal, "on", s.on)
      /\ Head(writes) = c => StoreDelay(Hal, "off", s.off)
      /\ Head(writes) = d => StoreBrightness(Hal, s.level)
  <2> HIDE DEF s
  <2>1. LET w == Head(writes)
        IN  CASE w.to = "trigger" -> StoreTrigger(Hal, w.v)
              [] w.to = "brightness" -> StoreBrightness(Hal, w.v)
              [] OTHER -> StoreDelay(Hal, w.to, w.v)
    BY DEF Write
  <2>2. CASE Head(writes) = a
    BY <2>1, <2>2
  <2>3. CASE Head(writes) = n
    BY <2>1, <2>3
  <2>4. CASE Head(writes) = b
    BY <2>1, <2>4
  <2>5. CASE Head(writes) = c
    BY <2>1, <2>5
  <2>6. CASE Head(writes) = d
    BY <2>1, <2>6
  <2> QED
    BY <2>2, <2>3, <2>4, <2>5, <2>6
<1>3. Writes(s) = (IF s.flash THEN <<a, b, c>> ELSE <<n>>) \o <<d>>
  BY DEF Writes
<1>4. \/ writes = Writes(s) \/ writes = <<d>>
      \/ s.flash /\ (writes = <<b, c, d>> \/ writes = <<c, d>>)
  BY <1>1 DEF SuffixInv, Suffixes
<1> HIDE DEF a, b, c, d, n
<1>5. /\ Head(<<d>>) = d /\ Tail(<<d>>) = <<>>
      /\ Head(<<c, d>>) = c /\ Tail(<<c, d>>) = <<d>>
      /\ Head(<<b, c, d>>) = b /\ Tail(<<b, c, d>>) = <<c, d>>
  OBVIOUS
<1>6. s.flash => Head(Writes(s)) = a /\ Tail(Writes(s)) = <<b, c, d>>
  <2>1. <<a, b, c>> \o <<d>> = <<a, b, c, d>>
    <3>1. a \in {a, b, c, d} /\ b \in {a, b, c, d} /\ c \in {a, b, c, d} /\ d \in {a, b, c, d}
      OBVIOUS
    <3> QED
      BY <3>1, Quadruple
  <2>2. Head(<<a, b, c, d>>) = a /\ Tail(<<a, b, c, d>>) = <<b, c, d>>
    OBVIOUS
  <2> QED
    BY <1>3, <2>1, <2>2
<1>7. ~s.flash => Head(Writes(s)) = n /\ Tail(Writes(s)) = <<d>>
  <2>1. <<n>> \o <<d>> = <<n, d>>
    <3>1. n \in {n, d} /\ d \in {n, d}
      OBVIOUS
    <3> QED
      BY <3>1, Pair
  <2>2. Head(<<n, d>>) = n /\ Tail(<<n, d>>) = <<d>>
    OBVIOUS
  <2> QED
    BY <1>3, <2>1, <2>2
<1>8. CASE writes = Writes(s)
  BY <1>1, <1>2, <1>6, <1>7, <1>8 DEF b, c, d
<1>9. CASE writes = <<d>>
  BY <1>1, <1>2, <1>5, <1>9 DEF b, c, d
<1>10. CASE s.flash /\ writes = <<b, c, d>>
  BY <1>1, <1>2, <1>5, <1>10 DEF b, c, d
<1>11. CASE s.flash /\ writes = <<c, d>>
  BY <1>1, <1>2, <1>5, <1>11 DEF b, c, d
<1> QED
  BY <1>4, <1>8, <1>9, <1>10, <1>11

LEMMA SuffixNext ==
    ASSUME SuffixInv, Write
    PROVE  SuffixInv' /\ Target' = Target
<1>1. Target' = Target
  BY WriteStages DEF Target, Prefer
<1>2. writes' \in Suffixes(Target)
  BY WriteStages DEF Suffixes
<1> QED
  BY <1>1, <1>2 DEF SuffixInv

LEMMA HalBegins ==
    ASSUME TypeInv, NEW q \in Seq(WriterStep), Begin(Hal, q)
    PROVE  /\ \A u \in {Shell, Timer, Power} : steps'[u] = steps[u]
           /\ steps'[Hal] = q
           /\ Todo = {} /\ K(Hal) = {} /\ Todo' = Els(q) /\ K(Hal)' = Kind(q)
<1>1. Hal \in Writers /\ {Shell, Timer, Power} \subseteq Tasks \ {Hal}
  BY LightsWriters, LedTasks DEF Tasks
<1>2. steps[Hal] = <<>> /\ steps' = [steps EXCEPT ![Hal] = q]
  BY DEF Begin, Idle
<1>3. steps'[Hal] = q /\ \A u \in {Shell, Timer, Power} : steps'[u] = steps[u]
  BY <1>1, <1>2, SetWriter DEF TypeInv
<1>4. Todo = {} /\ K(Hal) = {}
  BY <1>2, ElsSmall, EmptyKind DEF Todo, K
<1>5. Todo' = Els(q) /\ K(Hal)' = Kind(q)
  BY <1>3 DEF Todo, K
<1> QED
  BY <1>3, <1>4, <1>5

\* The trigger, the first file.
LEMMA FirstShown ==
    ASSUME TypeInv, ShownInv, SuffixInv', Target' = Target, meddled' = meddled,
           StoreTrigger(Hal, IF Target.flash THEN "timer" ELSE "none"),
           Len(writes') = IF Target.flash THEN 3 ELSE 1
    PROVE  ShownInv'
<1> DEFINE name == IF Target.flash THEN "timer" ELSE "none"
           q == SetTrigger(name) \o <<>>
<1>1. name \in {"none", "timer"} /\ (Flashes => name = Want) /\ (~Target.flash => name = Want)
  BY DEF Flashes, Want
<1> HIDE DEF name
<1>2. <<>> \in Seq(WriterStep) /\ <<>> \in Seq(AnyStep)
  OBVIOUS
<1>3. q \in Seq(WriterStep) /\ Kind(q) = {"lock", "detach", "attach", "unlock"}
  BY <1>1, <1>2, EmptyKind, TriggerProgram
<1>4. \A d \in Els(q) : d.do = "attach" => d.name = name
  BY <1>1, <1>2, ElsSmall, TriggerEls
<1>5. SetTrigger(name) = q
  BY DEF SetTrigger
<1> HIDE DEF q
<1>6. Begin(Hal, q)
  BY <1>5 DEF StoreTrigger, name
<1>7. Todo' = Els(q) /\ K(Hal)' = Kind(q)
  BY <1>3, <1>6, HalBegins
<1>8. Want' = Want /\ (Flashes' <=> Flashes)
  BY DEF Want, Flashes
<1>9. writes' # <<>> /\ (Flashes => ~(Len(writes') <= 2))
  <2>1. Len(<<>>) = 0
    OBVIOUS
  <2> QED
    BY <2>1 DEF Flashes
<1>10. ChosenInv'
  BY <1>1, <1>3, <1>4, <1>7, <1>8, <1>9 DEF ChosenInv
<1>11. BlinkInv'
  BY <1>3, <1>7 DEF BlinkInv
<1>12. SteadyInv'
  BY <1>9 DEF SteadyInv
<1> QED
  BY <1>10, <1>11, <1>12 DEF ShownInv

\* The delays of a light that flashes, or of one that does not on this LED.
LEMMA DelayShown ==
    ASSUME TypeInv, ShownInv, SuffixInv', Target' = Target, meddled' = meddled, Target.flash,
           NEW attr \in {"on", "off"}, NEW v \in Nat, StoreDelay(Hal, attr, v),
           writes # Writes(Target), writes' # <<>>, Len(writes') <= 2,
           HalAlone /\ Flashes /\ files /\ delayOn = Goal.on /\ delayOff = Goal.off
           => Asked(attr, v).on = Goal'.on /\ Asked(attr, v).off = Goal'.off
    PROVE  ShownInv'
<1> DEFINE a == [do |-> "delete"]
           b == [do |-> "blink", attr |-> attr, v |-> v]
           c == [do |-> "assign", attr |-> attr, v |-> v]
           q == IF files THEN <<a, b, c>> ELSE <<>>
<1>1. a.do = "delete" /\ b.do = "blink" /\ c.do = "assign" /\ b.attr = attr /\ b.v = v
  OBVIOUS
<1>2. /\ DelayStore(attr, v) = <<a, b, c>> /\ <<a, b, c>> \in Seq(WriterStep)
      /\ Kind(<<a, b, c>>) = {"delete", "blink", "assign"}
  BY DelayProgram
<1> HIDE DEF a, b, c
<1>3. q \in Seq(WriterStep) /\ Kind(q) = IF files THEN {"delete", "blink", "assign"} ELSE {}
  <2>1. <<>> \in Seq(WriterStep) /\ Kind(<<>>) = {}
    BY EmptyKind
  <2> QED
    BY <1>2, <2>1
<1>4. Els(q) = IF files THEN {a, b, c} ELSE {}
  <2>1. Els(<<a, b, c>>) = {a, b, c} /\ Els(<<>>) = {}
    BY ElsSmall
  <2> QED
    BY <2>1
<1>5. Begin(Hal, q) /\ UNCHANGED <<fields, armed, files, lock, lit, lost>>
  BY <1>2 DEF StoreDelay
<1> HIDE DEF q
<1>6. /\ \A u \in {Shell, Timer, Power} : steps'[u] = steps[u]
      /\ Todo = {} /\ K(Hal) = {} /\ Todo' = Els(q) /\ K(Hal)' = Kind(q)
  BY <1>3, <1>5, HalBegins
<1>7. UNCHANGED <<delayOn, delayOff, trigger, data, armed, files, lost>>
  BY <1>5 DEF fields
<1>8. HalAlone' => HalAlone
  BY <1>6 DEF HalAlone, Idle
<1>9. Want' = Want /\ (Flashes' <=> Flashes)
  BY DEF Want, Flashes
<1>10. /\ \A d \in Todo' : d.do \notin {"attach", "delays"} /\ d.do \in {"delete", "blink", "assign"}
       /\ \A d \in Todo' : d.do = "blink" => d = b
       /\ "attach" \notin K(Hal)' /\ "data" \notin K(Hal)'
       /\ "attach" \notin K(Hal) /\ "data" \notin K(Hal) /\ ~Busy
       /\ (files => Busy') /\ (~files => Todo' = {} /\ ~Busy')
  <2>1. /\ \A d \in Todo' : d.do \in {"delete", "blink", "assign"} /\ (d.do = "blink" => d = b)
    BY <1>1, <1>4, <1>6
  <2>2. ~Busy /\ (files => Busy') /\ (~files => Todo' = {} /\ ~Busy')
    BY <1>3, <1>4, <1>6 DEF Busy
  <2> QED
    BY <2>1, <2>2, <1>3, <1>6
<1>11. ChosenInv'
  BY <1>6, <1>7, <1>8, <1>9, <1>10 DEF ShownInv, ChosenInv, Flashes
<1>12. Agrees'
  BY <1>10 DEF Agrees, Free
<1>13. Ticks => Ticks'
  BY <1>6, <1>7, <1>10 DEF Ticks
<1>14. HalAlone' /\ Flashes /\ files => Asks'
  <2> SUFFICES ASSUME HalAlone', Flashes, files PROVE Asks'
    OBVIOUS
  <2>1. Asks
    BY <1>8, <1>10 DEF ShownInv, BlinkInv
  <2>2. delayOn = Goal.on /\ delayOff = Goal.off
    BY <2>1, <1>10 DEF Asks
  <2>3. Asked(attr, v)' = Asked(attr, v)
    BY <1>7 DEF Asked
  <2>4. Meets(Asked(b.attr, b.v))'
    BY <2>2, <2>3, <1>1, <1>8 DEF Meets
  <2> QED
    BY <2>4, <1>10 DEF Asks
<1>15. BlinkInv'
  BY <1>7, <1>8, <1>9, <1>10, <1>12, <1>13, <1>14 DEF ShownInv, BlinkInv
<1>16. SteadyInv'
  BY DEF SteadyInv
<1> QED
  BY <1>11, <1>15, <1>16 DEF ShownInv

\* The brightness, the last file.
LEMMA LastShown ==
    ASSUME TypeInv, ShownInv, SuffixInv', Target' = Target, meddled' = meddled,
           StoreBrightness(Hal, Target.level), Target.level \in 0..Full,
           writes # Writes(Target), writes' = <<>>, Len(writes) = 1
    PROVE  ShownInv'
<1> DEFINE e == [do |-> "level", v |-> Target.level]
           r == <<e>>
           s == SetTrigger("none") \o r
           q == IF Target.level = 0 THEN s ELSE r
<1>1. e.do = "level" /\ e.v = Target.level
  OBVIOUS
<1>2. SetBrightness(Target.level) = r
  BY DEF SetBrightness
<1>3. r \in Seq(WriterStep) /\ Ordered(r) /\ AssignLast(r) /\ Kind(r) = {}
  <2>1. Target.level \in Nat
    BY LedValues
  <2> QED
    BY <2>1, <1>2, LevelProgram
<1>4. BrightnessStore(Target.level) = q
  <2>1. BrightnessStore(Target.level) = (IF Target.level = 0 THEN SetTrigger("none") ELSE <<>>) \o r
    BY <1>2 DEF BrightnessStore
  <2> HIDE DEF e
  <2>2. <<>> \o r = r
    BY <1>3, Cat0
  <2> QED
    BY <2>1, <2>2
<1> HIDE DEF e
<1>5. r \in Seq(AnyStep) /\ Els(r) = {e} /\ r # <<>> /\ r[Len(r)] = e
  <2>1. r \in Seq(AnyStep)
    BY <1>3, StepKinds
  <2> QED
    BY <2>1, ElsSmall
<1> HIDE DEF r
<1>6. /\ s \in Seq(WriterStep) /\ Kind(s) = {"lock", "detach", "attach", "unlock"}
      /\ \A d \in Els(s) : \/ d = e
                           \/ d.do \in {"lock", "detach", "unlock"}
                           \/ d.do = "attach" /\ d.name = "none"
      /\ e \in Els(s) /\ s[Len(s)] = e
  BY <1>3, <1>5, TriggerProgram, TriggerEls
<1> HIDE DEF s
<1>7. /\ q \in Seq(WriterStep) /\ e \in Els(q) /\ q[Len(q)] = e
      /\ Kind(q) = IF Target.level = 0 THEN {"lock", "detach", "attach", "unlock"} ELSE {}
      /\ \A d \in Els(q) : \/ d = e
                           \/ d.do \in {"lock", "detach", "unlock"} /\ Target.level = 0
                           \/ d.do = "attach" /\ d.name = "none" /\ Target.level = 0
  BY <1>3, <1>5, <1>6
<1> HIDE DEF q
<1>8. Awake /\ Begin(Hal, q) /\ UNCHANGED <<fields, armed, files, lock, lit, lost>>
  BY <1>4 DEF StoreBrightness
<1>9. /\ \A u \in {Shell, Timer, Power} : steps'[u] = steps[u]
      /\ steps'[Hal] = q
      /\ Todo = {} /\ K(Hal) = {} /\ Todo' = Els(q) /\ K(Hal)' = Kind(q)
  BY <1>7, <1>8, HalBegins
<1>10. UNCHANGED <<delayOn, delayOff, trigger, data, suspended, armed, files, lost>>
  BY <1>8 DEF fields
<1>11. HalAlone' => HalAlone
  BY <1>9 DEF HalAlone, Idle
<1>12. Want' = Want /\ (Flashes' <=> Flashes)
  BY DEF Want, Flashes
<1>13. SteadyInv'
  <2>1. Awake'
    BY <1>8, <1>9, <1>10 DEF Awake, Idle
  <2>2. \A d \in Todo' : d.do \in {"level", "drive", "gpio"} => d.v = Target.level
    BY <1>1, <1>7, <1>9
  <2>3. "attach" \in K(Hal)' => Target.level = 0 /\ steps'[Hal][Len(steps'[Hal])].do = "level"
    BY <1>1, <1>7, <1>9
  <2>4. Has("level")'
    BY <1>1, <1>7, <1>9 DEF Has
  <2> QED
    BY <2>1, <2>2, <2>3, <2>4 DEF SteadyInv
<1>14. ChosenInv'
  <2> SUFFICES ASSUME HalAlone'
               PROVE  /\ \A d \in Todo' : d.do = "attach" => d.name = Want
                      /\ trigger = Want \/ "attach" \in K(Hal)'
                      /\ Flashes => "attach" \notin K(Hal)'
    BY <1>10, <1>12 DEF ChosenInv
  <2>1. CASE Target.level = 0
    BY <2>1, <1>1, <1>7, <1>9 DEF Want, Flashes
  <2>2. CASE Target.level # 0
    <3>1. trigger = Want
      BY <2>2, <1>9, <1>11 DEF ShownInv, ChosenInv, Flashes
    <3> QED
      BY <2>2, <3>1, <1>1, <1>7, <1>9
  <2> QED
    BY <2>1, <2>2
<1>15. BlinkInv'
  <2> SUFFICES ASSUME HalAlone', "attach" \notin K(Hal)' PROVE Agrees' /\ Ticks' /\ (Flashes' /\ files' => Asks')
    BY DEF BlinkInv
  <2>1. Target.level # 0 /\ K(Hal)' = {}
    BY <1>7, <1>9
  <2>2. \A d \in Todo' : d.do = "level"
    BY <2>1, <1>1, <1>7, <1>9
  <2>3. ~Busy /\ ~Busy'
    BY <2>1, <1>9 DEF Busy
  <2>4. Agrees'
    BY <2>1, <2>2 DEF Agrees
  <2>5. Ticks /\ (Flashes /\ files => Asks)
    BY <1>9, <1>11 DEF ShownInv, BlinkInv
  <2>6. Ticks'
    BY <2>1, <2>3, <2>5, <1>9, <1>10 DEF Ticks
  <2>7. Goal' = Goal
    <3>1. Len(writes') = 0
      OBVIOUS
    <3> QED
      BY <3>1 DEF Goal
  <2>8. Flashes' /\ files' => Asks'
    BY <2>2, <2>3, <2>5, <2>7, <1>10, <1>12 DEF Asks
  <2> QED
    BY <2>4, <2>6, <2>8
<1> QED
  BY <1>13, <1>14, <1>15 DEF ShownInv

LEMMA WriteShown ==
    ASSUME TypeInv, HalOK, ShownInv, Write
    PROVE  ShownInv'
<1> DEFINE s == Target
           b == [to |-> "on", v |-> s.on]
           c == [to |-> "off", v |-> s.off]
           d == [to |-> "brightness", v |-> s.level]
<1>1. SuffixInv' /\ Target' = Target /\ meddled' = meddled
  BY SuffixNext DEF Write, ShownInv
<1>2. Known(s)
  <2>1. Target \in States \cup {Dark}
    BY DEF Target, Prefer, HalOK
  <2> QED
    BY <2>1, KnownStates
<1>3. /\ s.flash \in BOOLEAN /\ s.level \in 0..Full /\ s.on \in Nat /\ s.off \in Nat
  BY <1>2 DEF Known
<1>4. \/ /\ writes = Writes(s)
         /\ IF s.flash THEN StoreTrigger(Hal, "timer") /\ writes' = <<b, c, d>>
            ELSE StoreTrigger(Hal, "none") /\ writes' = <<d>>
      \/ /\ s.flash /\ writes = <<b, c, d>> /\ writes' = <<c, d>>
         /\ StoreDelay(Hal, "on", s.on)
      \/ /\ s.flash /\ writes = <<c, d>> /\ writes' = <<d>>
         /\ StoreDelay(Hal, "off", s.off)
      \/ /\ writes = <<d>> /\ writes' = <<>> /\ StoreBrightness(Hal, s.level)
  BY WriteStages DEF ShownInv
<1>5. Writes(s) = (IF s.flash THEN <<[to |-> "trigger", v |-> "timer"], b, c>>
                   ELSE <<[to |-> "trigger", v |-> "none"]>>) \o <<d>>
  BY DEF Writes
<1> HIDE DEF b, c, d
<1>6. /\ Len(<<d>>) = 1 /\ Len(<<c, d>>) = 2 /\ Len(<<b, c, d>>) = 3 /\ Len(<<>>) = 0
      /\ <<d>> # <<>> /\ <<c, d>> # <<>>
  OBVIOUS
<1>7. Len(Writes(s)) = IF s.flash THEN 4 ELSE 2
  BY <1>5
<1>8. CASE /\ writes = Writes(s)
           /\ IF s.flash THEN StoreTrigger(Hal, "timer") /\ writes' = <<b, c, d>>
              ELSE StoreTrigger(Hal, "none") /\ writes' = <<d>>
  <2>1. StoreTrigger(Hal, IF s.flash THEN "timer" ELSE "none")
    BY <1>3, <1>8
  <2>2. Len(writes') = IF s.flash THEN 3 ELSE 1
    BY <1>3, <1>6, <1>8
  <2> QED
    BY <1>1, <2>1, <2>2, FirstShown
<1>9. CASE /\ s.flash /\ writes = <<b, c, d>> /\ writes' = <<c, d>>
           /\ StoreDelay(Hal, "on", s.on)
  <2>1. Len(writes) = 3 /\ Len(writes') = 2 /\ writes' # <<>>
    BY <1>6, <1>9
  <2>2. writes # Writes(s)
    BY <1>7, <1>9, <2>1
  <2>3. Goal = [on |-> Default, off |-> Default] /\ Goal' = [on |-> s.on, off |-> Default]
    BY <1>1, <2>1 DEF Goal
  <2>4. delayOff = Goal.off => Asked("on", s.on).on = Goal'.on /\ Asked("on", s.on).off = Goal'.off
    BY <2>3, LedValues DEF Asked
  <2> HIDE DEF s
  <2> QED
    BY <1>1, <1>3, <1>9, <2>1, <2>2, <2>4, DelayShown DEF s
<1>10. CASE /\ s.flash /\ writes = <<c, d>> /\ writes' = <<d>>
            /\ StoreDelay(Hal, "off", s.off)
  <2>1. Len(writes) = 2 /\ Len(writes') = 1 /\ writes' # <<>>
    BY <1>6, <1>10
  <2>2. writes # Writes(s)
    BY <1>7, <1>10, <2>1
  <2>3. /\ Goal = [on |-> s.on, off |-> Default]
        /\ Goal' = LET none == s.on = 0 /\ s.off = 0
                   IN  [on |-> IF none THEN Default ELSE s.on,
                        off |-> IF none THEN Default ELSE s.off]
    BY <1>1, <2>1 DEF Goal
  <2>4. delayOn = Goal.on => Asked("off", s.off).on = Goal'.on /\ Asked("off", s.off).off = Goal'.off
    BY <2>3 DEF Asked
  <2> HIDE DEF s
  <2> QED
    BY <1>1, <1>3, <1>10, <2>1, <2>2, <2>4, DelayShown DEF s
<1>11. CASE writes = <<d>> /\ writes' = <<>> /\ StoreBrightness(Hal, s.level)
  <2>1. Len(writes) = 1
    BY <1>6, <1>11
  <2>2. writes # Writes(s)
    BY <1>7, <2>1
  <2> QED
    BY <1>1, <1>3, <1>11, <2>1, <2>2, LastShown
<1> QED
  BY <1>4, <1>8, <1>9, <1>10, <1>11

\* Others are not alone with the LED.
LEMMA Meddled ==
    ASSUME SuffixInv, meddled', UNCHANGED <<notification, battery, writes>>
    PROVE  ShownInv'
<1>1. SuffixInv'
  BY DEF SuffixInv, Target, Prefer
<1>2. ~HalAlone'
  BY DEF HalAlone
<1> QED
  BY <1>1, <1>2 DEF ShownInv, BlinkInv, ChosenInv, SteadyInv

LEMMA SetShown ==
    ASSUME NEW n, NEW b, SetLight(n, b)
    PROVE  ShownInv'
<1>1. notification' = n /\ battery' = b /\ writes' = Writes(Prefer(n, b))
  BY DEF SetLight
<1>2. Target' = Prefer(n, b)
  BY <1>1 DEF Target, Prefer
<1>3. SuffixInv'
  BY <1>1, <1>2 DEF SuffixInv, Suffixes
<1>4. ~HalAlone'
  BY <1>1, <1>2 DEF HalAlone
<1> QED
  BY <1>3, <1>4 DEF ShownInv, BlinkInv, ChosenInv, SteadyInv

LEMMA ShownNext ==
    ASSUME LightsInv, ShownInv, [Next]_allVars
    PROVE  ShownInv'
<1>1. TypeInv /\ TriggerInv /\ HalOK /\ SuffixInv
  BY DEF LightsInv, ShownInv
<1>2. CASE SetNotification \/ SetBattery
  BY <1>2, SetShown DEF SetNotification, SetBattery
<1>3. CASE Write
  BY <1>1, <1>3, WriteShown
<1>4. CASE ShellTrigger \/ ShellBrightness \/ Sleep \/ WakeUp
  <2>1. meddled' /\ UNCHANGED <<notification, battery, writes>>
    BY <1>4 DEF ShellTrigger, ShellBrightness, Sleep, WakeUp, Meddle
  <2> QED
    BY <1>1, <2>1, Meddled
<1>5. CASE Blinks
  <2>1. Fire /\ UNCHANGED <<notification, battery, writes, meddled>>
    BY <1>5 DEF Blinks, hal
  <2> QED
    BY <1>1, <2>1, FireShown
<1>6. ASSUME NEW t \in Tasks, Continue(t) PROVE ShownInv'
  <2>1. Step(t) /\ meddled' = (meddled \/ t = Shell) /\ UNCHANGED <<notification, battery, writes>>
    BY <1>6 DEF Continue
  <2>2. CASE t = Shell
    BY <1>1, <2>1, <2>2, Meddled
  <2>3. CASE t # Shell
    <3>1. meddled' = meddled
      BY <2>1, <2>3, <1>1 DEF HalOK
    <3>2. t = Hal \/ t \in {Timer, Power}
      BY <2>3, LightsWriters DEF Tasks
    <3> QED
      BY <1>1, <2>1, <3>1, <3>2, HalSteps, OtherShown
  <2> QED
    BY <2>2, <2>3
<1>7. CASE UNCHANGED allVars
  <2>1. /\ UNCHANGED <<notification, battery, writes, meddled>> /\ steps' = steps
        /\ UNCHANGED <<brightness, delayOn, delayOff, trigger, data, suspended, armed, files, lit,
                       lost>>
    BY <1>7 DEF allVars, vars, hal, fields
  <2>2. Ticks => Ticks'
    BY <2>1 DEF Ticks, Busy, K
  <2>3. SuffixInv' /\ BlinkInv' /\ ChosenInv' /\ Todo' = Todo /\ K(Hal)' = K(Hal)
    BY <2>1, <2>2, BlinkLeft
  <2>4. SteadyInv'
    BY <2>1, <2>3, SteadyKept DEF ShownInv, Idle
  <2> QED
    BY <2>3, <2>4 DEF ShownInv
<1> QED
  BY <1>2, <1>3, <1>4, <1>5, <1>6, <1>7 DEF Next

\* What the HAL has left to do comes to what it was called for: the trigger, the
\* delays and the level that its files make of the LED when nobody else writes it.
THEOREM ShownInvAlways == Spec => []ShownInv
<1>1. LightsInit => ShownInv
  <2> SUFFICES ASSUME LightsInit PROVE ShownInv
    OBVIOUS
  <2>1. writes = <<>> /\ meddled = TRUE
    BY DEF LightsInit
  <2>2. SuffixInv
    BY <2>1 DEF SuffixInv, Suffixes
  <2> QED
    BY <2>1, <2>2 DEF ShownInv, BlinkInv, ChosenInv, SteadyInv, HalAlone
<1>2. LightsInv /\ ShownInv /\ [Next]_allVars => ShownInv'
  BY ShownNext
<1> QED
  BY <1>1, <1>2, TriggerInvAlways, PTL DEF Spec

LEMMA SettledAlone ==
    ASSUME TypeInv, SuffixInv, Settled
    PROVE  HalAlone /\ writes = <<>> /\ steps[Hal] = <<>> /\ Todo = {} /\ K(Hal) = {} /\ ~Busy
<1>1. writes = <<>> /\ steps[Hal] = <<>> /\ Idle(Shell) /\ ~meddled
  BY LightsWriters DEF Settled, Idle
<1>2. writes # Writes(Target)
  <2> DEFINE d == [to |-> "brightness", v |-> Target.level]
  <2>1. \E q : Writes(Target) = q \o <<d>> /\ (q = <<[to |-> "trigger", v |-> "timer"],
           [to |-> "on", v |-> Target.on], [to |-> "off", v |-> Target.off]>>
           \/ q = <<[to |-> "trigger", v |-> "none"]>>)
    BY DEF Writes
  <2> HIDE DEF d
  <2> QED
    BY <1>1, <2>1
<1>3. Todo = {} /\ K(Hal) = {}
  BY <1>1, ElsSmall, EmptyKind DEF Todo, K
<1> QED
  BY <1>1, <1>2, <1>3 DEF HalAlone, Busy

\* With the timer trigger and two delays the LED blinks on, once the HAL has written
\* what it wanted: a store that stopped the timer and found the delays as they were
\* (led_blink_set, led_set_software_blink) is the only way to lose it.
THEOREM BlinksAlways == Spec => []BlinksUnlessLost
<1>1. LightsInv /\ ShownInv => BlinksUnlessLost
  <2> SUFFICES ASSUME LightsInv, ShownInv,
                      Settled, trigger = "timer", data, delayOn # 0, delayOff # 0
               PROVE  armed \/ ~Idle(Timer) \/ lost
    BY DEF BlinksUnlessLost
  <2>1. HalAlone /\ K(Hal) = {} /\ ~Busy
    BY SettledAlone DEF LightsInv, ShownInv
  <2>2. armed \/ lost \/ \E d \in Els(steps[Timer]) : d.do = "rearm"
    BY <2>1 DEF ShownInv, BlinkInv, Ticks
  <2>3. Idle(Timer) => Els(steps[Timer]) = {}
    BY ElsSmall DEF Idle
  <2> QED
    BY <2>2, <2>3
<1> QED
  BY <1>1, TriggerInvAlways, ShownInvAlways, PTL

\* What the HAL has set is what the LED shows, when nobody else has written it
\* (set_shared_light_locked over the stores of the LED class): dark or steady at its
\* level, or with the timer trigger and the delays asked for, the default ones for
\* none.
THEOREM ShownAlways == Spec => []ShownWhenSet
<1>1. LightsInv /\ ShownInv => ShownWhenSet
  <2> SUFFICES ASSUME LightsInv, ShownInv, Settled PROVE Shows(Target)
    BY DEF ShownWhenSet, Target
  <2>1. HalAlone /\ writes = <<>> /\ Todo = {} /\ K(Hal) = {} /\ ~Busy
    BY SettledAlone DEF LightsInv, ShownInv
  <2>2. Known(Target)
    <3>1. Target \in States \cup {Dark}
      BY DEF Target, Prefer, LightsInv, HalOK
    <3> QED
      BY <3>1, KnownStates
  <2>3. Target.flash \in BOOLEAN
    BY <2>2 DEF Known
  <2>4. trigger = Want
    BY <2>1 DEF ShownInv, ChosenInv
  <2>5. ~Flashes => brightness = Target.level /\ lit = (Target.level # 0)
    BY <2>1 DEF ShownInv, SteadyInv, Has
  <2>6. Flashes /\ files => delayOn = Goal.on /\ delayOff = Goal.off
    BY <2>1 DEF ShownInv, BlinkInv, Asks
  <2>7. Goal = LET none == Target.on = 0 /\ Target.off = 0
               IN  [on |-> IF none THEN Default ELSE Target.on,
                    off |-> IF none THEN Default ELSE Target.off]
    <3>1. Len(writes) = 0
      BY <2>1
    <3> QED
      BY <3>1 DEF Goal
  <2> QED
    BY <2>3, <2>4, <2>5, <2>6, <2>7 DEF Shows, Want, Flashes
<1> QED
  BY <1>1, TriggerInvAlways, ShownInvAlways, PTL
===============================================================================
