--------------------------- MODULE Application_proofs ---------------------------
(***************************************************************************)
(* Proofs about what a program gets from outside: in Application the       *)
(* signals, of which a daemon stops only for one that it handled, whatever *)
(* their number, and in StringTo the numbers of its options and of its     *)
(* configuration, which are what their texts mean, whatever the digits,    *)
(* their number, the suffixes and the widths.                              *)
(***************************************************************************)
EXTENDS Application, StringTo, SequenceTheorems, WellFoundedInduction, TLAPS

-----------------------------------------------------------------------------
(* Signals.                                                                *)

\* The places of the steps that the proofs tell apart.
LEMMA Steps ==
    /\ Len(Program) = 12
    /\ \A i \in 1..12 :
          /\ (Program[i] = "lock") = (i = 9)
          /\ (Program[i] = "wait") = (i = 10)
          /\ (Program[i] = "stop") = (i = 11)
BY DEF Program

\* The life cycle calls are steps of the program.
LifeCycleSteps == {"initialize", "start", "stop", "destroy"}

\* The type invariant holds initially.
LEMMA InitType == Init => TypeOK
<1> SUFFICES ASSUME Init PROVE TypeOK
  OBVIOUS
<1>1. <<>> \in Seq(LifeCycleSteps)
  OBVIOUS
<1>2. 0 \in 0..Len(Program)
  BY Steps
<1>. QED
  BY <1>1, <1>2, MaxSignalsAssumption DEF Init, TypeOK, LifeCycleSteps

\* Every step keeps the types.
LEMMA NextType == TypeOK /\ [Next]_vars => TypeOK'
<1> SUFFICES ASSUME TypeOK, [Next]_vars PROVE TypeOK'
  OBVIOUS
<1>. USE MaxSignalsAssumption, Steps DEF TypeOK
<1>1. CASE Prepare
  BY <1>1 DEF Prepare, Step
<1>2. ASSUME NEW step \in LifeCycleSteps, LifeCycle(step) PROVE TypeOK'
  <2>1. calls' \in Seq({"initialize", "start", "stop", "destroy"})
    BY <1>2 DEF LifeCycle, LifeCycleSteps
  <2>. QED
    BY <1>2, <2>1 DEF LifeCycle, Step
<1>3. ASSUME NEW step, NEW s \in Signal, Install(step, s) PROVE TypeOK'
  <2>1. installed' \subseteq Signal
    BY <1>3 DEF Install
  <2>. QED
    BY <1>3, <2>1 DEF Install, Step
<1>4. CASE Lock \/ Wait
  <2>1. pc < 12 /\ pc' = pc + 1 /\ mutex' = "locked"
    BY <1>4 DEF Lock, Wait, Step
  <2>2. UNCHANGED <<exited, installed, pending, signals, handled, calls>>
    BY <1>4 DEF Lock, Wait
  <2>. QED
    BY <2>1, <2>2
<1>5. CASE Return \/ Fails
  BY <1>5 DEF Return, Fails
<1>6. ASSUME NEW s \in Signal, Raise(s) PROVE TypeOK'
  BY <1>6 DEF Raise
<1>7. ASSUME NEW s \in Signal, Deliver(s) PROVE TypeOK'
  BY <1>7 DEF Deliver, Unlocked
<1>8. CASE UNCHANGED vars
  BY <1>8 DEF vars
<1>. QED
  BY <1>1, <1>2, <1>3, <1>4, <1>5, <1>6, <1>7, <1>8
     DEF Next, Main, LifeCycleSteps, Signal

\* The variables keep their types for every number of signals.
THEOREM TypeCorrect == Spec => []TypeOK
BY InitType, NextType, PTL DEF Spec

-----------------------------------------------------------------------------
(* A mutex that the main thread has locked once was unlocked by a handler. *)

\* The calls made so far are those of steps that are done.
CallsInv == Stopped => pc >= 11

\* Between the two locks only a handled signal frees the mutex, and the second
\* lock is passed only when it is free.
MutexInv ==
    /\ pc = 9 /\ mutex = "free" => handled > 0
    /\ pc >= 10 => handled > 0

IInv == TypeOK /\ CallsInv /\ MutexInv

\* A call is added to those made before.
LEMMA StoppedNext ==
    ASSUME TypeOK, NEW step \in LifeCycleSteps, LifeCycle(step), Stopped'
    PROVE  Stopped \/ step = "stop"
<1>1. PICK i \in DOMAIN calls' : calls'[i] = "stop"
  BY DEF Stopped
<1>2. calls' = Append(calls, step) /\ calls \in Seq(LifeCycleSteps)
  BY DEF LifeCycle, TypeOK, LifeCycleSteps
<1>3. CASE i = Len(calls) + 1
  BY <1>1, <1>2, <1>3
<1>4. CASE i # Len(calls) + 1
  <2>1. i \in DOMAIN calls /\ calls'[i] = calls[i]
    BY <1>1, <1>2, <1>4
  <2>. QED
    BY <1>1, <2>1 DEF Stopped
<1>. QED
  BY <1>3, <1>4

\* Every step keeps the relation of the calls, the mutex and the signals handled.
LEMMA NextInv == IInv /\ [Next]_vars => IInv'
<1> SUFFICES ASSUME IInv, [Next]_vars PROVE CallsInv' /\ MutexInv'
  BY NextType DEF IInv
<1>0. TypeOK /\ CallsInv /\ MutexInv /\ pc \in 0..12 /\ handled \in Nat
  BY Steps DEF IInv, TypeOK
<1>1. ASSUME NEW step \in LifeCycleSteps, LifeCycle(step) PROVE CallsInv' /\ MutexInv'
  <2>1. pc' = pc + 1 /\ UNCHANGED <<mutex, handled>>
    BY <1>1 DEF LifeCycle, Step
  <2>2. pc' # 9 + 1 /\ pc' # 9 /\ (step = "stop" => pc' = 11)
    <3>1. pc + 1 \in 1..12 /\ Program[pc + 1] = step
      BY <1>0, <1>1, Steps DEF LifeCycle, Step
    <3>2. step # "lock" /\ step # "wait"
      BY <1>1 DEF LifeCycleSteps
    <3>. QED
      BY <1>0, <2>1, <3>1, <3>2, Steps
  <2>3. CallsInv'
    <3> SUFFICES ASSUME Stopped' PROVE pc' >= 11
      BY DEF CallsInv
    <3>1. Stopped \/ step = "stop"
      BY <1>0, <1>1, StoppedNext
    <3>. QED
      BY <1>0, <2>1, <2>2, <3>1 DEF CallsInv
  <2>4. MutexInv'
    BY <1>0, <2>1, <2>2 DEF MutexInv
  <2>. QED
    BY <2>3, <2>4
<1>2. CASE Prepare \/ Install("sigint", "SIGINT") \/ Install("sigquit", "SIGQUIT")
  <2>1. pc' = pc + 1 /\ UNCHANGED <<mutex, handled, calls>>
    BY <1>2 DEF Prepare, Install, Step
  <2>2. pc + 1 \in 1..12 /\ Program[pc + 1] # "lock" /\ Program[pc + 1] # "wait"
    BY <1>0, <1>2, Steps DEF Prepare, Install, Step
  <2>3. pc' # 9 /\ pc' # 10
    BY <1>0, <2>1, <2>2, Steps
  <2>. QED
    BY <1>0, <2>1, <2>3 DEF CallsInv, MutexInv, Stopped
<1>3. CASE Lock
  <2>1. pc' = pc + 1 /\ pc' = 9 /\ mutex' = "locked" /\ UNCHANGED calls
    BY <1>0, <1>3, Steps DEF Lock, Step
  <2>. QED
    BY <1>0, <2>1 DEF CallsInv, MutexInv, Stopped
<1>4. CASE Wait
  <2>1. pc = 9 /\ pc' = 10 /\ mutex = "free" /\ UNCHANGED <<handled, calls>>
    BY <1>0, <1>4, Steps DEF Wait, Step
  <2>. QED
    BY <1>0, <2>1 DEF CallsInv, MutexInv, Stopped
<1>5. ASSUME NEW s \in Signal, Deliver(s) PROVE CallsInv' /\ MutexInv'
  <2>1. UNCHANGED <<pc, calls>>
    BY <1>5 DEF Deliver
  <2>2. handled' = handled + 1 \/ UNCHANGED <<mutex, handled>>
    BY <1>5 DEF Deliver
  <2>. QED
    BY <1>0, <2>1, <2>2 DEF CallsInv, MutexInv, Stopped
<1>6. CASE Return \/ Fails \/ UNCHANGED vars \/ \E s \in Signal : Raise(s)
  <2>1. UNCHANGED <<pc, mutex, handled, calls>>
    BY <1>6 DEF Return, Fails, Raise, vars
  <2>. QED
    BY <1>0, <2>1 DEF CallsInv, MutexInv, Stopped
<1>. QED
  BY <1>1, <1>2, <1>3, <1>4, <1>5, <1>6 DEF Next, Main, LifeCycleSteps

\* A daemon is stopped only after it has handled a signal, whatever signals come
\* before its handlers are installed and however its start goes.
THEOREM StopIsSignalled == Spec => []StopsOnlyBySignal
<1>1. Init => IInv
  <2> SUFFICES ASSUME Init PROVE CallsInv /\ MutexInv
    BY InitType DEF IInv
  <2>. QED
    BY DEF Init, CallsInv, MutexInv, Stopped
<1>2. IInv => StopsOnlyBySignal
  <2> SUFFICES ASSUME IInv, Stopped PROVE handled > 0
    BY DEF StopsOnlyBySignal
  <2>. QED
    BY Steps DEF IInv, TypeOK, CallsInv, MutexInv
<1>. QED
  BY <1>1, <1>2, NextInv, PTL DEF Spec

-----------------------------------------------------------------------------
(* Induction over the natural numbers.                                     *)

\* The order of the natural numbers, as the theorems on well-founded sets have it.
LEMMA Smaller == \A m, n \in Nat : m < n => <<m, n>> \in OpToRel(<, Nat)
BY DEF OpToRel

\* Induction over a set of numbers.
LEMMA Induction ==
  ASSUME NEW S, 0 \in S, \A n \in Nat : n \in S => n + 1 \in S
  PROVE \A n \in Nat : n \in S
<1>. DEFINE T == Nat \ S
<1>. SUFFICES ASSUME T # {} PROVE FALSE
  OBVIOUS
<1>1. PICK x \in T : \A y \in T : ~ (<<y, x>> \in OpToRel(<, Nat))
  BY WFMin, NatLessThanWellFounded
<1>2. x \in Nat /\ x # 0 /\ x - 1 \in Nat /\ x - 1 < x
  OBVIOUS
<1>3. x - 1 \notin T
  BY <1>1, <1>2, Smaller
<1>. QED
  BY <1>2, <1>3

-----------------------------------------------------------------------------
(* Powers and the values of digits.                                        *)

\* A digit behind x.
Shifted(x, b, digit) == x * b + digit

\* It is a number.
LEMMA ShiftedType ==
    ASSUME NEW x \in Nat, NEW b \in Nat, NEW digit \in Nat
    PROVE  Shifted(x, b, digit) \in Nat
BY DEF Shifted

\* The first n numbers of a sequence, each made from the one before and a digit.
Goes(v, first, d, b, n) == v[0] = first /\ \A i \in 1..n : v[i] = Shifted(v[i - 1], b, d[i])

\* All but its last is one, and what the last is made from.
LEMMA GoesOn ==
    ASSUME NEW n \in Nat, NEW v, NEW first, NEW d, NEW b, Goes(v, first, d, b, n + 1)
    PROVE  Goes(v, first, d, b, n) /\ v[n + 1] = Shifted(v[n], b, d[n + 1])
<1>1. \A i \in 1..(n + 1) : v[i] = Shifted(v[i - 1], b, d[i])
  BY DEF Goes
<1>2. n + 1 \in 1..(n + 1) /\ (n + 1) - 1 = n /\ \A i \in 1..n : i \in 1..(n + 1)
  OBVIOUS
<1>3. v[n + 1] = Shifted(v[n], b, d[n + 1])
  BY <1>1, <1>2
<1>4. Goes(v, first, d, b, n)
  BY <1>1, <1>2 DEF Goes
<1>. QED
  BY <1>3, <1>4

\* The same, of numbers.
Values(v, first, d, b, n) == v \in [0..n -> Nat] /\ Goes(v, first, d, b, n)

\* The first n members are numbers.
AreDigits(d, n) == \A i \in 1..n : d[i] \in Nat

\* Another digit adds another number.
LEMMA ValuesOn ==
    ASSUME NEW n \in Nat, NEW v, NEW first, NEW d, NEW b \in Nat,
           Values(v, first, d, b, n), d[n + 1] \in Nat
    PROVE  \E w : Values(w, first, d, b, n + 1)
<1>. DEFINE w == [i \in 0..(n + 1) |-> IF i = n + 1 THEN Shifted(v[n], b, d[i]) ELSE v[i]]
<1>1. v \in [0..n -> Nat] /\ v[0] = first
      /\ \A i \in 1..n : v[i] = Shifted(v[i - 1], b, d[i])
  BY DEF Values, Goes
<1>2. Shifted(v[n], b, d[n + 1]) \in Nat
  <2>1. v[n] \in Nat
    BY <1>1
  <2>. QED
    BY <2>1, ShiftedType
<1>3. w \in [0..(n + 1) -> Nat]
  BY <1>1, <1>2
<1>4. w[0] = first
  BY <1>1
<1>5. ASSUME NEW i \in 1..(n + 1) PROVE w[i] = Shifted(w[i - 1], b, d[i])
  <2>1. CASE i = n + 1
    BY <2>1
  <2>2. CASE i # n + 1
    BY <1>1, <2>2
  <2>. QED
    BY <2>1, <2>2
<1>. HIDE DEF w
<1>6. Values(w, first, d, b, n + 1)
  BY <1>3, <1>4, <1>5 DEF Values, Goes
<1>. QED
  BY <1>6

\* There is such a sequence for any digits.
LEMMA ValuesExist ==
    ASSUME NEW b \in Nat, NEW first \in Nat, NEW n \in Nat, NEW d, AreDigits(d, n)
    PROVE  \E v : Values(v, first, d, b, n)
<1>. DEFINE Some(k) == \E v : Values(v, first, d, b, k)
           S == {k \in Nat : k <= n => Some(k)}
<1>1. 0 \in S
  <2>1. Values([i \in 0..0 |-> first], first, d, b, 0)
    BY DEF Values, Goes
  <2>. QED
    BY <2>1
<1>2. ASSUME NEW k \in Nat, k \in S PROVE k + 1 \in S
  <2>. SUFFICES ASSUME k + 1 <= n PROVE Some(k + 1)
    OBVIOUS
  <2>1. PICK v : Values(v, first, d, b, k)
    BY <1>2
  <2>2. d[k + 1] \in Nat
    BY DEF AreDigits
  <2>. QED
    BY <2>1, <2>2, ValuesOn
<1>. HIDE DEF S
<1>3. n \in S
  BY <1>1, <1>2, Induction
<1>. QED
  BY <1>3 DEF S

\* It is the only one, as far as the digits are the same.
LEMMA ValuesAgree ==
    ASSUME NEW b \in Nat, NEW k \in Nat, NEW first, NEW d, NEW e, NEW v, NEW w,
           Goes(v, first, d, b, k), Goes(w, first, e, b, k),
           \A i \in 1..k : d[i] = e[i]
    PROVE  v[k] = w[k]
<1>. DEFINE S == {j \in Nat : j <= k => v[j] = w[j]}
<1>1. 0 \in S
  BY DEF Goes
<1>2. ASSUME NEW j \in Nat, j \in S PROVE j + 1 \in S
  <2>. SUFFICES ASSUME j + 1 <= k PROVE v[j + 1] = w[j + 1]
    OBVIOUS
  <2>1. v[j] = w[j] /\ j + 1 \in 1..k /\ (j + 1) - 1 = j
    BY <1>2
  <2>2. /\ v[j + 1] = Shifted(v[j], b, d[j + 1])
        /\ w[j + 1] = Shifted(w[j], b, e[j + 1])
    BY <2>1 DEF Goes
  <2>. QED
    BY <2>1, <2>2
<1>. HIDE DEF S
<1>3. k \in S
  BY <1>1, <1>2, Induction
<1>. QED
  BY <1>3 DEF S

\* The recursive function of Number is one.
LEMMA NumberGoes ==
    ASSUME NEW b \in Nat, NEW d \in Seq(Nat)
    PROVE  \E v : Values(v, 0, d, b, Len(d)) /\ Number(d, b) = v[Len(d)]
<1>. DEFINE n == Len(d)
           Body(f) == [i \in 0..n |-> IF i = 0 THEN 0 ELSE f[i - 1] * b + d[i]]
           u == CHOOSE f : f = Body(f)
<1>1. n \in Nat /\ AreDigits(d, n)
  BY DEF AreDigits
<1>2. PICK v : Values(v, 0, d, b, n)
  BY <1>1, ValuesExist
<1>3. v = Body(v)
  BY <1>2 DEF Values, Goes, Shifted
<1>4. u = Body(u)
  BY <1>3
<1>5. Number(d, b) = u[n]
  BY DEF Number
<1>. HIDE DEF u, n
<1>6. Goes(u, 0, d, b, n)
  <2>1. \A i \in 0..n : u[i] = Body(u)[i]
    BY <1>4
  <2>2. \A i \in 0..n : u[i] = IF i = 0 THEN 0 ELSE Shifted(u[i - 1], b, d[i])
    BY <2>1 DEF Shifted
  <2>. QED
    BY <1>1, <2>2 DEF Goes
<1>7. u[n] = v[n]
  BY <1>1, <1>2, <1>6, ValuesAgree DEF Values
<1>. QED
  BY <1>2, <1>5, <1>7 DEF n

\* The value of digits is a number.  Another digit makes it b times as large and adds its
\* own.
LEMMA NumberFacts ==
    ASSUME NEW b \in Nat
    PROVE  /\ Number(<<>>, b) = 0
           /\ \A d \in Seq(Nat) : Number(d, b) \in Nat
           /\ \A d \in Seq(Nat), x \in Nat :
                 Number(Append(d, x), b) = Number(d, b) * b + x
<1>1. Number(<<>>, b) = 0
  <2>1. <<>> \in Seq(Nat) /\ Len(<<>>) = 0
    OBVIOUS
  <2>. QED
    BY <2>1, NumberGoes DEF Values, Goes
<1>2. ASSUME NEW d \in Seq(Nat) PROVE Number(d, b) \in Nat
  BY NumberGoes DEF Values
<1>3. ASSUME NEW d \in Seq(Nat), NEW x \in Nat
      PROVE  Number(Append(d, x), b) = Number(d, b) * b + x
  <2>. DEFINE e == Append(d, x)  n == Len(d)
  <2>1. n \in Nat /\ \A i \in 1..n : d[i] = e[i]
    OBVIOUS
  <2>2. e \in Seq(Nat) /\ Len(e) = n + 1 /\ e[n + 1] = x
    OBVIOUS
  <2>3. PICK v : Values(v, 0, d, b, n) /\ Number(d, b) = v[n]
    BY NumberGoes
  <2>4. PICK w : Values(w, 0, e, b, n + 1) /\ Number(e, b) = w[n + 1]
    BY <2>2, NumberGoes
  <2>. HIDE DEF e, n
  <2>5. Goes(w, 0, e, b, n) /\ w[n + 1] = Shifted(w[n], b, e[n + 1])
    <3>1. Goes(w, 0, e, b, n + 1)
      BY <2>4 DEF Values
    <3>. QED
      BY <2>1, <3>1, GoesOn
  <2>6. v[n] = w[n]
    BY <2>1, <2>3, <2>5, ValuesAgree DEF Values
  <2>. QED
    BY <2>2, <2>3, <2>4, <2>5, <2>6 DEF e, Shifted
<1>. QED
  BY <1>1, <1>2, <1>3

\* The digits of a power.
LEMMA ZeroDigits ==
    ASSUME NEW n \in Nat
    PROVE  AreDigits(Zeros(n), n) /\ \A i \in 1..n : Zeros(n)[i] = 0
BY DEF AreDigits, Zeros

\* The recursive function of Power is such a sequence, too.
LEMMA PowerGoes ==
    ASSUME NEW b \in Nat, NEW n \in Nat
    PROVE  \E v : Values(v, 1, Zeros(n), b, n) /\ Power(b, n) = v[n]
<1>. DEFINE Body(f) == [i \in 0..n |-> IF i = 0 THEN 1 ELSE b * f[i - 1]]
           u == CHOOSE f : f = Body(f)
<1>1. PICK v : Values(v, 1, Zeros(n), b, n)
  BY ZeroDigits, ValuesExist
<1>2. v \in [0..n -> Nat] /\ v[0] = 1 /\ \A i \in 1..n : v[i] = v[i - 1] * b
  <2>1. \A i \in 1..n : v[i] = Shifted(v[i - 1], b, 0)
    BY <1>1, ZeroDigits DEF Values, Goes
  <2>2. v \in [0..n -> Nat] /\ v[0] = 1
    BY <1>1 DEF Values, Goes
  <2>3. \A i \in 1..n : v[i - 1] \in Nat
    BY <2>2
  <2>. QED
    BY <2>1, <2>2, <2>3 DEF Shifted
<1>3. v = Body(v)
  BY <1>2
<1>4. u = Body(u)
  BY <1>3
<1>5. Power(b, n) = u[n]
  BY DEF Power
<1>. HIDE DEF u
<1>6. \A i \in 0..n : u[i] = IF i = 0 THEN 1 ELSE b * u[i - 1]
  <2>1. \A i \in 0..n : u[i] = Body(u)[i]
    BY <1>4
  <2>. QED
    BY <2>1
<1>. DEFINE S == {j \in Nat : j <= n => u[j] = v[j]}
<1>7. 0 \in S
  BY <1>2, <1>6
<1>8. ASSUME NEW j \in Nat, j \in S PROVE j + 1 \in S
  <2>. SUFFICES ASSUME j + 1 <= n PROVE u[j + 1] = v[j + 1]
    OBVIOUS
  <2>1. u[j] = v[j] /\ j + 1 \in 1..n /\ (j + 1) - 1 = j /\ v[j] \in Nat
    BY <1>2, <1>8
  <2>2. u[j + 1] = b * u[j] /\ v[j + 1] = v[j] * b
    BY <1>2, <1>6, <2>1
  <2>. QED
    BY <2>1, <2>2
<1>. HIDE DEF S
<1>9. n \in S
  BY <1>7, <1>8, Induction
<1>. QED
  BY <1>1, <1>5, <1>9 DEF S

\* A power is positive, and the next one is b times as large.
LEMMA PowerFacts ==
    ASSUME NEW b \in Nat \ {0}
    PROVE  /\ Power(b, 0) = 1
           /\ \A n \in Nat : Power(b, n) \in Nat \ {0}
           /\ \A n \in Nat : Power(b, n + 1) = b * Power(b, n)
<1>1. Power(b, 0) = 1
  BY PowerGoes DEF Values, Goes
<1>2. ASSUME NEW n \in Nat PROVE Power(b, n + 1) = b * Power(b, n)
  <2>1. PICK v : Values(v, 1, Zeros(n), b, n) /\ Power(b, n) = v[n]
    BY PowerGoes
  <2>2. PICK w : Values(w, 1, Zeros(n + 1), b, n + 1) /\ Power(b, n + 1) = w[n + 1]
    BY PowerGoes
  <2>3. Goes(w, 1, Zeros(n + 1), b, n) /\ w[n + 1] = Shifted(w[n], b, Zeros(n + 1)[n + 1])
    <3>1. Goes(w, 1, Zeros(n + 1), b, n + 1)
      BY <2>2 DEF Values
    <3>. QED
      BY <3>1, GoesOn
  <2>4. Zeros(n + 1)[n + 1] = 0 /\ \A i \in 1..n : Zeros(n)[i] = Zeros(n + 1)[i]
    BY ZeroDigits
  <2>5. v[n] = w[n]
    BY <2>1, <2>3, <2>4, ValuesAgree DEF Values
  <2>6. v[n] \in Nat
    BY <2>1 DEF Values
  <2>. QED
    BY <2>1, <2>2, <2>3, <2>4, <2>5, <2>6 DEF Shifted
<1>. DEFINE S == {n \in Nat : Power(b, n) \in Nat \ {0}}
<1>3. 0 \in S
  BY <1>1
<1>4. ASSUME NEW n \in Nat, n \in S PROVE n + 1 \in S
  <2>1. \A x, y \in Nat \ {0} : x * y \in Nat \ {0}
    OBVIOUS
  <2>. QED
    BY <1>2, <1>4, <2>1
<1>. HIDE DEF S
<1>5. \A n \in Nat : n \in S
  BY <1>3, <1>4, Induction
<1>. QED
  BY <1>1, <1>2, <1>5 DEF S

\* The bases in use.
LEMMA BaseFacts ==
    /\ Number(<<>>, 10) = 0 /\ Power(10, 0) = 1
    /\ \A d \in Seq(Nat) : Number(d, 10) \in Nat /\ Number(d, 8) \in Nat
    /\ \A d \in Seq(Nat), x \in Nat : Number(Append(d, x), 10) = Number(d, 10) * 10 + x
    /\ \A n \in Nat : Power(10, n) \in Nat \ {0} /\ Power(10, n + 1) = 10 * Power(10, n)
    /\ \A n \in Nat : Power(2, n) \in Nat \ {0} /\ Power(2, n + 1) = 2 * Power(2, n)
<1>1. 2 \in Nat \ {0} /\ 8 \in Nat /\ 10 \in Nat \ {0}
  OBVIOUS
<1>. QED
  BY <1>1, NumberFacts, PowerFacts

\* The powers of two grow.
LEMMA PowersGrow ==
    ASSUME NEW m \in Nat, NEW n \in Nat, m <= n PROVE Power(2, m) <= Power(2, n)
<1>. DEFINE S == {k \in Nat : Power(2, m) <= Power(2, m + k)}
<1>1. 0 \in S
  BY BaseFacts
<1>2. ASSUME NEW k \in Nat, k \in S PROVE k + 1 \in S
  <2>. m + k \in Nat
    OBVIOUS
  <2>1. Power(2, m) \in Nat
    BY BaseFacts
  <2>2. Power(2, m + k) \in Nat /\ Power(2, (m + k) + 1) = 2 * Power(2, m + k)
    BY BaseFacts
  <2>3. (m + k) + 1 = m + (k + 1)
    OBVIOUS
  <2>. QED
    BY <1>2, <2>1, <2>2, <2>3
<1>. HIDE DEF S
<1>3. n - m \in S /\ m + (n - m) = n
  BY <1>1, <1>2, Induction
<1>. QED
  BY <1>3 DEF S

\* One more zero.
LEMMA ZerosOn ==
    ASSUME NEW d \in Seq(Nat), NEW n \in Nat
    PROVE  /\ d \o Zeros(n) \in Seq(Nat)
           /\ d \o Zeros(n + 1) = Append(d \o Zeros(n), 0)
<1>1. \A k \in Nat : Zeros(k) \in Seq(Nat) /\ Len(Zeros(k)) = k
  BY DEF Zeros
<1>2. Zeros(n + 1) = Append(Zeros(n), 0)
  BY DEF Zeros
<1>3. d \o Zeros(n) \in Seq(Nat)
  BY <1>1, ConcatProperties
<1>4. d \o Append(Zeros(n), 0) = Append(d \o Zeros(n), 0)
  <2>1. Zeros(n) \in Seq(Nat)
    BY <1>1
  <2>. HIDE DEF Zeros
  <2>. QED
    BY <2>1
<1>. QED
  BY <1>2, <1>3, <1>4

\* Zeros behind digits make a power of ten.
LEMMA ZerosMultiply ==
    ASSUME NEW d \in Seq(Nat), NEW n \in Nat
    PROVE  Number(d \o Zeros(n), 10) = Number(d, 10) * Power(10, n)
<1>. DEFINE S == {k \in Nat : Number(d \o Zeros(k), 10) = Number(d, 10) * Power(10, k)}
<1>1. 0 \in S
  <2>1. d \o Zeros(0) = d
    BY DEF Zeros
  <2>2. Power(10, 0) = 1 /\ Number(d, 10) \in Nat
    BY BaseFacts
  <2>3. \A x \in Nat : x = x * 1
    OBVIOUS
  <2>4. Number(d, 10) = Number(d, 10) * Power(10, 0)
    BY <2>2, <2>3
  <2>. QED
    BY <2>1, <2>4
<1>2. ASSUME NEW k \in Nat, k \in S PROVE k + 1 \in S
  <2>1. d \o Zeros(k) \in Seq(Nat) /\ d \o Zeros(k + 1) = Append(d \o Zeros(k), 0)
    BY ZerosOn
  <2>2. Number(d \o Zeros(k + 1), 10) = Number(d \o Zeros(k), 10) * 10 + 0
    BY <2>1, BaseFacts
  <2>3. Number(d, 10) \in Nat /\ Power(10, k) \in Nat
    BY BaseFacts
  <2>4. Power(10, k + 1) = 10 * Power(10, k)
    BY BaseFacts
  <2>5. \A x, y \in Nat : (x * y) * 10 + 0 = x * (10 * y)
    OBVIOUS
  <2>. QED
    BY <1>2, <2>2, <2>3, <2>4, <2>5
<1>. HIDE DEF S
<1>3. n \in S
  BY <1>1, <1>2, Induction
<1>. QED
  BY <1>3 DEF S

\* Nothing but zeros.
AllZero(d) == \A i \in 1..Len(d) : d[i] = 0

\* Only zeros have the value zero, and they have it in every base.
LEMMA ZeroIsZeros ==
    ASSUME NEW d \in Seq(Nat), NEW b \in Nat
    PROVE  /\ Number(d, 10) = 0 => AllZero(d)
           /\ AllZero(d) => Number(d, b) = 0
<1>. DEFINE Good(e) == /\ Number(e, 10) = 0 => AllZero(e)
                       /\ AllZero(e) => Number(e, b) = 0
           S == {n \in Nat : \A e \in Seq(Nat) : Len(e) = n => Good(e)}
<1>1. 0 \in S
  <2>1. ASSUME NEW e \in Seq(Nat), Len(e) = 0 PROVE Good(e)
    <3>1. e = <<>>
      BY <2>1
    <3>. QED
      BY <3>1, NumberFacts DEF AllZero
  <2>. QED
    BY <2>1
<1>2. ASSUME NEW n \in Nat, n \in S PROVE n + 1 \in S
  <2>1. ASSUME NEW e \in Seq(Nat), Len(e) = n + 1 PROVE Good(e)
    <3>1. e # <<>>
      BY <2>1
    <3>2. PICK f \in Seq(Nat), x \in Nat : e = Append(f, x)
      BY <3>1, SequenceEmptyOrAppend
    <3>3. Len(f) = n
      BY <2>1, <3>2
    <3>4. Good(f)
      BY <1>2, <3>3
    <3>5. AllZero(e) <=> AllZero(f) /\ x = 0
      <4>1. \A i \in 1..n : e[i] = f[i]
        BY <3>2, <3>3
      <4>2. e[n + 1] = x
        BY <3>2, <3>3
      <4>. QED
        BY <2>1, <3>3, <4>1, <4>2 DEF AllZero
    <3>6. /\ Number(e, 10) = Number(f, 10) * 10 + x
          /\ Number(e, b) = Number(f, b) * b + x
          /\ Number(f, 10) \in Nat
      BY <3>2, NumberFacts
    <3>7. Number(e, 10) = 0 => AllZero(e)
      BY <3>4, <3>5, <3>6
    <3>8. AllZero(e) => Number(e, b) = 0
      BY <3>4, <3>5, <3>6
    <3>. QED
      BY <3>7, <3>8
  <2>. QED
    BY <2>1
<1>. HIDE DEF S
<1>3. Len(d) \in Nat /\ Len(d) \in S
  BY <1>1, <1>2, Induction
<1>. QED
  BY <1>3 DEF S

-----------------------------------------------------------------------------
(* What scaling does to a text.                                            *)

\* What a digit may be.
Figure == 0..9

\* A sequence is what its first k members and the others are.
LEMMA Parts ==
    ASSUME NEW S, NEW s \in Seq(S), NEW k \in Nat, k < Len(s)
    PROVE  /\ SubSeq(s, 1, k) \in Seq(S) /\ SubSeq(s, k + 1, Len(s)) \in Seq(S)
           /\ Len(SubSeq(s, k + 1, Len(s))) = Len(s) - k
           /\ SubSeq(s, 1, k) \o SubSeq(s, k + 1, Len(s)) = s
<1>. DEFINE n == Len(s)  a == SubSeq(s, 1, k)  c == SubSeq(s, k + 1, n)
<1>1. n \in Nat /\ s \in [1..n -> S]
  OBVIOUS
<1>2. a \in Seq(S) /\ c \in Seq(S) /\ Len(a) = k /\ Len(c) = n - k
  OBVIOUS
<1>3. /\ \A i \in 1..k : a[i] = s[i]
      /\ \A i \in 1..(n - k) : c[i] = s[k + i]
  OBVIOUS
<1>. HIDE DEF n, a, c
<1>4. a \o c \in Seq(S) /\ Len(a \o c) = n
  <2>1. a \o c \in Seq(S) /\ Len(a \o c) = Len(a) + Len(c)
    BY <1>2
  <2>. QED
    BY <1>1, <1>2, <2>1
<1>5. ASSUME NEW i \in 1..n PROVE (a \o c)[i] = s[i]
  <2>1. CASE i <= k
    <3>1. (a \o c)[i] = a[i]
      BY <1>1, <1>2, <2>1
    <3>. QED
      BY <1>3, <2>1, <3>1
  <2>2. CASE i > k
    <3>1. i - k \in 1..(n - k) /\ k + (i - k) = i
      BY <1>1, <2>2
    <3>2. (a \o c)[i] = c[i - k]
      BY <1>1, <1>2, <2>2
    <3>. QED
      BY <1>3, <3>1, <3>2
  <2>3. i <= k \/ i > k
    BY <1>1
  <2>. QED
    BY <2>1, <2>2, <2>3
<1>6. a \o c = s
  BY <1>4, <1>5, SeqEqual DEF n
<1>. QED
  BY <1>2, <1>6 DEF n, a, c

\* Where sequences are joined first makes no difference.
LEMMA Join ==
    ASSUME NEW S
    PROVE  \A a, c, e \in Seq(S) : (a \o c) \o e = a \o (c \o e)
BY ConcatAssociative

\* The parts of a text have their types, for any digits and any number of them.
LEMMA TextFacts ==
    ASSUME NEW t \in Text
    PROVE  /\ t.whole \in Seq(Figure) /\ t.fraction \in Seq(Figure)
           /\ t.negative \in BOOLEAN /\ t.point \in BOOLEAN /\ t.power \in Nat
           /\ ~t.point => t.fraction = <<>>
<1>1. ASSUME NEW f \in Figures PROVE f \in Seq(Figure)
  <2>1. PICK n \in 0..MaxDigits : f \in [1..n -> Digits]
    BY DEF Figures
  <2>2. n \in Nat /\ Digits \subseteq Figure
    BY ParametersAssumption DEF Figure
  <2>3. f \in [1..n -> Figure]
    BY <2>1, <2>2
  <2>. HIDE DEF Figure
  <2>. QED
    BY <2>2, <2>3
<1>. QED
  BY <1>1, ParametersAssumption DEF Text

\* The digits of a text, and how far the suffix moves the point behind them.
All(t) == t.whole \o t.fraction
Shift(t) == t.power - Len(t.fraction)

\* They are digits and numbers.
LEMMA AllDigits ==
    ASSUME NEW t \in Text
    PROVE  All(t) \in Seq(Figure) /\ All(t) \in Seq(Nat) /\ Shift(t) \in Int
<1>1. t.whole \in Seq(Figure) /\ t.fraction \in Seq(Figure) /\ t.power \in Nat
  BY TextFacts
<1>2. All(t) \in Seq(Figure)
  BY <1>1 DEF All
<1>3. Shift(t) \in Int
  BY <1>1 DEF Shift
<1>. QED
  BY <1>2, <1>3 DEF Figure

\* Far enough, and zeros stand behind the digits, and no point.
LEMMA ScaledWhole ==
    ASSUME NEW t \in Text, Shift(t) >= 0
    PROVE  /\ Scaled(t).whole = All(t) \o Zeros(Shift(t))
           /\ Scaled(t).fraction = <<>>
           /\ Scaled(t).point => t.point /\ t.power = 0
<1>1. t.whole \in Seq(Figure) /\ t.fraction \in Seq(Figure) /\ t.power \in Nat
  BY TextFacts
<1>2. CASE t.power = 0
  <2>1. t.fraction = <<>> /\ Shift(t) = 0
    BY <1>1, <1>2 DEF Shift
  <2>2. All(t) \o Zeros(0) = t.whole
    BY <1>1, <2>1 DEF All, Zeros
  <2>. QED
    BY <1>2, <2>1, <2>2 DEF Scaled
<1>3. CASE t.power # 0
  <2>1. ~(Len(t.fraction) > t.power)
    BY <1>1 DEF Shift
  <2>. QED
    BY <1>3, <2>1 DEF Scaled, All, Shift
<1>. QED
  BY <1>2, <1>3

\* Otherwise the point stays among them.
LEMMA ScaledFraction ==
    ASSUME NEW t \in Text, Shift(t) < 0
    PROVE  /\ Scaled(t).whole \o Scaled(t).fraction = All(t)
           /\ Len(Scaled(t).fraction) = -Shift(t)
           /\ Scaled(t).point
<1>1. t.whole \in Seq(Figure) /\ t.fraction \in Seq(Figure) /\ t.power \in Nat
      /\ (~t.point => t.fraction = <<>>) /\ t.point \in BOOLEAN
  BY TextFacts
<1>2. Len(t.fraction) > t.power
  BY <1>1 DEF Shift
<1>3. CASE t.power = 0
  <2>1. Scaled(t) = [whole |-> t.whole, point |-> t.point, fraction |-> t.fraction]
    BY <1>3 DEF Scaled
  <2>2. t.point
    BY <1>1, <1>2, <1>3
  <2>3. Len(t.fraction) = -Shift(t)
    BY <1>1, <1>3 DEF Shift
  <2>4. Scaled(t).whole = t.whole /\ Scaled(t).fraction = t.fraction /\ Scaled(t).point = t.point
    BY <2>1
  <2>. QED
    BY <2>2, <2>3, <2>4 DEF All
<1>4. CASE t.power # 0
  <2>. DEFINE a == SubSeq(t.fraction, 1, t.power)
             c == SubSeq(t.fraction, t.power + 1, Len(t.fraction))
  <2>1. Scaled(t) = [whole |-> t.whole \o a, point |-> TRUE, fraction |-> c]
    BY <1>2, <1>4 DEF Scaled
  <2>2. /\ a \in Seq(Figure) /\ c \in Seq(Figure) /\ Len(c) = Len(t.fraction) - t.power
        /\ a \o c = t.fraction
    BY <1>1, <1>2, Parts
  <2>. HIDE DEF a, c
  <2>4. (t.whole \o a) \o c = t.whole \o (a \o c)
    <3>1. t.whole \in Seq(Figure) /\ a \in Seq(Figure) /\ c \in Seq(Figure)
      BY <1>1, <2>2
    <3>2. \A x, y, z \in Seq(Figure) : (x \o y) \o z = x \o (y \o z)
      BY Join
    <3>. QED
      BY <3>1, <3>2
  <2>5. Scaled(t).whole = t.whole \o a /\ Scaled(t).fraction = c /\ Scaled(t).point
    BY <2>1
  <2>6. Scaled(t).whole \o Scaled(t).fraction = t.whole \o t.fraction
    BY <2>2, <2>4, <2>5
  <2>7. Len(Scaled(t).fraction) = -Shift(t)
    BY <1>1, <2>2, <2>5 DEF Shift
  <2>. QED
    BY <2>5, <2>6, <2>7 DEF All
<1>. QED
  BY <1>3, <1>4

-----------------------------------------------------------------------------
(* What a conversion comes to.                                             *)

\* The value of the digits of a text.
Size(t) == Number(All(t), 10)

\* It is a number.
LEMMA SizeType == ASSUME NEW t \in Text PROVE Size(t) \in Nat
<1>1. All(t) \in Seq(Nat)
  BY AllDigits
<1>. QED
  BY <1>1, BaseFacts DEF Size

\* A number of digits that scaling leaves without a fraction: the value, in decimal.
LEMMA ScaledNumber ==
    ASSUME NEW t \in Text, Shift(t) >= 0
    PROVE  /\ Scaled(t).whole \in Seq(Figure) /\ Scaled(t).whole \in Seq(Nat)
           /\ Number(Scaled(t).whole, 10) = Size(t) * Power(10, Shift(t))
           /\ Size(t) * Power(10, Shift(t)) \in Nat
           /\ All(t) # <<>> => /\ Scaled(t).whole # <<>>
                              /\ Scaled(t).whole[1] = Head(All(t))
<1>. DEFINE d == All(t)  n == Shift(t)  w == Scaled(t).whole
<1>1. d \in Seq(Figure) /\ d \in Seq(Nat) /\ n \in Nat
  BY AllDigits
<1>2. w = d \o Zeros(n)
  BY ScaledWhole
<1>3. Size(t) = Number(d, 10)
  BY DEF Size
<1>. HIDE DEF d, n, w
<1>4. Zeros(n) \in Seq(Figure)
  BY <1>1 DEF Zeros, Figure
<1>5. w \in Seq(Figure) /\ w \in Seq(Nat)
  <2>1. w \in Seq(Figure)
    BY <1>1, <1>2, <1>4
  <2>. QED
    BY <2>1 DEF Figure
<1>6. Number(w, 10) = Size(t) * Power(10, n)
  BY <1>1, <1>2, <1>3, ZerosMultiply
<1>7. Size(t) * Power(10, n) \in Nat
  BY <1>5, <1>6, BaseFacts
<1>8. d # <<>> => w # <<>> /\ w[1] = Head(d)
  BY <1>1, <1>2, <1>4
<1>. QED
  BY <1>5, <1>6, <1>7, <1>8 DEF d, n, w

\* Without a zero in front of others, the base that the library chooses has the digits
\* and the value.
LEMMA ScaledInBase ==
    ASSUME NEW t \in Text, Shift(t) >= 0,
           All(t) # <<>> /\ Head(All(t)) = 0 => Size(t) = 0
    PROVE  /\ Number(Scaled(t).whole, Base(Scaled(t).whole)) = Size(t) * Power(10, Shift(t))
           /\ \A i \in DOMAIN Scaled(t).whole :
                 Scaled(t).whole[i] < Base(Scaled(t).whole)
<1>. DEFINE w == Scaled(t).whole
<1>1. /\ w \in Seq(Figure) /\ w \in Seq(Nat)
      /\ Number(w, 10) = Size(t) * Power(10, Shift(t))
      /\ All(t) # <<>> => w # <<>> /\ w[1] = Head(All(t))
  BY ScaledNumber
<1>. HIDE DEF w
<1>2. CASE Base(w) = 10
  <2>1. \A i \in DOMAIN w : w[i] < 10
    BY <1>1 DEF Figure
  <2>. QED
    BY <1>1, <1>2, <2>1 DEF w
<1>3. CASE Base(w) = 8 /\ w[1] = 0
  <2>1. Size(t) = 0
    <3>1. CASE All(t) # <<>>
      BY <1>1, <1>3, <3>1
    <3>2. CASE All(t) = <<>>
      BY <3>2, BaseFacts DEF Size
    <3>. QED
      BY <3>1, <3>2
  <2>2. Number(w, 10) = 0
    <3>1. Shift(t) \in Nat
      BY AllDigits
    <3>2. Power(10, Shift(t)) \in Nat
      BY <3>1, BaseFacts
    <3>3. \A x \in Nat : 0 * x = 0
      OBVIOUS
    <3>. QED
      BY <1>1, <2>1, <3>2, <3>3
  <2>3. AllZero(w)
    BY <1>1, <2>2, ZeroIsZeros
  <2>4. Number(w, 8) = 0
    BY <1>1, <2>3, ZeroIsZeros
  <2>5. \A i \in DOMAIN w : w[i] < 8
    BY <1>1, <2>3 DEF AllZero
  <2>. QED
    BY <1>1, <1>3, <2>2, <2>4, <2>5 DEF w
<1>4. Base(w) = 10 \/ (Base(w) = 8 /\ w[1] = 0)
  BY DEF Base
<1>. QED
  BY <1>2, <1>3, <1>4

\* What the library reads in full is a number.
LEMMA MagnitudeType ==
    ASSUME NEW t \in Text, Shift(t) >= 0
    PROVE  Number(Scaled(t).whole, Base(Scaled(t).whole)) \in Nat
<1>1. Scaled(t).whole \in Seq(Nat)
  BY ScaledNumber
<1>2. Base(Scaled(t).whole) \in {8, 10}
  BY DEF Base
<1>. QED
  BY <1>1, <1>2, BaseFacts

\* The limits of the types.
LEMMA KindFacts ==
    ASSUME NEW k \in Kind, k # Real
    PROVE  /\ k.type \in {"int", "uint"} /\ k.lo \in Int /\ k.hi \in Int
           /\ Power(2, Bits) \in Nat \ {0} /\ Power(2, Bits - 1) \in Nat \ {0}
           /\ k.type = "uint" => k.lo = 0 /\ k.hi < Power(2, Bits)
           /\ k.type = "int" => -Power(2, Bits - 1) <= k.lo /\ k.hi < Power(2, Bits - 1)
<1>1. PICK b \in {Bits, NarrowBits} : k = Signed(b) \/ k = Unsigned(b)
  BY DEF Kind
<1>2. /\ b \in Nat /\ b - 1 \in Nat /\ Bits \in Nat /\ Bits - 1 \in Nat
      /\ b <= Bits /\ b - 1 <= Bits - 1
  BY <1>1, ParametersAssumption
<1>3. /\ Power(2, b) <= Power(2, Bits) /\ Power(2, b - 1) <= Power(2, Bits - 1)
  BY <1>2, PowersGrow
<1>4. \A n \in Nat : Power(2, n) \in Nat \ {0}
  BY BaseFacts
<1>5. /\ Power(2, b) \in Nat \ {0} /\ Power(2, b - 1) \in Nat \ {0}
      /\ Power(2, Bits) \in Nat \ {0} /\ Power(2, Bits - 1) \in Nat \ {0}
  BY <1>2, <1>4
<1>6. CASE k = Signed(b)
  BY <1>3, <1>5, <1>6 DEF Signed
<1>7. CASE k = Unsigned(b)
  BY <1>3, <1>5, <1>7 DEF Unsigned
<1>. QED
  BY <1>1, <1>6, <1>7

\* The remainder is less than the divisor, and zero of the divisor itself.
LEMMA Remainder ==
    ASSUME NEW p \in Nat \ {0}, NEW x \in Nat
    PROVE  (p - x) % p \in Int /\ (p - 0) % p = 0
OBVIOUS

\* The meaning of a text in these terms.
LEMMA Meaning ==
    ASSUME text \in Text
    PROVE  /\ HasDigits = (All(text) # <<>>) /\ Exponent = Shift(text)
           /\ Significand = IF text.negative THEN -Size(text) ELSE Size(text)
           /\ ZeroInFront = (All(text) # <<>> /\ Head(All(text)) = 0 /\ Size(text) # 0)
           /\ Size(text) \in Nat
<1>1. Size(text) \in Nat
  BY SizeType
<1>2. Significand = IF text.negative THEN -Size(text) ELSE Size(text)
  BY DEF Significand, Size, All
<1>3. HasDigits = (All(text) # <<>>) /\ Exponent = Shift(text)
  BY DEF HasDigits, Exponent, All, Shift
<1>4. Significand # 0 <=> Size(text) # 0
  BY <1>1, <1>2
<1>5. ZeroInFront = (All(text) # <<>> /\ Head(All(text)) = 0 /\ Size(text) # 0)
  BY <1>3, <1>4 DEF ZeroInFront, All
<1>. QED
  BY <1>1, <1>2, <1>3, <1>5

\* The integer that a text without a fraction left means.
LEMMA MeantWhole ==
    ASSUME text \in Text, Shift(text) >= 0
    PROVE  /\ Whole
           /\ Meant = IF text.negative THEN -(Size(text) * Power(10, Shift(text)))
                      ELSE Size(text) * Power(10, Shift(text))
<1>1. Exponent >= 0 /\ Exponent = Shift(text)
  BY Meaning
<1>2. Whole /\ Meant = Significand * Power(10, Shift(text))
  BY <1>1 DEF Whole, Meant
<1>3. Size(text) \in Nat /\ Power(10, Shift(text)) \in Nat
  <2>1. Shift(text) \in Nat
    BY AllDigits
  <2>. QED
    BY <2>1, SizeType, BaseFacts
<1>4. \A x, y \in Nat : (-x) * y = -(x * y)
  OBVIOUS
<1>. QED
  BY <1>2, <1>3, <1>4, Meaning

\* What is accepted is in the range and is meant, digits or none.
InRangeAndMeant ==
    result.is = "accepted" =>
        (kind # Real => result.number \in kind.lo..kind.hi) /\ IsMeant

\* A conversion to an integer does right, when the point is moved behind all digits.
LEMMA WholeIntegers ==
    ASSUME text \in Text, kind \in Kind, kind # Real, Shift(text) >= 0,
           result = Integer(text, kind)
    PROVE  InRangeAndMeant /\ MeantIsAccepted
<1>. DEFINE s == Scaled(text)
           m == Number(s.whole, Base(s.whole))
           v == Value(text.negative, m, kind.type)
           p == Size(text) * Power(10, Shift(text))
<1>1. result = IF ReadInFull(s) /\ Representable(text.negative, m, kind.type)
                     /\ InRange(v, kind)
               THEN Accepted(v, 0) ELSE Refused
  BY DEF Integer
<1>2. /\ kind.type \in {"int", "uint"} /\ kind.lo \in Int /\ kind.hi \in Int
      /\ Power(2, Bits) \in Nat \ {0} /\ Power(2, Bits - 1) \in Nat \ {0}
      /\ kind.type = "uint" => kind.lo = 0 /\ kind.hi < Power(2, Bits)
      /\ kind.type = "int" => -Power(2, Bits - 1) <= kind.lo /\ kind.hi < Power(2, Bits - 1)
  BY KindFacts
<1>3. m \in Nat /\ p \in Nat
  BY MagnitudeType, ScaledNumber
<1>4. text.negative \in BOOLEAN
  BY TextFacts
<1>5. /\ ~ZeroInFront => m = p /\ \A i \in DOMAIN s.whole : s.whole[i] < Base(s.whole)
      /\ HasDigits => s.whole # <<>>
      /\ s.point => text.point /\ text.power = 0
  BY Meaning, ScaledInBase, ScaledNumber, ScaledWhole
<1>6. Whole /\ Meant = IF text.negative THEN -p ELSE p
  BY MeantWhole
<1>. HIDE DEF s, m, p
<1>7. /\ v \in Int
      /\ ~text.negative => v = m
      /\ text.negative /\ kind.type = "int" => v = -m
      /\ text.negative /\ kind.type = "uint" /\ m = 0 => v = 0
  <2>1. (Power(2, Bits) - m) % Power(2, Bits) \in Int
        /\ (Power(2, Bits) - 0) % Power(2, Bits) = 0
    BY <1>2, <1>3, Remainder
  <2>. QED
    BY <1>2, <1>3, <2>1 DEF Value
<1>. HIDE DEF v
<1>8. InRangeAndMeant
  <2>. SUFFICES ASSUME result.is = "accepted"
                PROVE  /\ result.number \in kind.lo..kind.hi
                       /\ \/ Whole /\ result.number = Meant
                          \/ ZeroInFront
                          \/ kind.type = "uint" /\ text.negative
    BY DEF InRangeAndMeant, IsMeant
  <2>1. InRange(v, kind) /\ result = Accepted(v, 0)
    BY <1>1 DEF Refused
  <2>2. result.number = v
    BY <2>1 DEF Accepted
  <2>3. v \in kind.lo..kind.hi
    BY <1>2, <1>7, <2>1 DEF InRange
  <2>4. ~ZeroInFront /\ ~(kind.type = "uint" /\ text.negative) => v = Meant
    BY <1>2, <1>5, <1>6, <1>7
  <2>. QED
    BY <1>6, <2>2, <2>3, <2>4
<1>9. MeantIsAccepted
  <2>. SUFFICES ASSUME result.is = "refused", HasDigits, Meant \in kind.lo..kind.hi,
                       ~ZeroInFront, ~(text.point /\ text.power = 0)
                PROVE  FALSE
    BY DEF MeantIsAccepted
  <2>1. ReadInFull(s)
    BY <1>5 DEF ReadInFull
  <2>2. m = p
    BY <1>5
  <2>3. text.negative /\ kind.type = "uint" => m = 0
    BY <1>2, <1>3, <1>6, <2>2
  <2>4. v = Meant
    BY <1>2, <1>4, <1>6, <1>7, <2>2, <2>3
  <2>5. InRange(v, kind)
    BY <1>2, <2>4 DEF InRange
  <2>6. Representable(text.negative, m, kind.type)
    BY <1>2, <1>3, <1>6, <2>2, <2>3 DEF Representable
  <2>7. result = Accepted(v, 0)
    BY <1>1, <2>1, <2>5, <2>6
  <2>. QED
    BY <2>7 DEF Accepted
<1>. QED
  BY <1>8, <1>9

\* And when the point stays among the digits, which no integer has.
LEMMA FractionsRefused ==
    ASSUME text \in Text, kind \in Kind, kind # Real, Shift(text) < 0,
           result = Integer(text, kind)
    PROVE  InRangeAndMeant /\ MeantIsAccepted
<1>1. Scaled(text).point
  BY ScaledFraction
<1>2. result = Refused
  BY <1>1 DEF Integer, ReadInFull
<1>3. text.point
  <2>1. text.fraction # <<>>
    <3>1. text.power \in Nat
      BY TextFacts
    <3>2. Len(<<>>) = 0
      OBVIOUS
    <3>. QED
      BY <3>1, <3>2 DEF Shift
  <2>. QED
    BY <2>1, TextFacts
<1>4. Exponent < 0
  BY Meaning
<1>5. result.is = "refused"
  BY <1>2 DEF Refused
<1>. QED
  BY <1>3, <1>4, <1>5 DEF InRangeAndMeant, MeantIsAccepted

\* A conversion to a real number does right wherever the point is.
LEMMA Reals ==
    ASSUME text \in Text, kind = Real, result = Double(text)
    PROVE  InRangeAndMeant /\ MeantIsAccepted
<1>. DEFINE w == Scaled(text).whole
           f == Scaled(text).fraction
           m == Number(w \o f, 10)
<1>1. result = IF w \o f = <<>> THEN Refused
               ELSE Accepted(IF text.negative THEN -m ELSE m, Len(f))
  BY DEF Double
<1>2. CASE Shift(text) >= 0
  <2>1. w \o f = w /\ Len(f) = 0
    <3>1. w \in Seq(Nat) /\ f = <<>>
      BY <1>2, ScaledNumber, ScaledWhole
    <3>. QED
      BY <3>1
  <2>2. m = Size(text) * Power(10, Shift(text))
    BY <1>2, <2>1, ScaledNumber
  <2>3. Meant = (IF text.negative THEN -m ELSE m) /\ Exponent >= 0
        /\ Meant = Significand * Power(10, Exponent)
    BY <1>2, <2>2, MeantWhole, Meaning DEF Meant
  <2>. HIDE DEF w, f, m
  <2>4. result.is = "accepted" => result = Accepted(Significand * Power(10, Exponent), 0)
    BY <1>1, <2>1, <2>3 DEF Refused
  <2>. QED
    BY <2>3, <2>4 DEF InRangeAndMeant, IsMeant, MeantIsAccepted
<1>3. CASE Shift(text) < 0
  <2>1. w \o f = All(text) /\ Len(f) = -Shift(text)
    BY <1>3, ScaledFraction
  <2>2. m = Size(text)
    BY <2>1 DEF Size
  <2>3. /\ Significand = (IF text.negative THEN -m ELSE m)
        /\ Exponent < 0 /\ Exponent = Shift(text) /\ Exponent \in Int
    BY <1>3, <2>2, Meaning, AllDigits
  <2>. HIDE DEF w, f, m
  <2>4. result.is = "accepted" => result = Accepted(Significand, -Exponent)
    BY <1>1, <2>1, <2>3 DEF Refused
  <2>. QED
    BY <2>3, <2>4 DEF InRangeAndMeant, IsMeant, MeantIsAccepted
<1>4. Shift(text) \in Int
  BY AllDigits
<1>. QED
  BY <1>2, <1>3, <1>4

\* Zero without digits has nothing but the zeros of its suffix.
LEMMA NoDigits ==
    ASSUME text \in Text, kind \in Kind, ~HasDigits, result.is = "accepted",
           result = IF kind = Real THEN Double(text) ELSE Integer(text, kind)
    PROVE  text.power # 0 /\ result = Accepted(0, 0)
<1>. DEFINE s == Scaled(text)
<1>1. text.whole = <<>> /\ text.fraction = <<>> /\ text.power \in Nat
  <2>1. /\ text.whole \in Seq(Figure) /\ text.fraction \in Seq(Figure)
        /\ text.power \in Nat /\ text.whole \o text.fraction = <<>>
    BY TextFacts DEF HasDigits
  <2>. QED
    BY <2>1
<1>2. All(text) = <<>> /\ Shift(text) = text.power /\ Shift(text) >= 0 /\ Size(text) = 0
  <2>1. All(text) = <<>>
    BY DEF All, HasDigits
  <2>2. Shift(text) = text.power
    <3>1. Len(text.fraction) = 0
      BY <1>1
    <3>. QED
      BY <1>1, <3>1 DEF Shift
  <2>3. Size(text) = 0
    BY <2>1, BaseFacts DEF Size
  <2>. QED
    BY <1>1, <2>1, <2>2, <2>3
<1>3. s.fraction = <<>> /\ s.whole = <<>> \o Zeros(text.power)
  <2>1. s.fraction = <<>> /\ s.whole = All(text) \o Zeros(Shift(text))
    BY <1>2, ScaledWhole
  <2>. HIDE DEF s
  <2>. QED
    BY <1>2, <2>1
<1>4. s.whole \in Seq(Nat) /\ s.whole \o s.fraction = s.whole /\ Len(s.fraction) = 0
  <2>1. s.whole \in Seq(Nat)
    BY <1>1, <1>2, ScaledNumber
  <2>. HIDE DEF s
  <2>. QED
    BY <1>3, <2>1
<1>5. Number(s.whole, 10) = 0 /\ Number(s.whole, Base(s.whole)) = 0
  <2>1. Number(s.whole, 10) = Size(text) * Power(10, Shift(text))
    BY <1>2, ScaledNumber
  <2>2. Number(s.whole, Base(s.whole)) = Size(text) * Power(10, Shift(text))
    BY <1>2, ScaledInBase
  <2>. HIDE DEF s
  <2>3. Power(10, text.power) \in Nat
    BY <1>1, BaseFacts
  <2>4. \A x \in Nat : 0 * x = 0
    OBVIOUS
  <2>. QED
    BY <1>2, <2>1, <2>2, <2>3, <2>4
<1>. HIDE DEF s
<1>6. s.whole # <<>>
  <2>1. CASE kind = Real
    BY <1>4, <2>1 DEF Double, Refused, s
  <2>2. CASE kind # Real
    BY <2>2 DEF Integer, ReadInFull, Refused, s
  <2>. QED
    BY <2>1, <2>2
<1>7. text.power # 0
  <2>1. Zeros(0) = <<>> /\ <<>> \o <<>> = <<>>
    BY DEF Zeros
  <2>. QED
    BY <1>3, <1>6, <2>1
<1>8. CASE kind = Real
  <2>1. result = Double(text)
    BY <1>8
  <2>2. Double(text) = IF s.whole = <<>> THEN Refused
                       ELSE Accepted(IF text.negative THEN -0 ELSE 0, 0)
    BY <1>4, <1>5 DEF Double, s
  <2>3. (IF text.negative THEN -0 ELSE 0) = 0
    <3>1. -0 = 0
      <4>1. -0 \in Nat /\ -0 <= 0
        OBVIOUS
      <4>2. \A x \in Nat : x <= 0 => x = 0
        OBVIOUS
      <4>. QED
        BY <4>1, <4>2, Zenon
    <3>. QED
      BY <3>1, Zenon
  <2>. QED
    BY <1>6, <1>7, <2>1, <2>2, <2>3
<1>9. CASE kind # Real
  <2>1. kind.type \in {"int", "uint"} /\ Power(2, Bits) \in Nat \ {0}
    BY <1>9, KindFacts
  <2>2. Value(text.negative, 0, kind.type) = 0
    <3>1. (Power(2, Bits) - 0) % Power(2, Bits) = 0
      BY <2>1, Remainder
    <3>2. CASE text.negative /\ kind.type = "uint"
      BY <3>1, <3>2 DEF Value
    <3>3. CASE ~(text.negative /\ kind.type = "uint")
      <4>1. Value(text.negative, 0, kind.type) \in {0, -0}
        BY <3>3 DEF Value
      <4>. QED
        BY <4>1
    <3>. QED
      BY <3>2, <3>3
  <2>. QED
    BY <1>5, <1>7, <1>9, <2>2 DEF Integer, Refused, s
<1>. QED
  BY <1>7, <1>8, <1>9

-----------------------------------------------------------------------------
(* Every conversion.                                                       *)

\* A result is of the text and the kind that were given.
ConversionInv ==
    /\ text \in Text /\ kind \in Kind
    /\ \/ result = Pending
       \/ result = IF kind = Real THEN Double(text) ELSE Integer(text, kind)

\* Given does so initially, and Convert afterwards.
LEMMA ConversionInvHolds == Conversion => []ConversionInv
<1>1. Given => ConversionInv
  BY DEF Given, ConversionInv
<1>2. ConversionInv /\ [Convert]_call => ConversionInv'
  <2>. SUFFICES ASSUME ConversionInv, [Convert]_call PROVE ConversionInv'
    OBVIOUS
  <2>1. CASE Convert
    BY <2>1 DEF ConversionInv, Convert
  <2>2. CASE UNCHANGED call
    BY <2>2 DEF ConversionInv, call
  <2>. QED
    BY <2>1, <2>2
<1>. QED
  BY <1>1, <1>2, PTL DEF Conversion

\* The three kinds of conversions together.
LEMMA ResultsAreRight == ConversionInv => AcceptedIsMeant /\ MeantIsAccepted
<1>. SUFFICES ASSUME ConversionInv PROVE AcceptedIsMeant /\ MeantIsAccepted
  OBVIOUS
<1>1. text \in Text /\ kind \in Kind /\ Shift(text) \in Int
  BY AllDigits DEF ConversionInv
<1>2. CASE result = Pending
  BY <1>2 DEF Pending, AcceptedIsMeant, MeantIsAccepted
<1>3. CASE result = IF kind = Real THEN Double(text) ELSE Integer(text, kind)
  <2>1. InRangeAndMeant /\ MeantIsAccepted
    BY <1>1, <1>3, Reals, WholeIntegers, FractionsRefused
  <2>2. ~HasDigits /\ result.is = "accepted" => text.power # 0 /\ result = Accepted(0, 0)
    BY <1>1, <1>3, NoDigits
  <2>. QED
    BY <2>1, <2>2 DEF AcceptedIsMeant, InRangeAndMeant
<1>. QED
  BY <1>2, <1>3 DEF ConversionInv

\* A number that is accepted is in the range and what the text means, whatever the
\* digits, the suffix and the widths, with the exceptions that the property names: octal
\* numbers, negative ones of the unsigned conversions, and suffixes without digits, which
\* are zero.  scaleNumericalStringRepresentation moves the point and no more.
THEOREM AcceptedNumbersAreMeant == Conversion => []AcceptedIsMeant
BY ConversionInvHolds, ResultsAreRight, PTL

\* No text is refused that means an integer in the range, has no zero in front, and no
\* digits that the suffix leaves behind the point: strToINT64, strToUINT64 and those
\* that narrow them take every such number, the limits of the types among them.
THEOREM MeantNumbersAreAccepted == Conversion => []MeantIsAccepted
BY ConversionInvHolds, ResultsAreRight, PTL
=============================================================================
