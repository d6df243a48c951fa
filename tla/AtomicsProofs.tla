--------------------------- MODULE AtomicsProofs ---------------------------
(***************************************************************************)
(* For any word, any threads and any arguments: as long as inc of a double *)
(* is not in use, atomic<T> implements AtomicCell in both builds.          *)
(***************************************************************************)
EXTENDS Atomics, TLAPS

(* The inductive invariant.  What a thread has under way says where it is:  *)
(* a result is there exactly at the return, and only the methods that are   *)
(* one operation get to "apply".                                            *)
CallOK(t) ==
  /\ atomicPc[t] = "idle" => call[t] = NoCall
  /\ atomicPc[t] # "idle" =>
       /\ call[t] \in [method : Methods, arg : Args]
       /\ <<type, call[t].method>> \in Uses
  /\ atomicPc[t] = "apply" => OneOperation(call[t].method)
  /\ atomicPc[t] = "return" => result[t] \in Word
  /\ atomicPc[t] # "return" => result[t] = NoResult

IInv == AtomicTypeOK /\ \A t \in AtomicThreads : CallOK(t)

----------------------------------------------------------------------------
(* The arithmetic of the word.                                             *)

\* A value of the word plus or minus another wraps at most once.
LEMMA WrapOnce ==
  ASSUME NEW a \in Word, NEW b \in Word
  PROVE  /\ a + b < Modulus => AddBits(a, b) = a + b
         /\ a + b >= Modulus => AddBits(a, b) = a + b - Modulus
         /\ a >= b => SubBits(a, b) = a - b
         /\ a < b => SubBits(a, b) = a - b + Modulus
BY AtomicsAssumption DEF Word, AddBits, SubBits

\* Sums and differences are values of the word, and each undoes the other.
LEMMA WordClosed ==
  ASSUME NEW a \in Word, NEW b \in Word
  PROVE  /\ AddBits(a, b) \in Word
         /\ SubBits(a, b) \in Word
         /\ SubBits(AddBits(a, b), b) = a
         /\ AddBits(SubBits(a, b), b) = a
<1>0. Modulus \in Nat /\ a \in Nat /\ b \in Nat /\ a < Modulus /\ b < Modulus
  BY AtomicsAssumption DEF Word
<1>1. AddBits(a, b) \in Word /\ SubBits(a, b) \in Word
  <2>1. a + b \in Int /\ a - b \in Int
    BY <1>0
  <2>. QED
    BY <1>0, <2>1 DEF Word, AddBits, SubBits
<1>2. SubBits(AddBits(a, b), b) = a
  <2>. DEFINE s == AddBits(a, b)
  <2>1. /\ s >= b => SubBits(s, b) = s - b
        /\ s < b => SubBits(s, b) = s - b + Modulus
    BY <1>1, WrapOnce
  <2>2. \/ s = a + b
        \/ s = a + b - Modulus
    BY <1>0, WrapOnce
  <2>. QED
    BY <1>0, <2>1, <2>2
<1>3. AddBits(SubBits(a, b), b) = a
  <2>. DEFINE d == SubBits(a, b)
  <2>1. /\ d + b < Modulus => AddBits(d, b) = d + b
        /\ d + b >= Modulus => AddBits(d, b) = d + b - Modulus
    BY <1>1, WrapOnce
  <2>2. \/ d = a - b
        \/ d = a - b + Modulus
    BY <1>0, WrapOnce
  <2>. QED
    BY <1>0, <2>1, <2>2
<1>. QED
  BY <1>1, <1>2, <1>3

\* Whatever a method computes and returns is a value of the word.
LEMMA MethodClosed ==
  ASSUME NEW m \in Methods, NEW v \in Word, NEW x \in Word
  PROVE  /\ NewValue(m, v, x) \in Word
         /\ Returned(m, v, NewValue(m, v, x)) \in Word
         /\ ReturnedInt(m, v, NewValue(m, v, x), x) \in Word
<1>1. NewValue(m, v, x) \in Word
  BY WordClosed DEF NewValue, Methods
<1>. QED
  BY <1>1, WordClosed DEF Returned, ReturnedInt

\* The kernel build undoes its operation and so finds the value before it.
LEMMA KernelFindsOld ==
  ASSUME type = "int", NEW m \in Methods, NEW v \in Word, NEW x \in Word
  PROVE  ReturnedInt(m, v, NewValue(m, v, x), x) = Returned(m, v, NewValue(m, v, x))
BY WordClosed DEF ReturnedInt, Returned, NewValue

----------------------------------------------------------------------------
\* No thread starts with a call under way.
THEOREM InitInvariant == AtomicInit => IInv
<1>. SUFFICES ASSUME AtomicInit PROVE IInv
  OBVIOUS
<1>1. 0 \in Word
  BY AtomicsAssumption DEF Word
<1>. QED
  BY <1>1 DEF AtomicInit, IInv, AtomicTypeOK, CallOK, NoCall, AtomicLocations

\* A step of one thread keeps the words words and leaves the calls of the
\* others alone.
THEOREM StepInvariant == IInv /\ [AtomicNext]_atomicVars => IInv'
<1>. SUFFICES ASSUME IInv, [AtomicNext]_atomicVars PROVE IInv'
  OBVIOUS
<1>0. AtomicTypeOK /\ \A u \in AtomicThreads : CallOK(u)
  BY DEF IInv
<1>1. CASE UNCHANGED atomicVars
  BY <1>0, <1>1 DEF atomicVars, IInv, AtomicTypeOK, CallOK, OneOperation
<1>2. ASSUME NEW t \in AtomicThreads, Call(t) \/ AtomicStep(t)
      PROVE  IInv'
  <2>0. Args \subseteq Word
    BY AtomicsAssumption
  <2>1. CASE Call(t)
    <3>1. PICK m \in Methods, x \in Args :
            /\ <<type, m>> \in Uses
            /\ call' = [call EXCEPT ![t] = [method |-> m, arg |-> x]]
            /\ atomicPc' = [atomicPc EXCEPT ![t] = IF OneOperation(m) THEN "apply" ELSE "load"]
      BY <2>1 DEF Call, AtomicGoto
    <3>2. AtomicTypeOK'
      BY <1>0, <2>1, <3>1 DEF AtomicTypeOK, Call, AtomicLocations
    <3>3. CallOK(t)'
      BY <1>0, <2>1, <3>1 DEF AtomicTypeOK, CallOK, Call, OneOperation
    <3>4. ASSUME NEW u \in AtomicThreads, u # t PROVE CallOK(u)'
      BY <1>0, <2>1, <3>1, <3>4 DEF AtomicTypeOK, CallOK, Call, OneOperation
    <3>. QED
      BY <3>2, <3>3, <3>4 DEF IInv
  <2>2. CASE Apply(t) \/ CompareAndSwap(t) \/ Load(t)
    <3>1. call[t].method \in Methods /\ call[t].arg \in Word /\ call[t] \in [method : Methods, arg : Args]
          /\ <<type, call[t].method>> \in Uses /\ value \in Word /\ prev[t] \in Word
      BY <1>0, <2>0, <2>2 DEF AtomicTypeOK, CallOK, Apply, CompareAndSwap, Load
    <3>2. /\ value' \in Word
          /\ prev' \in [AtomicThreads -> Word]
          /\ \E loc \in {"load", "cas", "return"} :
               /\ atomicPc' = [atomicPc EXCEPT ![t] = loc]
               /\ \/ loc # "return" /\ UNCHANGED result
                  \/ loc = "return" /\ \E r \in Word : result' = [result EXCEPT ![t] = r]
      <4>1. CASE Apply(t)
        BY <1>0, <3>1, <4>1, MethodClosed DEF AtomicTypeOK, Apply, Settle, AtomicGoto
      <4>2. CASE Load(t)
        BY <1>0, <3>1, <4>2 DEF AtomicTypeOK, Load, AtomicGoto
      <4>3. CASE CompareAndSwap(t)
        <5>1. CASE value = prev[t]
          BY <1>0, <3>1, <4>3, <5>1, MethodClosed DEF AtomicTypeOK, CompareAndSwap, Settle, AtomicGoto
        <5>2. CASE value # prev[t] /\ call[t].method # "exchange"
          BY <1>0, <3>1, <4>3, <5>2 DEF AtomicTypeOK, CompareAndSwap, Settle, AtomicGoto
        <5>3. CASE value # prev[t] /\ call[t].method = "exchange"
          <6>1. atomicPc' = atomicPc /\ atomicPc[t] = "cas" /\ UNCHANGED <<value, result>> /\ prev' = [prev EXCEPT ![t] = value]
            BY <4>3, <5>3 DEF CompareAndSwap
          <6>2. atomicPc' = [atomicPc EXCEPT ![t] = "cas"]
            BY <1>0, <6>1 DEF AtomicTypeOK
          <6>. QED
            BY <1>0, <3>1, <6>1, <6>2 DEF AtomicTypeOK
        <5>. QED
          BY <5>1, <5>2, <5>3
      <4>. QED
        BY <2>2, <4>1, <4>2, <4>3
    <3>3. UNCHANGED <<type, build, call>> /\ atomicPc[t] \notin {"idle", "return"}
      BY <2>2 DEF Apply, Load, CompareAndSwap
    <3>4. AtomicTypeOK'
      BY <1>0, <3>2, <3>3 DEF AtomicTypeOK, AtomicLocations
    <3>5. CallOK(t)'
      BY <1>0, <3>1, <3>2, <3>3 DEF AtomicTypeOK, CallOK
    <3>6. ASSUME NEW u \in AtomicThreads, u # t PROVE CallOK(u)'
      BY <1>0, <3>2, <3>3, <3>6 DEF AtomicTypeOK, CallOK, OneOperation
    <3>. QED
      BY <3>4, <3>5, <3>6 DEF IInv
  <2>3. CASE Return(t)
    <3>1. 0 \in Word /\ NoCall \in [method : Methods \cup {"none"}, arg : Args \cup {0}]
      BY AtomicsAssumption DEF Word, NoCall
    <3>2. AtomicTypeOK'
      BY <1>0, <2>3, <3>1 DEF AtomicTypeOK, Return, AtomicGoto, AtomicLocations
    <3>3. CallOK(t)'
      BY <1>0, <2>3 DEF AtomicTypeOK, CallOK, Return, AtomicGoto
    <3>4. ASSUME NEW u \in AtomicThreads, u # t PROVE CallOK(u)'
      BY <1>0, <2>3, <3>4 DEF AtomicTypeOK, CallOK, Return, AtomicGoto, OneOperation
    <3>. QED
      BY <3>2, <3>3, <3>4 DEF IInv
  <2>. QED
    BY <1>2, <2>1, <2>2, <2>3 DEF AtomicStep
<1>. QED
  BY <1>1, <1>2 DEF AtomicNext

\* IInv holds in every reachable state.
THEOREM Invariant == AtomicSpec => []IInv
<1>1. AtomicInit => IInv
  BY InitInvariant
<1>2. IInv /\ [AtomicNext]_atomicVars => IInv'
  BY StepInvariant
<1>. QED
  BY <1>1, <1>2, PTL DEF AtomicSpec

----------------------------------------------------------------------------
(* The refinement: the step that settles a call is the instant at which it  *)
(* takes effect.                                                            *)

\* Unless it is inc of a double, a method computes what its comment says and
\* returns what its name says.
LEMMA MethodAsPromised ==
  ASSUME NEW m \in Methods, NEW v, NEW x, <<type, m>> # <<"double", "inc">>
  PROVE  /\ NewValue(m, v, x) = Cell!Effect(m, v, x)
         /\ Returned(m, v, NewValue(m, v, x)) =
              IF m \in {"inc", "dec"} THEN Cell!Effect(m, v, x) ELSE v
BY DEF NewValue, Returned, Methods, AddBits, SubBits, Cell!Effect

\* The word is born as the cell is.
LEMMA InitRefines == AtomicInit => Cell!Init
BY DEF AtomicInit, Cell!Init, NoCall, NoResult, Cell!NoCall, Cell!NoResult

\* No step changes the word but the one that settles a call, and that one
\* finds the word as it was when the call computed the new value.
LEMMA StepRefines ==
  ASSUME <<"double", "inc">> \notin Uses
  PROVE  IInv /\ [AtomicNext]_atomicVars => [Cell!Next]_(Cell!vars)
<1>. SUFFICES ASSUME IInv, [AtomicNext]_atomicVars PROVE [Cell!Next]_(Cell!vars)
  OBVIOUS
<1>0. AtomicTypeOK /\ \A u \in AtomicThreads : CallOK(u)
  BY DEF IInv
<1>1. CASE UNCHANGED atomicVars
  BY <1>1 DEF atomicVars, Cell!vars
<1>2. ASSUME NEW t \in AtomicThreads, Call(t) \/ AtomicStep(t)
      PROVE  [Cell!Next]_(Cell!vars)
  <2>0. Args \subseteq Word
    BY AtomicsAssumption
  <2>1. CASE Call(t)
    <3>1. call[t] = NoCall
      BY <1>0, <2>1 DEF CallOK, Call
    <3>2. Cell!Call(t)
      BY <2>0, <2>1, <3>1 DEF Call, Cell!Call, NoCall, Cell!NoCall, Methods, Cell!Methods, Word, Cell!Word
    <3>. QED
      BY <3>2 DEF Cell!Next
  <2>2. CASE Apply(t) \/ (CompareAndSwap(t) /\ value = prev[t])
    <3>. DEFINE m == call[t].method
                x == call[t].arg
                new == NewValue(m, value, x)
    <3>1. /\ m \in Methods /\ x \in Word /\ value \in Word
          /\ <<type, m>> # <<"double", "inc">>
          /\ call[t] # NoCall /\ result[t] = NoResult
      <4>1. atomicPc[t] # "idle" /\ atomicPc[t] # "return"
        BY <2>2 DEF Apply, CompareAndSwap
      <4>2. call[t] \in [method : Methods, arg : Args] /\ <<type, m>> \in Uses /\ result[t] = NoResult
        BY <1>0, <4>1 DEF CallOK
      <4>3. "none" \notin Methods
        BY DEF Methods
      <4>4. call[t] # NoCall
        BY <4>2, <4>3 DEF NoCall
      <4>5. <<type, m>> # <<"double", "inc">>
        BY <4>2
      <4>. QED
        BY <1>0, <2>0, <4>2, <4>4, <4>5 DEF AtomicTypeOK
    <3>2. Settle(t, new, Returned(m, value, new)) /\ UNCHANGED call
      <4>1. CASE Apply(t)
        BY <3>1, <4>1, KernelFindsOld DEF Apply
      <4>2. CASE CompareAndSwap(t) /\ value = prev[t]
        BY <4>2 DEF CompareAndSwap
      <4>. QED
        BY <2>2, <4>1, <4>2
    <3>3. /\ new = Cell!Effect(m, value, x)
          /\ Returned(m, value, new) = IF m \in {"inc", "dec"} THEN Cell!Effect(m, value, x) ELSE value
      BY <3>1, MethodAsPromised
    <3>4. Cell!Apply(t)
      BY <3>1, <3>2, <3>3 DEF Settle, Cell!Apply, NoCall, NoResult, Cell!NoCall, Cell!NoResult
    <3>. QED
      BY <3>4 DEF Cell!Next
  <2>3. CASE Load(t) \/ (CompareAndSwap(t) /\ value # prev[t])
    BY <2>3 DEF Load, CompareAndSwap, Cell!vars
  <2>4. CASE Return(t)
    <3>1. result[t] # NoResult
      <4>1. result[t] \in Word
        BY <1>0, <2>4 DEF CallOK, Return
      <4>2. NoResult \notin Word
        BY AtomicsAssumption DEF Word, NoResult
      <4>. QED
        BY <4>1, <4>2
    <3>2. Cell!Return(t)
      BY <2>4, <3>1 DEF Return, Cell!Return, NoCall, NoResult, Cell!NoCall, Cell!NoResult
    <3>. QED
      BY <3>2 DEF Cell!Next
  <2>. QED
    BY <1>2, <2>1, <2>2, <2>3, <2>4 DEF AtomicStep
<1>. QED
  BY <1>1, <1>2 DEF AtomicNext

\* Every call of a method of atomic<T> but inc of a double takes effect at one
\* instant, adds, subtracts or stores its argument, and returns the value after
\* (inc, dec) or before that (the others), in both builds and whatever the
\* other threads do between its load and its compare-and-swap.  The comments of
\* dec_ret_last(val), which promise the value after, are not what is shown.
THEOREM Refinement ==
  ASSUME <<"double", "inc">> \notin Uses
  PROVE  AtomicSpec => IsAtomic
<1>1. AtomicInit => Cell!Init
  BY InitRefines
<1>2. IInv /\ [AtomicNext]_atomicVars => [Cell!Next]_(Cell!vars)
  BY StepRefines
<1>. QED
  BY <1>1, <1>2, Invariant, PTL DEF AtomicSpec, IsAtomic, Cell!Spec
=============================================================================
