---------------------------- MODULE AtomicCell ----------------------------
(***************************************************************************)
(* What akl/atomic.hpp promises of atomic<T>: each call of a method takes  *)
(* effect at one instant between its call and its return, adds, subtracts  *)
(* or stores its argument at that instant, and returns the value after it  *)
(* if its method is in ReturnsNew, and the value before it otherwise.      *)
(***************************************************************************)
EXTENDS Integers

CONSTANTS Threads, Modulus, ReturnsNew

VARIABLES value,  \* the word
          call,   \* call[t]: the call that t has under way
          result  \* result[t]: what it returns, once it took effect

vars == <<value, call, result>>

Word == 0 .. Modulus - 1

Methods == {"inc", "dec", "inc_ret_last", "dec_ret_last", "exchange"}

\* No call under way, and no result yet.
NoCall   == [method |-> "none", arg |-> 0]
NoResult == -1

Effect(method, v, x) ==
  IF method = "exchange" THEN x
  ELSE IF method \in {"inc", "inc_ret_last"} THEN (v + x) % Modulus
  ELSE (v - x) % Modulus

Init ==
  /\ value = 0
  /\ call = [t \in Threads |-> NoCall]
  /\ result = [t \in Threads |-> NoResult]

Call(t) ==
  /\ call[t] = NoCall
  /\ \E m \in Methods, x \in Word : call' = [call EXCEPT ![t] = [method |-> m, arg |-> x]]
  /\ UNCHANGED <<value, result>>

Apply(t) ==
  /\ call[t] # NoCall
  /\ result[t] = NoResult
  /\ LET new == Effect(call[t].method, value, call[t].arg)
     IN  /\ value' = new
         /\ result' = [result EXCEPT ![t] = IF call[t].method \in ReturnsNew THEN new ELSE value]
  /\ UNCHANGED call

Return(t) ==
  /\ result[t] # NoResult
  /\ call' = [call EXCEPT ![t] = NoCall]
  /\ result' = [result EXCEPT ![t] = NoResult]
  /\ UNCHANGED value

Next == \E t \in Threads : Call(t) \/ Apply(t) \/ Return(t)

Spec == Init /\ [][Next]_vars
=============================================================================
