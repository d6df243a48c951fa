------------------------------ MODULE Atomics ------------------------------
(***************************************************************************)
(* atomic<T> of akl/atomic.hpp over sync.c and kern_lib.c, for the three   *)
(* value types and the two builds of the library.                          *)
(*                                                                         *)
(* The int methods are one machine operation.  The float and double        *)
(* methods load the value, compute on its bits as if they were an unsigned *)
(* integer (float.h, double.h) and compare-and-swap the result in, again   *)
(* and again until nobody came in between; so does exchange of the user    *)
(* build, which the kernel build does in one operation.                    *)
(***************************************************************************)
EXTENDS Integers

CONSTANTS AtomicThreads,  \* the threads that share the atomic
          Modulus,        \* the word: 2^32 for int and float, 2^64 for double
          Args,           \* the arguments the methods are called with
          Uses            \* the pairs of a type and a method that are in use

Types   == {"int", "float", "double"}
Builds  == {"user", "kernel"}
Methods == {"inc", "dec", "inc_ret_last", "dec_ret_last", "exchange"}
Word    == 0 .. Modulus - 1

ASSUME AtomicsAssumption ==
  /\ Modulus \in Nat \ {0}
  /\ Args \subseteq Word
  /\ Uses \subseteq Types \X Methods

VARIABLES type,      \* the T of atomic<T>
          build,     \* for which of the two builds
          value,     \* the member value, as bits
          atomicPc,  \* atomicPc[t]: the step t takes next
          call,      \* call[t]: the method t is in and its argument
          prev,      \* prev[t]: prev_value, or prev of the exchange
          result     \* result[t]: what the call returns, once that is settled

atomicVars == <<type, build, value, atomicPc, call, prev, result>>

NoCall   == [method |-> "none", arg |-> 0]
NoResult == -1

AtomicInit ==
  /\ type \in Types
  /\ build \in Builds
  /\ value = 0
  /\ atomicPc = [t \in AtomicThreads |-> "idle"]
  /\ call = [t \in AtomicThreads |-> NoCall]
  /\ prev = [t \in AtomicThreads |-> 0]
  /\ result = [t \in AtomicThreads |-> NoResult]

----------------------------------------------------------------------------
(* What the methods compute.                                               *)

AddBits(a, b) == (a + b) % Modulus
SubBits(a, b) == (a - b) % Modulus

\* new_value: inc of a double subtracts its argument, as dec does.
NewValue(method, v, x) ==
  IF method = "exchange" THEN x
  ELSE IF method = "inc_ret_last" \/ (method = "inc" /\ type # "double") THEN AddBits(v, x)
  ELSE SubBits(v, x)

\* inc and dec return new_value; the others return what they found.
Returned(method, old, new) == IF method \in {"inc", "dec"} THEN new ELSE old

\* The kernel build of fetch_and_add and fetch_and_sub undoes the operation
\* on the value that add_return or sub_return gave it.
ReturnedInt(method, old, new, x) ==
  IF build = "kernel" /\ method = "inc_ret_last" THEN SubBits(new, x)
  ELSE IF build = "kernel" /\ method = "dec_ret_last" THEN AddBits(new, x)
  ELSE Returned(method, old, new)

\* Whether the call is one operation on the word, without a loop.
OneOperation(method) == type = "int" \/ (build = "kernel" /\ method = "exchange")

----------------------------------------------------------------------------
AtomicGoto(t, loc) == atomicPc' = [atomicPc EXCEPT ![t] = loc]

Call(t) ==
  /\ atomicPc[t] = "idle"
  /\ \E m \in Methods, x \in Args :
       /\ <<type, m>> \in Uses
       /\ call' = [call EXCEPT ![t] = [method |-> m, arg |-> x]]
       /\ AtomicGoto(t, IF OneOperation(m) THEN "apply" ELSE "load")
  /\ UNCHANGED <<type, build, value, prev, result>>

Settle(t, new, res) ==
  /\ value' = new
  /\ result' = [result EXCEPT ![t] = res]
  /\ AtomicGoto(t, "return")

\* One __sync builtin, or one atomic_*_return or atomic_xchg of the kernel.
Apply(t) ==
  /\ atomicPc[t] = "apply"
  /\ LET m   == call[t].method
         x   == call[t].arg
         new == NewValue(m, value, x)
     IN  Settle(t, new, IF type = "int" THEN ReturnedInt(m, value, new, x)
                                        ELSE Returned(m, value, new))
  /\ UNCHANGED <<type, build, call, prev>>

Load(t) ==
  /\ atomicPc[t] = "load"
  /\ prev' = [prev EXCEPT ![t] = value]
  /\ AtomicGoto(t, "cas")
  /\ UNCHANGED <<type, build, value, call, result>>

\* As if the new value were stored whatever the word holds by then.
CompareAndSwapBlind(t) ==
  /\ atomicPc[t] = "cas"
  /\ LET new == NewValue(call[t].method, prev[t], call[t].arg)
     IN  Settle(t, new, Returned(call[t].method, prev[t], new))
  /\ UNCHANGED <<type, build, call, prev>>

\* As if a failed exchange tried again with the value it had.
CompareAndSwapStale(t) ==
  /\ atomicPc[t] = "cas"
  /\ LET m   == call[t].method
         new == NewValue(m, prev[t], call[t].arg)
     IN  \/ /\ value = prev[t]
            /\ Settle(t, new, Returned(m, prev[t], new))
         \/ /\ value # prev[t]
            /\ AtomicGoto(t, "cas")
            /\ UNCHANGED <<value, result>>
  /\ UNCHANGED <<type, build, call, prev>>

\* A failed compare-and-swap sends the methods back to their load; exchange
\* goes on with the value that the compare-and-swap returned.
CompareAndSwap(t) ==
  /\ atomicPc[t] = "cas"
  /\ LET m   == call[t].method
         new == NewValue(m, prev[t], call[t].arg)
     IN  \/ /\ value = prev[t]
            /\ Settle(t, new, Returned(m, prev[t], new))
            /\ UNCHANGED prev
         \/ /\ value # prev[t]
            /\ m # "exchange"
            /\ AtomicGoto(t, "load")
            /\ UNCHANGED <<value, prev, result>>
         \/ /\ value # prev[t]
            /\ m = "exchange"
            /\ prev' = [prev EXCEPT ![t] = value]
            /\ UNCHANGED <<value, atomicPc, result>>
  /\ UNCHANGED <<type, build, call>>

Return(t) ==
  /\ atomicPc[t] = "return"
  /\ AtomicGoto(t, "idle")
  /\ call' = [call EXCEPT ![t] = NoCall]
  /\ prev' = [prev EXCEPT ![t] = 0]
  /\ result' = [result EXCEPT ![t] = NoResult]
  /\ UNCHANGED <<type, build, value>>

AtomicStep(t) == Apply(t) \/ Load(t) \/ CompareAndSwap(t) \/ Return(t)

AtomicNext == \E t \in AtomicThreads : Call(t) \/ AtomicStep(t)

AtomicSpec == AtomicInit /\ [][AtomicNext]_atomicVars

----------------------------------------------------------------------------
AtomicLocations == {"idle", "apply", "load", "cas", "return"}

\* Every variable has its type: value and the copies of it are words.
AtomicTypeOK ==
  /\ type \in Types
  /\ build \in Builds
  /\ value \in Word
  /\ atomicPc \in [AtomicThreads -> AtomicLocations]
  /\ call \in [AtomicThreads -> [method : Methods \cup {"none"}, arg : Args \cup {0}]]
  /\ prev \in [AtomicThreads -> Word]
  /\ result \in [AtomicThreads -> Word \cup {NoResult}]

\* Every call takes effect at one instant between its call and its return, and
\* returns what its name says, the value after inc and dec and the value before
\* inc_ret_last, dec_ret_last and exchange.  No update is lost between a load and
\* the compare-and-swap, also when the word changed and changed back in between.
Cell == INSTANCE AtomicCell WITH Threads <- AtomicThreads, ReturnsNew <- {"inc", "dec"}
IsAtomic == Cell!Spec

\* The same with what the comments say of the value that is returned: the ones
\* of dec_ret_last(val) promise the new value (atomic.hpp:107, 206, 321, 442).
CommentedCell ==
  INSTANCE AtomicCell WITH Threads <- AtomicThreads,
                           ReturnsNew <- {"inc", "dec", "dec_ret_last"}
IsAsCommented == CommentedCell!Spec

\* The loops are lock-free: while calls are under way, some call finishes,
\* however the threads are interleaved.
SomeCallFinishes ==
  (\E t \in AtomicThreads : atomicPc[t] # "idle")
    ~> (\E t \in AtomicThreads : atomicPc[t] = "return")
=============================================================================
