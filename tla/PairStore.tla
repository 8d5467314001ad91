------------------------------ MODULE PairStore ------------------------------
(***************************************************************************)
(* What the hash table promises the threads that call it: each call takes  *)
(* effect at one point between its begin and its return, on one set of     *)
(* key-value pairs.  Insert may refuse a new pair only when a whole bucket *)
(* is filled with pairs whose hashes cannot be told apart from the key's.  *)
(***************************************************************************)
EXTENDS Naturals, FiniteSets

CONSTANTS Threads,
          Keys,
          Values,
          Hash,       \* Hash[k]: the bits of k's hash that a directory can use
          BucketSize, \* how many pairs a bucket holds
          NoCall,     \* call[t] when t has not called the table
          Pending     \* answer[t] before t's call has taken effect

VARIABLES pairs,  \* the pairs in the table
          call,   \* the call a thread is in
          answer  \* what the call will return

vars == <<pairs, call, answer>>

Init == /\ pairs = {}
        /\ call = [t \in Threads |-> NoCall]
        /\ answer = [t \in Threads |-> Pending]

Calls == [op : {"GetValue"}, key : Keys]
           \union [op : {"Insert", "Remove"}, key : Keys, value : Values]

Begin(t, c) == /\ call[t] = NoCall
               /\ call' = [call EXCEPT ![t] = c]
               /\ UNCHANGED <<pairs, answer>>

In(t, op) == call[t] # NoCall /\ call[t].op = op /\ answer[t] = Pending

Answer(t, success, values) ==
  /\ answer' = [answer EXCEPT ![t] = [ok |-> success, found |-> values]]
  /\ UNCHANGED call

GetValue(t) ==
  LET values == {v \in Values : <<call[t].key, v>> \in pairs}
  IN  /\ In(t, "GetValue")
      /\ Answer(t, values # {}, values)
      /\ UNCHANGED pairs

Crowded(k) == Cardinality({p \in pairs : Hash[p[1]] = Hash[k]}) >= BucketSize

Insert(t) ==
  LET p == <<call[t].key, call[t].value>>
  IN  /\ In(t, "Insert")
      /\ \/ /\ p \notin pairs
            /\ pairs' = pairs \union {p}
            /\ Answer(t, TRUE, {})
         \/ /\ p \in pairs \/ Crowded(p[1])
            /\ UNCHANGED pairs
            /\ Answer(t, FALSE, {})

Remove(t) ==
  LET p == <<call[t].key, call[t].value>>
  IN  /\ In(t, "Remove")
      /\ pairs' = pairs \ {p}
      /\ Answer(t, p \in pairs, {})

Return(t) == /\ call[t] # NoCall
             /\ answer[t] # Pending
             /\ call' = [call EXCEPT ![t] = NoCall]
             /\ answer' = [answer EXCEPT ![t] = Pending]
             /\ UNCHANGED pairs

Next == \E t \in Threads : \/ \E c \in Calls : Begin(t, c)
                           \/ GetValue(t) \/ Insert(t) \/ Remove(t)
                           \/ Return(t)

Spec == Init /\ [][Next]_vars
=============================================================================
