----------------------------- MODULE ChatProofs -----------------------------
(***************************************************************************)
(* The safety of a chat session, for any number of requests, any retry     *)
(* limit and history window, and any bounds on failures.  The invariant    *)
(* has one part for each mechanism: the counted gate, the acknowledgement  *)
(* that comes after the write, the MessageID and the retry counter carried *)
(* by a delivery, and the window of the resident helper.                   *)
(***************************************************************************)
EXTENDS ChatProperties, FiniteSetTheorems, SequenceTheorems, TLAPS

\* The requests between Register and ReleaseGate have the registered gate,
\* which counts them, and whose token the one inside holds.
GateIsHeld ==
  /\ \A t \in Turns : turn[t].gate # NoGate <=> turn[t].pc \in Waiting \cup Inside \cup {"release"}
  /\ \A t \in Turns : turn[t].gate # NoGate => turn[t].gate = registry
  /\ \A g \in Turns : IsFiniteSet(Users(g)) /\ gates[g].refs = Cardinality(Users(g))
  /\ \A t \in Turns : turn[t].pc \in Inside => gates[turn[t].gate].token

\* A delivery is acknowledged only when its message is somewhere else.
AckIsSafe == consumer.pc = "ack" => LET m == consumer.delivery.msg
                                    IN Stored(m) \/ Queued(m) \/ m \in dlq

\* A delivery has been handed back at most once for every failed write.
RetriesAreFaults ==
  /\ \A i \in 1..Len(queue) : queue[i].retries <= faults.db
  /\ consumer.pc # "idle" => consumer.delivery.retries <= faults.db
  /\ consumer.pc = "retry" => consumer.delivery.retries < faults.db

\* Every copy of a message, with its MessageID: in a row, in the queue, with the
\* consumer (also when its channel is gone) or with the request that saves it.
Content(seq) == {seq[i] : i \in 1..Len(seq)}
Copy(d) == [msg |-> d.msg, id |-> d.id]
Saving == {t \in Turns : turn[t].pc \in {"publish", "store"}}
Handled == IF consumer.pc = "idle" THEN {} ELSE {Copy(consumer.delivery)}
Own(t) == [msg |-> Mine(t), id |-> turn[t].id]
Carried == Content(rows) \cup {Copy(d) : d \in Content(queue)} \cup Handled
           \cup {Own(t) : t \in Saving}

\* What request t has yet to say.
Unsaid(t, who) == \/ who = "assistant" /\ turn[t].who = "user"
                  \/ who = turn[t].who /\ turn[t].pc \in {"new", "waiting", "load", "say"}

\* MySQL keeps its index unique; the copies of a message, and only they, have
\* its MessageID; a message that is yet to be said has no copy.
RowsAreKeyed == \A i, j \in 1..Len(rows) : rows[i].id = rows[j].id => i = j
KeysAreDrawn == \A c \in Carried : c.id \in 1..issued
KeysAreShared == \A c, e \in Carried : c.msg = e.msg <=> c.id = e.id
UnsaidIsAbsent == \A t \in Turns, who \in {"user", "assistant"} :
                    Unsaid(t, who) => \A c \in Carried : c.msg # <<t, who>>
UserSpeaksFirst == \A t \in Turns : turn[t].pc \in {"new", "model"} => turn[t].who = "user"

\* While the helper stays in memory, its window is full or holds everything
\* that was saved, and the message that is being saved as well.
In(m, seq) == \E i \in 1..Len(seq) : seq[i] = m
Holds(m) == Len(helper.messages) = MaxHistory \/ In(m, helper.messages)
WindowIsKept ==
  lifetime.crashes = 0 /\ lifetime.evictions = 0 =>
    /\ ~helper.resident => saved = {}
    /\ \A m \in saved : Holds(m)
    /\ \A t \in Turns : /\ turn[t].pc \in {"say", "publish", "store", "model"} => helper.resident
                        /\ turn[t].pc \in {"publish", "store"} => Holds(Mine(t))
WindowIsBounded == Len(helper.messages) <= MaxHistory

QueueInv == AckIsSafe /\ SavedIsKept /\ RetriesAreFaults /\ DeadLetterIsEarned
KeyInv == RowsAreKeyed /\ KeysAreDrawn /\ KeysAreShared /\ UnsaidIsAbsent /\ UserSpeaksFirst
GateInv == GateIsHeld /\ OneTurnInside
WindowInv == WindowIsBounded /\ WindowIsKept
IInv == TypeOK /\ QueueInv /\ KeyInv /\ GateInv /\ WindowInv

-----------------------------------------------------------------------------
(* Sequences, seen as the sets of what they hold.                          *)

\* What Append, Tail and concatenation do to the content.
LEMMA ContentOf ==
  ASSUME NEW S, NEW a \in Seq(S)
  PROVE  /\ \A x \in S : /\ Append(a, x) \in Seq(S)
                         /\ Content(Append(a, x)) = Content(a) \cup {x}
         /\ a # <<>> => /\ Head(a) \in S /\ Tail(a) \in Seq(S)
                        /\ Content(a) = Content(Tail(a)) \cup {Head(a)}
         /\ \A b \in Seq(S) : /\ a \o b \in Seq(S)
                              /\ Content(a \o b) = Content(a) \cup Content(b)
         /\ Content(a) \subseteq S
  <1>1. ASSUME NEW x \in S
        PROVE  Append(a, x) \in Seq(S) /\ Content(Append(a, x)) = Content(a) \cup {x}
    BY AppendProperties, LenProperties DEF Content
  <1>2. ASSUME a # <<>>
        PROVE  /\ Head(a) \in S /\ Tail(a) \in Seq(S)
               /\ Content(a) = Content(Tail(a)) \cup {Head(a)}
    <2>1. /\ Head(a) \in S /\ Tail(a) \in Seq(S) /\ Len(Tail(a)) = Len(a) - 1
          /\ \A i \in 1..Len(Tail(a)) : Tail(a)[i] = a[i + 1]
      BY <1>2, HeadTailProperties
    <2>2. Head(a) = a[1] /\ Len(a) \in Nat \ {0}
      BY <1>2, EmptySeq
    <2>3. ASSUME NEW i \in 1..Len(a), i # 1 PROVE i - 1 \in 1..Len(Tail(a)) /\ a[i] = Tail(a)[i - 1]
      BY <2>1, <2>2, <2>3
    <2>4. Content(a) \subseteq Content(Tail(a)) \cup {Head(a)}
      BY <2>2, <2>3 DEF Content
    <2>5. Content(Tail(a)) \subseteq Content(a)
      BY <2>1, <2>2 DEF Content
    <2>6. Head(a) \in Content(a)
      BY <2>2 DEF Content
    <2> QED BY <2>1, <2>4, <2>5, <2>6
  <1>3. ASSUME NEW b \in Seq(S)
        PROVE  a \o b \in Seq(S) /\ Content(a \o b) = Content(a) \cup Content(b)
    <2>1. /\ a \o b \in Seq(S) /\ Len(a \o b) = Len(a) + Len(b)
          /\ \A i \in 1..Len(a) + Len(b) :
               (a \o b)[i] = IF i <= Len(a) THEN a[i] ELSE b[i - Len(a)]
      BY ConcatProperties
    <2>2. Len(a) \in Nat /\ Len(b) \in Nat
      BY LenProperties
    <2>3. Content(a \o b) \subseteq Content(a) \cup Content(b)
      BY <2>1, <2>2 DEF Content
    <2>4. Content(a) \subseteq Content(a \o b)
      BY <2>1, <2>2 DEF Content
    <2>5. ASSUME NEW i \in 1..Len(b) PROVE b[i] \in Content(a \o b)
      <3>1. i + Len(a) \in 1..Len(a \o b) /\ (a \o b)[i + Len(a)] = b[i]
        BY <2>1, <2>2
      <3> QED BY <3>1 DEF Content
    <2> QED BY <2>1, <2>3, <2>4, <2>5 DEF Content
  <1>4. Content(a) \subseteq S
    BY LenProperties DEF Content
  <1> QED BY <1>1, <1>2, <1>3, <1>4

\* n copies of one delivery.
LEMMA CopiesContent ==
  ASSUME NEW S, NEW x \in S, NEW n \in Nat
  PROVE  /\ [i \in 1..n |-> x] \in Seq(S)
         /\ Content([i \in 1..n |-> x]) \subseteq {x}
         /\ n # 0 => x \in Content([i \in 1..n |-> x])
  <1>1. [i \in 1..n |-> x] \in Seq(S) /\ Len([i \in 1..n |-> x]) = n
    OBVIOUS
  <1> QED BY <1>1 DEF Content

\* A window holds at most MaxHistory messages; one that is not full has lost none.
LEMMA RecentOf ==
  ASSUME NEW S, NEW a \in Seq(S)
  PROVE  /\ Recent(a) \in Seq(S) /\ Len(Recent(a)) <= MaxHistory
         /\ Len(Recent(a)) # MaxHistory => Recent(a) = a
  <1> DEFINE m == IF Len(a) > MaxHistory THEN Len(a) - MaxHistory + 1 ELSE 1
  <1>1. /\ Len(a) \in Nat /\ MaxHistory \in Nat \ {0} /\ m \in Int /\ m >= 1
        /\ \A i \in m..Len(a) : a[i] \in S
    BY LenProperties, SessionAssumption
  <1>2. /\ SubSeq(a, m, Len(a)) \in Seq(S)
        /\ Len(SubSeq(a, m, Len(a))) = IF m <= Len(a) THEN Len(a) - m + 1 ELSE 0
    BY <1>1, SubSeqProperties
  <1>3. Len(a) <= MaxHistory => m = 1
    BY <1>1
  <1>4. Len(a) > MaxHistory => m = Len(a) - MaxHistory + 1 /\ m <= Len(a)
    BY <1>1
  <1>5. Recent(a) = SubSeq(a, m, Len(a))
    BY DEF Recent
  <1> HIDE DEF m
  <1>6. Len(a) <= MaxHistory => Recent(a) = a
    BY <1>3, <1>5, SubSeqFull
  <1>7. Len(a) > MaxHistory => Len(Recent(a)) = MaxHistory
    BY <1>1, <1>2, <1>4, <1>5
  <1> QED BY <1>1, <1>2, <1>5, <1>6, <1>7

-----------------------------------------------------------------------------
(* Where a request goes.                                                   *)

\* Request t moves to pc and keeps its gate.
Steps(t, pc) ==
  /\ turn' \in [Turns -> Turn]
  /\ turn'[t].pc = pc /\ turn'[t].gate = turn[t].gate
  /\ \A u \in Turns \ {t} : turn'[u] = turn[u]

\* Goto leaves the rest of the request alone.
LEMMA GotoEffect ==
  ASSUME TypeOK, NEW t \in Turns, NEW pc \in Pcs, Goto(t, pc)
  PROVE  Steps(t, pc) /\ Mine(t)' = Mine(t) /\ turn'[t].id = turn[t].id /\ turn'[t].who = turn[t].who
  BY DEF TypeOK, Turn, Goto, Steps, Mine

\* PublishUnconfirmed counts its tries as well.
LEMMA WriteEffect ==
  ASSUME TypeOK, NEW t \in Turns, NEW pc \in Pcs, NEW n \in 0..1,
         turn' = [turn EXCEPT ![t].tries = n, ![t].pc = pc]
  PROVE  Steps(t, pc) /\ turn'[t].who = turn[t].who /\ turn'[t].id = turn[t].id
  BY DEF TypeOK, Steps, Turn

\* Register and ReleaseGate also write the gate of the request.
LEMMA GateEffect ==
  ASSUME TypeOK, NEW t \in Turns, NEW pc \in Pcs, NEW g \in Turns \cup {NoGate},
         turn' = [turn EXCEPT ![t].pc = pc, ![t].gate = g]
  PROVE  /\ turn' \in [Turns -> Turn] /\ turn'[t].pc = pc
         /\ turn'[t].who = turn[t].who /\ turn'[t].id = turn[t].id
         /\ \A u \in Turns \ {t} : turn'[u] = turn[u]
  BY DEF TypeOK, Turn

\* A message that is said gets the next MessageID.
LEMMA SayEffect ==
  ASSUME TypeOK, NEW t \in Turns, Say(t)
  PROVE  /\ turn[t].pc = "say" /\ issued \in Nat /\ issued' = issued + 1
         /\ Steps(t, IF broker THEN "publish" ELSE "store")
         /\ turn'[t].who = turn[t].who /\ turn'[t].id = issued + 1
  <1> DEFINE pc == IF broker THEN "publish" ELSE "store"
             id == issued + 1
  <1>1. turn \in [Turns -> Turn] /\ id \in Nat /\ pc \in Pcs /\ 0 \in 0..1
    BY DEF TypeOK, Pcs, Inside
  <1>2. turn' = [turn EXCEPT ![t].pc = pc, ![t].id = id, ![t].tries = 0]
    BY DEF Say, EnsureMessageID
  <1> HIDE DEF pc, id
  <1>3. Steps(t, pc) /\ turn'[t].who = turn[t].who /\ turn'[t].id = id
    BY <1>1, <1>2 DEF Steps, Turn
  <1> QED BY <1>3 DEF Say, At, Drawn, TypeOK, pc, id

\* The model's answer is the second message of its request.
LEMMA AnswerEffect ==
  ASSUME TypeOK, NEW t \in Turns, ModelAnswers(t)
  PROVE  turn[t].pc = "model" /\ Steps(t, "say") /\ turn'[t].who = "assistant"
  <1>1. turn \in [Turns -> Turn] /\ "say" \in Pcs /\ "assistant" \in {"user", "assistant"}
    BY DEF TypeOK, Pcs, Inside
  <1>2. turn' = [turn EXCEPT ![t].pc = "say", ![t].who = "assistant"]
    BY DEF ModelAnswers
  <1>3. Steps(t, "say") /\ turn'[t].who = "assistant"
    BY <1>1, <1>2 DEF Steps, Turn
  <1> QED BY <1>3 DEF ModelAnswers, At

\* The request's own message is one of the session's.
LEMMA MineType ==
  ASSUME TypeOK, NEW t \in Turns PROVE Mine(t) \in Messages
  BY DEF TypeOK, Turn, Mine, Messages

\* A request that is inside the gate stays inside, or one that waits gives up.
LEMMA GateKept ==
  ASSUME TypeOK, GateInv, NEW t \in Turns, NEW pc \in Pcs, Steps(t, pc), UNCHANGED gateVars,
         \/ turn[t].pc \in Inside /\ pc \in Inside
         \/ turn[t].pc = "waiting" /\ pc = "release"
  PROVE  GateInv'
  <1> USE DEF Steps, gateVars, Waiting, Inside
  <1>1. \A g \in Turns : Users(g)' = Users(g)
    BY DEF Users
  <1>2. GateIsHeld'
    BY <1>1 DEF GateInv, GateIsHeld
  <1>3. OneTurnInside'
    BY DEF GateInv, OneTurnInside
  <1> QED BY <1>2, <1>3 DEF GateInv

\* A request that registers is counted by the gate it finds or makes.
LEMMA RegisterGate ==
  ASSUME TypeOK, GateInv, NEW t \in Turns, Register(t)
  PROVE  GateInv'
  <1> USE DEF Waiting, Inside
  <1>0. PICK g \in Turns : g = IF registry = NoGate THEN t ELSE registry
    BY DEF TypeOK
  <1>1. g \in Turns /\ g # NoGate /\ (registry # NoGate => g = registry)
    BY <1>0, GateAssumption
  <1>2. turn[t].pc = "new" /\ turn[t].gate = NoGate /\ registry' = g
    BY <1>0 DEF Register, GateInv, GateIsHeld, At
  <1>3. /\ turn'[t].pc = "waiting" /\ turn'[t].gate = g
        /\ \A u \in Turns \ {t} : turn'[u] = turn[u]
    BY <1>0, <1>1 DEF Register, TypeOK, Turn
  <1>4. /\ gates'[g].refs = gates[g].refs + 1 /\ gates'[g].token = gates[g].token
        /\ \A h \in Turns \ {g} : gates'[h] = gates[h]
    BY <1>0, <1>1 DEF Register, TypeOK, Gate
  <1>5. Users(g)' = Users(g) \cup {t} /\ t \notin Users(g)
    BY <1>1, <1>2, <1>3 DEF Users
  <1>6. \A h \in Turns \ {g} : Users(h)' = Users(h)
    BY <1>1, <1>2, <1>3, GateAssumption DEF Users
  <1>7. \A h \in Turns : IsFiniteSet(Users(h))' /\ gates'[h].refs = Cardinality(Users(h))'
    <2>1. IsFiniteSet(Users(g)) /\ gates[g].refs = Cardinality(Users(g))
      BY <1>1 DEF GateInv, GateIsHeld
    <2>2. IsFiniteSet(Users(g) \cup {t}) /\ Cardinality(Users(g) \cup {t}) = Cardinality(Users(g)) + 1
      BY <1>5, <2>1, FS_AddElement
    <2>3. IsFiniteSet(Users(g))' /\ gates'[g].refs = Cardinality(Users(g))'
      BY <1>4, <1>5, <2>1, <2>2
    <2>4. ASSUME NEW h \in Turns \ {g} PROVE IsFiniteSet(Users(h))' /\ gates'[h].refs = Cardinality(Users(h))'
      BY <1>4, <1>6 DEF GateInv, GateIsHeld
    <2> QED BY <1>1, <2>3, <2>4
  <1>8. GateIsHeld'
    <2>1. /\ \A u \in Turns : turn[u].gate # NoGate => turn[u].gate = g
          /\ \A u \in Turns : gates'[u].token = gates[u].token
      BY <1>1, <1>4, GateAssumption DEF GateInv, GateIsHeld
    <2>2. \A u \in Turns : turn'[u].gate # NoGate <=> turn'[u].pc \in Waiting \cup Inside \cup {"release"}
      BY <1>1, <1>3 DEF GateInv, GateIsHeld
    <2>3. \A u \in Turns : turn'[u].gate # NoGate => turn'[u].gate = registry'
      BY <1>1, <1>2, <1>3, <2>1
    <2>4. \A u \in Turns : turn'[u].pc \in Inside => gates'[turn'[u].gate].token
      BY <1>3, <2>1 DEF GateInv, GateIsHeld, TypeOK, Turn
    <2> QED BY <1>7, <2>2, <2>3, <2>4 DEF GateIsHeld
  <1>9. OneTurnInside'
    BY <1>3 DEF GateInv, OneTurnInside
  <1> QED BY <1>8, <1>9 DEF GateInv

\* The token of the registered gate is free, so nobody is inside.
LEMMA TakeTokenGate ==
  ASSUME TypeOK, GateInv, NEW t \in Turns, TakeToken(t)
  PROVE  GateInv'
  <1> USE DEF Waiting, Inside
  <1> DEFINE g == turn[t].gate
  <1>1. turn[t].pc = "waiting" /\ g \in Turns /\ g = registry /\ ~gates[g].token /\ registry' = registry
    BY DEF TakeToken, GateInv, GateIsHeld, At, TypeOK, Turn
  <1>2. Steps(t, "load")
    BY GotoEffect DEF TakeToken, Pcs
  <1>3. /\ gates'[g].refs = gates[g].refs /\ gates'[g].token
        /\ \A h \in Turns \ {g} : gates'[h] = gates[h]
    BY <1>1 DEF TakeToken, TypeOK, Gate
  <1> HIDE DEF g
  <1>4. \A u \in Turns : turn[u].pc \notin Inside
    BY <1>1 DEF GateInv, GateIsHeld
  <1> USE DEF Steps
  <1>5. \A h \in Turns : Users(h)' = Users(h)
    BY <1>2 DEF Users
  <1>6. GateIsHeld'
    BY <1>1, <1>2, <1>3, <1>4, <1>5 DEF GateInv, GateIsHeld, g
  <1>7. OneTurnInside'
    BY <1>2, <1>4 DEF OneTurnInside
  <1> QED BY <1>6, <1>7 DEF GateInv

\* The request that leaves was the only one inside.
LEMMA ReturnTokenGate ==
  ASSUME TypeOK, GateInv, NEW t \in Turns, ReturnToken(t)
  PROVE  GateInv'
  <1> USE DEF Waiting, Inside
  <1> DEFINE g == turn[t].gate
  <1>1. turn[t].pc = "unlock" /\ g \in Turns /\ registry' = registry
    BY DEF ReturnToken, GateInv, GateIsHeld, At, TypeOK, Turn
  <1>2. Steps(t, "release")
    BY GotoEffect DEF ReturnToken, Pcs
  <1>3. \A h \in Turns : gates'[h].refs = gates[h].refs
    BY <1>1 DEF ReturnToken, TypeOK, Gate
  <1>4. \A u \in Turns \ {t} : turn[u].pc \notin Inside
    BY <1>1 DEF GateInv, OneTurnInside
  <1> USE DEF Steps
  <1>5. \A h \in Turns : Users(h)' = Users(h)
    BY <1>2 DEF Users
  <1>6. GateIsHeld'
    BY <1>1, <1>2, <1>3, <1>4, <1>5 DEF GateInv, GateIsHeld
  <1>7. OneTurnInside'
    BY <1>2, <1>4 DEF OneTurnInside
  <1> QED BY <1>6, <1>7 DEF GateInv

\* The last user takes the gate out of the registry, and only the last.
LEMMA ReleaseGateGate ==
  ASSUME TypeOK, GateInv, NEW t \in Turns, ReleaseGate(t)
  PROVE  GateInv'
  <1> USE DEF Waiting, Inside
  <1>0. turn[t].pc = "release" /\ turn[t].gate \in Turns /\ turn[t].gate = registry
    BY DEF ReleaseGate, GateInv, GateIsHeld, At, TypeOK, Turn
  <1>1. PICK g \in Turns : g = turn[t].gate /\ g = registry
    BY <1>0
  <1>2. /\ turn'[t].pc = "done" /\ turn'[t].gate = NoGate
        /\ \A u \in Turns \ {t} : turn'[u] = turn[u]
    BY DEF ReleaseGate, TypeOK, Turn
  <1>3. /\ gates'[g].refs = gates[g].refs - 1 /\ gates'[g].token = gates[g].token
        /\ \A h \in Turns \ {g} : gates'[h] = gates[h]
        /\ registry' = IF gates[g].refs = 1 THEN NoGate ELSE registry
    BY <1>1 DEF ReleaseGate, TypeOK, Gate
  <1>4. Users(g)' = Users(g) \ {t} /\ t \in Users(g)
    BY <1>1, <1>2, GateAssumption DEF Users
  <1>5. \A h \in Turns \ {g} : Users(h)' = Users(h)
    BY <1>1, <1>2, GateAssumption DEF Users
  <1>6. IsFiniteSet(Users(g)) /\ gates[g].refs = Cardinality(Users(g))
    BY <1>1 DEF GateInv, GateIsHeld
  <1>7. \A h \in Turns : IsFiniteSet(Users(h))' /\ gates'[h].refs = Cardinality(Users(h))'
    <2>1. IsFiniteSet(Users(g) \ {t}) /\ Cardinality(Users(g) \ {t}) = Cardinality(Users(g)) - 1
      BY <1>4, <1>6, FS_RemoveElement
    <2>2. IsFiniteSet(Users(g))' /\ gates'[g].refs = Cardinality(Users(g))'
      BY <1>3, <1>4, <1>6, <2>1
    <2>3. ASSUME NEW h \in Turns \ {g}
          PROVE  IsFiniteSet(Users(h))' /\ gates'[h].refs = Cardinality(Users(h))'
      BY <1>3, <1>5 DEF GateInv, GateIsHeld
    <2> QED BY <1>1, <2>2, <2>3
  <1>8. gates[g].refs = 1 => \A u \in Turns \ {t} : turn[u].gate # g
    <2> SUFFICES ASSUME gates[g].refs = 1 PROVE Users(g) = {t}
      BY DEF Users
    <2>1. \E x : Users(g) = {x}
      BY <1>6, FS_Singleton
    <2> QED BY <1>4, <2>1
  <1>9. GateIsHeld'
    <2>1. \A u \in Turns : turn'[u].gate # NoGate <=> turn'[u].pc \in Waiting \cup Inside \cup {"release"}
      BY <1>2 DEF GateInv, GateIsHeld
    <2>2. \A u \in Turns : turn'[u].gate # NoGate => turn'[u].gate = registry'
      BY <1>1, <1>2, <1>3, <1>8 DEF GateInv, GateIsHeld
    <2>3. \A u \in Turns : turn'[u].pc \in Inside => gates'[turn'[u].gate].token
      BY <1>1, <1>2, <1>3 DEF GateInv, GateIsHeld, TypeOK, Turn
    <2> QED BY <1>7, <2>1, <2>2, <2>3 DEF GateIsHeld
  <1>10. OneTurnInside'
    BY <1>2 DEF GateInv, OneTurnInside
  <1> QED BY <1>9, <1>10 DEF GateInv

\* A restart starts with an empty registry.
LEMMA RestartGate ==
  ASSUME TypeOK, GateInv, Restart
  PROVE  GateInv'
  <1> USE DEF Waiting, Inside
  <1>1. \A t \in Turns : turn'[t].pc \in {"new", "done"} /\ turn'[t].gate = NoGate
    BY DEF Restart, At, NewTurn, TypeOK, Turn
  <1>2. \A g \in Turns : gates'[g].refs = 0
    BY DEF Restart, NewGate
  <1>3. \A g \in Turns : Users(g)' = {}
    BY <1>1, GateAssumption DEF Users
  <1>4. GateIsHeld'
    BY <1>1, <1>2, <1>3, FS_EmptySet DEF GateIsHeld
  <1>5. OneTurnInside'
    BY <1>1 DEF OneTurnInside
  <1> QED BY <1>4, <1>5 DEF GateInv

-----------------------------------------------------------------------------
(* The queue, its consumer and the rows.                                   *)

QueueTyped ==
  /\ rows \in Seq(Row) /\ queue \in Seq(Delivery)
  /\ dlq \subseteq Messages /\ saved \subseteq Messages
  /\ \/ consumer = NoDelivery
     \/ consumer \in [pc : {"handle", "ack", "retry"}, live : BOOLEAN, delivery : Delivery]
  /\ broker \in BOOLEAN /\ issued \in Nat /\ faults \in [mq : Nat, db : Nat]

Msgs(S) == {d.msg : d \in S}

\* The delivery the broker takes back when the channel closes.
Unacked == IF consumer.pc # "idle" /\ consumer.live THEN {consumer.delivery} ELSE {}

\* QueueInv, in terms of what the sequences hold.
LEMMA QueueFacts ==
  ASSUME TypeOK, QueueInv
  PROVE  /\ \A m \in saved : \/ m \in Msgs(Content(rows)) \/ m \in dlq
                             \/ \E d \in Content(queue) \cup Unacked : d.msg = m
         /\ \A d \in Content(queue) \cup Unacked : d.retries <= faults.db
         /\ consumer.pc = "ack" => \/ consumer.delivery.msg \in Msgs(Content(rows)) \cup dlq
                                   \/ \E d \in Content(queue) : d.msg = consumer.delivery.msg
         /\ dlq # {} => faults.db > MaxRetries
  BY DEF QueueInv, SavedIsKept, AckIsSafe, RetriesAreFaults, DeadLetterIsEarned, Stored, Queued,
         Content, Unacked, Msgs

\* The same for the next state.
LEMMA QueueFactsNext ==
  ASSUME \A m \in saved' : \/ m \in Msgs(Content(rows')) \/ m \in dlq'
                           \/ \E d \in Content(queue') \cup Unacked' : d.msg = m,
         \A d \in Content(queue') : d.retries <= faults'.db,
         consumer'.pc # "idle" => consumer'.delivery.retries <= faults'.db,
         consumer'.pc = "retry" => consumer'.delivery.retries < faults'.db,
         consumer'.pc = "ack" => \/ consumer'.delivery.msg \in Msgs(Content(rows')) \cup dlq'
                                 \/ \E d \in Content(queue') : d.msg = consumer'.delivery.msg,
         dlq' # {} => faults'.db > MaxRetries
  PROVE  QueueInv'
  <1>1. SavedIsKept'
    BY DEF SavedIsKept, Stored, Queued, Content, Unacked, Msgs
  <1>2. AckIsSafe'
    BY DEF AckIsSafe, Stored, Queued, Content, Msgs
  <1>3. RetriesAreFaults' /\ DeadLetterIsEarned'
    BY DEF RetriesAreFaults, DeadLetterIsEarned, Content
  <1> QED BY <1>1, <1>2, <1>3 DEF QueueInv

\* A copy of a message that is inserted has its row afterwards, and no row is
\* added when it had one before.
LEMMA CreateEffect ==
  ASSUME TypeOK, KeyInv, NEW m \in Messages, NEW id \in Nat, [msg |-> m, id |-> id] \in Carried,
         CreateMessage(m, id)
  PROVE  /\ rows' \in Seq(Row) /\ issued' = issued /\ RowsAreKeyed'
         /\ Content(rows) \subseteq Content(rows')
         /\ Content(rows') \subseteq Content(rows) \cup {[msg |-> m, id |-> id]}
         /\ m \in Msgs(Content(rows'))
  <1>0. PICK c \in Carried : c = [msg |-> m, id |-> id]
    OBVIOUS
  <1>1. c \in Row /\ c.msg = m /\ c.id = id /\ id # NoId
    <2>1. c.id \in 1..issued
      BY DEF KeyInv, KeysAreDrawn
    <2> QED BY <1>0, <2>1 DEF Row, NoId
  <1>2. /\ rows \in Seq(Row) /\ issued' = issued
        /\ rows' = IF \E i \in 1..Len(rows) : rows[i].id = id THEN rows ELSE Append(rows, c)
    BY <1>0, <1>1 DEF CreateMessage, EnsureMessageID, Drawn, TypeOK
  <1>3. CASE \E i \in 1..Len(rows) : rows[i].id = id
    <2>1. rows' = rows
      BY <1>2, <1>3
    <2>2. PICK i \in 1..Len(rows) : rows[i].id = id
      BY <1>3
    <2>3. rows[i] \in Content(rows) /\ rows[i] \in Carried
      BY DEF Content, Carried
    <2>4. rows[i].msg = m
      BY <1>1, <2>2, <2>3 DEF KeyInv, KeysAreShared
    <2>5. m \in Msgs(Content(rows))
      BY <2>3, <2>4 DEF Msgs
    <2> QED BY <1>2, <2>1, <2>5 DEF KeyInv, RowsAreKeyed
  <1>4. CASE ~(\E i \in 1..Len(rows) : rows[i].id = id)
    <2>1. rows' = Append(rows, c)
      BY <1>2, <1>4
    <2>2. rows' \in Seq(Row) /\ Content(rows') = Content(rows) \cup {c}
      BY <1>1, <1>2, <2>1, ContentOf
    <2>3. /\ Len(rows') = Len(rows) + 1 /\ Len(rows) \in Nat
          /\ \A i \in 1..Len(rows) : rows'[i] = rows[i]
          /\ rows'[Len(rows) + 1] = c
      BY <1>1, <1>2, <2>1, AppendProperties, LenProperties
    <2>4. \A i \in 1..Len(rows) : rows[i].id # c.id
      BY <1>1, <1>4
    <2>5. RowsAreKeyed'
      BY <2>3, <2>4 DEF KeyInv, RowsAreKeyed
    <2>6. m \in Msgs(Content(rows'))
      BY <1>1, <2>2 DEF Msgs
    <2> QED BY <1>0, <1>2, <2>2, <2>5, <2>6
  <1> QED BY <1>3, <1>4

\* The delivery in hand goes back to the queue, if there is one.
LEMMA RequeuedContent ==
  ASSUME TypeOK
  PROVE  Requeued \in Seq(Delivery) /\ Content(Requeued) = Content(queue) \cup Unacked
  <1>1. CASE consumer.pc # "idle" /\ consumer.live
    <2>1. consumer.delivery \in Delivery /\ queue \in Seq(Delivery)
      BY <1>1 DEF TypeOK, NoDelivery
    <2>2. <<consumer.delivery>> \in Seq(Delivery) /\ Content(<<consumer.delivery>>) = {consumer.delivery}
      BY <2>1 DEF Content
    <2>3. Requeued = <<consumer.delivery>> \o queue /\ Unacked = {consumer.delivery}
      BY <1>1 DEF Requeued, Unacked
    <2>4. \A a, b \in Seq(Delivery) : a \o b \in Seq(Delivery) /\ Content(a \o b) = Content(a) \cup Content(b)
      BY ContentOf
    <2>5. Requeued \in Seq(Delivery) /\ Content(Requeued) = Content(<<consumer.delivery>>) \cup Content(queue)
      BY <2>1, <2>2, <2>3, <2>4
    <2> QED BY <2>2, <2>3, <2>5
  <1>2. CASE ~(consumer.pc # "idle" /\ consumer.live)
    BY <1>2 DEF Requeued, Unacked, TypeOK
  <1> QED BY <1>1, <1>2

\* Only a failed write raises faults.db.
LEMMA FaultEffect ==
  ASSUME TypeOK
  PROVE  /\ MqFault => faults' \in [mq : Nat, db : Nat] /\ faults'.db = faults.db
         /\ DbFault => faults' \in [mq : Nat, db : Nat] /\ faults'.db = faults.db + 1
  BY DEF TypeOK, MqFault, DbFault

\* A delivery that is taken from the queue is still held, unacknowledged.
LEMMA ReceiveQueue ==
  ASSUME TypeOK, QueueInv, Receive, UNCHANGED saved
  PROVE  QueueTyped' /\ QueueInv'
  <1>1. /\ queue \in Seq(Delivery) /\ queue # <<>> /\ queue' = Tail(queue) /\ consumer.pc = "idle"
        /\ consumer' = [pc |-> "handle", live |-> TRUE, delivery |-> Head(queue)]
        /\ UNCHANGED <<rows, dlq, broker, issued, faults, saved>>
    BY DEF Receive, TypeOK
  <1>2. /\ Head(queue) \in Delivery /\ queue' \in Seq(Delivery)
        /\ Content(queue) = Content(queue') \cup {Head(queue)}
    BY <1>1, ContentOf
  <1>3. Unacked = {} /\ Unacked' = {Head(queue)}
    BY <1>1 DEF Unacked
  <1>4. QueueTyped'
    BY <1>1, <1>2 DEF QueueTyped, TypeOK
  <1>6. /\ consumer'.pc = "handle" /\ consumer'.delivery = Head(queue)
        /\ Head(queue).retries <= faults.db /\ \A d \in Content(queue') : d.retries <= faults.db
    BY <1>1, <1>2, QueueFacts
  <1>7. \A m \in saved' : \/ m \in Msgs(Content(rows')) \/ m \in dlq'
                          \/ \E d \in Content(queue') \cup Unacked' : d.msg = m
    BY <1>1, <1>2, <1>3, QueueFacts
  <1>8. dlq' # {} => faults'.db > MaxRetries
    BY <1>1, QueueFacts
  <1>9. QueueInv'
    BY <1>1, <1>6, <1>7, <1>8, QueueFactsNext
  <1> QED BY <1>4, <1>9

\* A delivery becomes ready to be acknowledged with its row, or fails.
LEMMA PersistQueue ==
  ASSUME TypeOK, QueueInv, KeyInv, Persist, UNCHANGED saved
  PROVE  QueueTyped' /\ QueueInv'
  <1>1. /\ consumer.pc = "handle" /\ UNCHANGED <<queue, dlq, broker, saved>>
        /\ consumer \in [pc : {"handle", "ack", "retry"}, live : BOOLEAN, delivery : Delivery]
    BY DEF Persist, TypeOK, NoDelivery
  <1>2. /\ consumer.delivery \in Delivery /\ consumer.delivery.msg \in Messages
        /\ consumer.delivery.id \in Nat /\ Copy(consumer.delivery) \in Carried
    BY <1>1 DEF Delivery, Carried, Handled
  <1>3. PICK pc \in {"ack", "retry"} :
          /\ consumer' = [consumer EXCEPT !.pc = pc]
          /\ pc = "ack" => CreateMessage(consumer.delivery.msg, consumer.delivery.id) /\ UNCHANGED faults
          /\ pc = "retry" => DbFault /\ UNCHANGED <<rows, issued>>
    BY DEF Persist
  <1>4. /\ consumer' \in [pc : {"handle", "ack", "retry"}, live : BOOLEAN, delivery : Delivery]
        /\ consumer'.pc = pc /\ consumer'.delivery = consumer.delivery /\ consumer'.live = consumer.live
    BY <1>1, <1>3
  <1>5. Unacked' = Unacked
    BY <1>1, <1>4 DEF Unacked
  <1>6. consumer.delivery.retries \in Nat /\ faults.db \in Nat /\ consumer.delivery.retries <= faults.db
    BY <1>1, <1>2, QueueAssumption DEF Delivery, TypeOK, QueueInv, RetriesAreFaults
  <1>7. CASE pc = "ack"
    <2>1. /\ rows' \in Seq(Row) /\ issued' = issued /\ faults' = faults
          /\ Content(rows) \subseteq Content(rows')
          /\ consumer.delivery.msg \in Msgs(Content(rows'))
      BY <1>2, <1>3, <1>7, CreateEffect DEF Copy
    <2>2. QueueTyped'
      BY <1>1, <1>4, <2>1 DEF QueueTyped, TypeOK
    <2>3. QueueInv'
      <3>1. Msgs(Content(rows)) \subseteq Msgs(Content(rows'))
        BY <2>1 DEF Msgs
      <3> QED BY <1>1, <1>4, <1>5, <1>6, <1>7, <2>1, <3>1, QueueFacts, QueueFactsNext
    <2> QED BY <2>2, <2>3
  <1>8. CASE pc = "retry"
    <2>1. rows' = rows /\ issued' = issued /\ faults' \in [mq : Nat, db : Nat] /\ faults'.db = faults.db + 1
      BY <1>3, <1>8, FaultEffect
    <2>2. QueueTyped'
      BY <1>1, <1>4, <2>1 DEF QueueTyped, TypeOK
    <2>4. \A d \in Content(queue') : d.retries <= faults'.db
      <3>0. Content(queue) \subseteq Delivery
        BY ContentOf DEF TypeOK
      <3>1. \A d \in Content(queue) : d.retries \in Nat
        BY <3>0, QueueAssumption DEF Delivery
      <3> QED BY <1>1, <1>6, <2>1, <3>1, QueueFacts
    <2>5. dlq' # {} => faults'.db > MaxRetries
      BY <1>1, <1>6, <2>1, QueueFacts, QueueAssumption
    <2>6. QueueInv'
      BY <1>1, <1>4, <1>5, <1>6, <1>8, <2>1, <2>4, <2>5, QueueFacts, QueueFactsNext
    <2> QED BY <2>2, <2>6
  <1> QED BY <1>7, <1>8

\* An acknowledged delivery is held elsewhere; a lost acknowledgement only
\* brings it back.
LEMMA AckQueue ==
  ASSUME TypeOK, QueueInv, Ack, UNCHANGED saved
  PROVE  QueueTyped' /\ QueueInv'
  <1>1. /\ consumer.pc = "ack" /\ consumer' = NoDelivery /\ UNCHANGED <<rows, dlq, broker, issued, saved>>
        /\ UNCHANGED <<queue, faults>> \/ (MqFault /\ queue' = Requeued)
    BY DEF Ack
  <1>2. /\ faults' \in [mq : Nat, db : Nat] /\ faults'.db = faults.db /\ queue' \in Seq(Delivery)
        /\ Content(queue) \subseteq Content(queue') /\ Content(queue') \subseteq Content(queue) \cup Unacked
    BY <1>1, FaultEffect, RequeuedContent DEF TypeOK
  <1>3. consumer'.pc = "idle" /\ Unacked' = {}
    BY <1>1 DEF NoDelivery, Unacked
  <1>4. QueueTyped'
    BY <1>1, <1>2 DEF QueueTyped, TypeOK
  <1>6. \A m \in saved' : \/ m \in Msgs(Content(rows')) \/ m \in dlq'
                          \/ \E d \in Content(queue') \cup Unacked' : d.msg = m
    <2>1. \A d \in Unacked : d = consumer.delivery
      BY DEF Unacked
    <2> QED BY <1>1, <1>2, <1>3, <2>1, QueueFacts
  <1>7. QueueInv'
    BY <1>1, <1>2, <1>3, <1>6, QueueFacts, QueueFactsNext
  <1> QED BY <1>4, <1>7

\* What Republish leaves in the two queues.
LEMMA RepublishEffect ==
  ASSUME TypeOK, NEW d \in Delivery, NEW n \in Nat, NEW left \in Seq(Delivery),
         Republish(d, n, left), d.retries < faults.db
  PROVE  /\ queue' \in Seq(Delivery) /\ Content(left) \subseteq Content(queue')
         /\ \A e \in Content(queue') : e \in Content(left) \/ (e.retries <= faults.db /\ Copy(e) = Copy(d))
         /\ dlq \subseteq dlq' /\ dlq' \subseteq Messages
         /\ dlq' # dlq => faults.db > MaxRetries
         /\ n # 0 => d.msg \in dlq' \/ \E e \in Content(queue') : e.msg = d.msg
  <1>0. d.msg \in Messages /\ d.retries \in 0..MaxRetries /\ MaxRetries \in Nat /\ faults.db \in Nat
    BY QueueAssumption DEF TypeOK, Delivery
  <1>1. CASE Exhausted(d)
    BY <1>0, <1>1 DEF Republish, Exhausted, TypeOK
  <1>2. CASE ~Exhausted(d)
    <2> DEFINE copy == [d EXCEPT !.retries = @ + 1]
    <2> DEFINE copies == [i \in 1..n |-> copy]
    <2>1. copy \in Delivery /\ copy.msg = d.msg /\ copy.retries <= faults.db /\ Copy(copy) = Copy(d)
      BY <1>0, <1>2 DEF Delivery, Exhausted, Copy
    <2>2. queue' = left \o copies /\ dlq' = dlq
      BY <1>2 DEF Republish
    <2> HIDE DEF copy
    <2>3. /\ copies \in Seq(Delivery) /\ Content(copies) \subseteq {copy}
          /\ n # 0 => copy \in Content(copies)
      BY <2>1, CopiesContent
    <2> HIDE DEF copies
    <2>4. queue' \in Seq(Delivery) /\ Content(queue') = Content(left) \cup Content(copies)
      BY <2>2, <2>3, ContentOf
    <2> QED BY <2>1, <2>2, <2>3, <2>4 DEF TypeOK
  <1> QED BY <1>1, <1>2

\* A failed delivery is republished before it is given up.
LEMMA RetryQueue ==
  ASSUME TypeOK, QueueInv, RetryOrDeadLetter, UNCHANGED saved
  PROVE  QueueTyped' /\ QueueInv'
  <1>1. /\ consumer.pc = "retry" /\ UNCHANGED <<rows, broker, issued, saved>>
        /\ consumer \in [pc : {"handle", "ack", "retry"}, live : BOOLEAN, delivery : Delivery]
    BY DEF RetryOrDeadLetter, TypeOK, NoDelivery
  <1>2. consumer.delivery \in Delivery /\ consumer.delivery.retries < faults.db
    BY <1>1 DEF QueueInv, RetriesAreFaults
  <1>3. queue \in Seq(Delivery) /\ Requeued \in Seq(Delivery) /\ Content(Requeued) = Content(queue) \cup Unacked
    BY RequeuedContent DEF TypeOK
  <1>5. CASE /\ Republish(consumer.delivery, 1, queue)
             /\ consumer' = [consumer EXCEPT !.pc = "ack"] /\ UNCHANGED faults
    <2>1. /\ queue' \in Seq(Delivery) /\ Content(queue) \subseteq Content(queue')
          /\ \A e \in Content(queue') : e \in Content(queue) \/ e.retries <= faults.db
          /\ dlq \subseteq dlq' /\ dlq' \subseteq Messages
          /\ dlq' # dlq => faults.db > MaxRetries
          /\ consumer.delivery.msg \in dlq' \/ \E e \in Content(queue') : e.msg = consumer.delivery.msg
      <3>1. PICK n \in Nat : n # 0 /\ Republish(consumer.delivery, n, queue)
        BY <1>5
      <3> QED BY <1>2, <1>3, <3>1, RepublishEffect
    <2>2. /\ consumer' \in [pc : {"handle", "ack", "retry"}, live : BOOLEAN, delivery : Delivery]
          /\ consumer'.pc = "ack" /\ consumer'.delivery = consumer.delivery /\ consumer'.live = consumer.live
      BY <1>1, <1>5
    <2>3. Unacked' = Unacked
      BY <1>1, <2>2 DEF Unacked
    <2>4. QueueTyped'
      BY <1>1, <1>5, <2>1, <2>2 DEF QueueTyped, TypeOK
    <2>5. consumer.delivery.retries <= faults.db
      BY <1>1 DEF QueueInv, RetriesAreFaults
    <2>6. QueueInv'
      BY <1>1, <1>5, <2>1, <2>2, <2>3, <2>5, QueueFacts, QueueFactsNext
    <2> QED BY <2>4, <2>6
  <1>6. CASE /\ MqFault /\ consumer' = NoDelivery
             /\ \E copies \in 0..2 : Republish(consumer.delivery, copies, Requeued)
    <2>1. /\ queue' \in Seq(Delivery) /\ Content(Requeued) \subseteq Content(queue')
          /\ \A e \in Content(queue') : e \in Content(Requeued) \/ e.retries <= faults.db
          /\ dlq \subseteq dlq' /\ dlq' \subseteq Messages
          /\ dlq' # dlq => faults.db > MaxRetries
      BY <1>2, <1>3, <1>6, RepublishEffect
    <2>2. faults' \in [mq : Nat, db : Nat] /\ faults'.db = faults.db
      BY <1>6, FaultEffect
    <2>3. consumer'.pc = "idle" /\ Unacked' = {}
      BY <1>6 DEF NoDelivery, Unacked
    <2>4. QueueTyped'
      BY <1>1, <1>6, <2>1, <2>2 DEF QueueTyped, TypeOK
    <2>5. QueueInv'
      BY <1>1, <1>3, <2>1, <2>2, <2>3, QueueFacts, QueueFactsNext
    <2> QED BY <2>4, <2>5
  <1> QED BY <1>5, <1>6 DEF RetryOrDeadLetter

\* A request saves its message: it is published, or written to MySQL.
LEMMA SaveQueue ==
  ASSUME TypeOK, QueueInv, KeyInv, NEW t \in Turns, PublishConfirmed(t) \/ Store(t)
  PROVE  QueueTyped' /\ QueueInv'
  <1>0. Mine(t) \in Messages /\ Fresh(t) \in Delivery /\ Fresh(t).msg = Mine(t)
        /\ Fresh(t).retries = 0 /\ faults.db \in Nat /\ turn[t].id \in Nat
    BY MineType, QueueAssumption DEF Fresh, Delivery, TypeOK, Turn
  <1>1. CASE PublishConfirmed(t)
    <2>1. /\ queue' = Append(queue, Fresh(t)) /\ saved' = saved \cup {Mine(t)}
          /\ UNCHANGED <<rows, dlq, consumer, broker, issued, faults>> /\ queue \in Seq(Delivery)
      BY <1>1 DEF PublishConfirmed, Saved, TypeOK
    <2>2. queue' \in Seq(Delivery) /\ Content(queue') = Content(queue) \cup {Fresh(t)}
      BY <1>0, <2>1, ContentOf
    <2>3. Unacked' = Unacked
      BY <2>1 DEF Unacked
    <2>4. QueueTyped'
      BY <1>0, <2>1, <2>2 DEF QueueTyped, TypeOK
    <2>5. /\ consumer.pc # "idle" => consumer.delivery.retries <= faults.db
          /\ consumer.pc = "retry" => consumer.delivery.retries < faults.db
      BY DEF QueueInv, RetriesAreFaults
    <2>6. QueueInv'
      BY <1>0, <2>1, <2>2, <2>3, <2>5, QueueFacts, QueueFactsNext
    <2> QED BY <2>4, <2>6
  <1>2. CASE Store(t)
    <2>1. UNCHANGED <<queue, dlq, consumer, broker>>
      BY <1>2 DEF Store
    <2>2. /\ rows' \in Seq(Row) /\ issued' = issued /\ Content(rows) \subseteq Content(rows')
          /\ faults' \in [mq : Nat, db : Nat] /\ faults'.db \in {faults.db, faults.db + 1}
          /\ saved' = saved \/ (saved' = saved \cup {Mine(t)} /\ Mine(t) \in Msgs(Content(rows')))
      <3>1. CASE CreateMessage(Mine(t), turn[t].id) /\ Saved(t) /\ UNCHANGED faults
        <4>0. [msg |-> Mine(t), id |-> turn[t].id] \in Carried
          BY <1>2 DEF Carried, Saving, Own, Store, At
        <4>1. /\ rows' \in Seq(Row) /\ issued' = issued /\ Content(rows) \subseteq Content(rows')
              /\ Mine(t) \in Msgs(Content(rows'))
          BY <1>0, <3>1, <4>0, CreateEffect
        <4> QED BY <3>1, <4>1 DEF Saved, TypeOK
      <3>2. CASE DbFault /\ UNCHANGED <<rows, issued, saved>>
        BY <3>2, FaultEffect DEF TypeOK
      <3> QED BY <1>2, <3>1, <3>2 DEF Store
    <2>3. Unacked' = Unacked
      BY <2>1 DEF Unacked
    <2>4. QueueTyped'
      BY <1>0, <2>1, <2>2 DEF QueueTyped, TypeOK
    <2>5. /\ consumer.pc # "idle" => consumer.delivery.retries <= faults'.db
          /\ consumer.pc = "retry" => consumer.delivery.retries < faults'.db
          /\ \A d \in Content(queue) : d.retries <= faults'.db
          /\ dlq # {} => faults'.db > MaxRetries
      <3>0. Content(queue) \subseteq Delivery
        BY ContentOf DEF TypeOK
      <3>1. /\ \A d \in Content(queue) : d.retries \in Nat
            /\ consumer.pc # "idle" => consumer.delivery.retries \in Nat
            /\ MaxRetries \in Nat
        BY <3>0, QueueAssumption DEF Delivery, TypeOK, NoDelivery
      <3>2. /\ consumer.pc # "idle" => consumer.delivery.retries <= faults.db
            /\ consumer.pc = "retry" => consumer.delivery.retries < faults.db
        BY DEF QueueInv, RetriesAreFaults
      <3> QED BY <1>0, <2>2, <3>1, <3>2, QueueFacts
    <2>6. Msgs(Content(rows)) \subseteq Msgs(Content(rows'))
      BY <2>2 DEF Msgs
    <2>7. QueueInv'
      BY <2>1, <2>2, <2>3, <2>5, <2>6, QueueFacts, QueueFactsNext
    <2> QED BY <2>4, <2>7
  <1> QED BY <1>1, <1>2

\* A channel that closes, with or without the process, loses nothing.
LEMMA CutQueue ==
  ASSUME TypeOK, QueueInv, (\E t \in Turns : PublishUnconfirmed(t)) \/ Restart
  PROVE  QueueTyped' /\ QueueInv'
  <1>1. /\ UNCHANGED <<rows, dlq, issued, saved>> /\ broker' \in BOOLEAN
        /\ consumer' \in {NoDelivery, Cut} /\ (MqFault \/ UNCHANGED faults)
    BY DEF PublishUnconfirmed, Restart, TypeOK
  <1>2. \/ queue' = Requeued
        \/ \E t \in Turns : queue' = Append(Requeued, Fresh(t))
    BY DEF PublishUnconfirmed, Restart
  <1>3. /\ queue' \in Seq(Delivery) /\ Content(queue) \cup Unacked \subseteq Content(queue')
        /\ \A d \in Content(queue') : d \in Content(queue) \cup Unacked \/ d.retries = 0
    <2>1. CASE queue' = Requeued
      BY <2>1, RequeuedContent
    <2>2. CASE \E t \in Turns : queue' = Append(Requeued, Fresh(t))
      <3>0. PICK t \in Turns : queue' = Append(Requeued, Fresh(t))
        BY <2>2
      <3>1. Fresh(t) \in Delivery /\ Fresh(t).retries = 0
        BY MineType, QueueAssumption DEF Fresh, Delivery, TypeOK, Turn
      <3>2. Requeued \in Seq(Delivery) /\ Content(Requeued) = Content(queue) \cup Unacked
        BY RequeuedContent
      <3>3. \A a \in Seq(Delivery), x \in Delivery :
              Append(a, x) \in Seq(Delivery) /\ Content(Append(a, x)) = Content(a) \cup {x}
        BY ContentOf
      <3>4. queue' \in Seq(Delivery) /\ Content(queue') = Content(Requeued) \cup {Fresh(t)}
        BY <3>0, <3>1, <3>2, <3>3
      <3> QED BY <3>1, <3>2, <3>4
    <2> QED BY <1>2, <2>1, <2>2
  <1>4. /\ \/ consumer' = NoDelivery
           \/ consumer' \in [pc : {"handle", "ack", "retry"}, live : BOOLEAN, delivery : Delivery]
        /\ consumer'.pc \in {"idle", consumer.pc} /\ ~consumer'.live
        /\ consumer'.pc # "idle" => consumer'.delivery = consumer.delivery
    <2>1. CASE consumer' = NoDelivery
      BY <2>1 DEF NoDelivery
    <2>2. CASE consumer.pc # "idle" /\ consumer' = [consumer EXCEPT !.live = FALSE]
      <3>1. consumer \in [pc : {"handle", "ack", "retry"}, live : BOOLEAN, delivery : Delivery]
        BY <2>2 DEF TypeOK, NoDelivery
      <3> QED BY <2>2, <3>1
    <2>3. CASE consumer.pc = "idle" /\ consumer' = consumer
      BY <2>3 DEF TypeOK, NoDelivery
    <2> QED BY <1>1, <2>1, <2>2, <2>3 DEF Cut
  <1>5. faults' \in [mq : Nat, db : Nat] /\ faults'.db = faults.db /\ faults.db \in Nat
    BY <1>1, FaultEffect DEF TypeOK
  <1>6. Unacked' = {}
    BY <1>1, <1>4 DEF Unacked
  <1>7. QueueTyped'
    BY <1>1, <1>3, <1>4, <1>5 DEF QueueTyped, TypeOK
  <1>8. /\ consumer'.pc # "idle" => consumer'.delivery.retries <= faults'.db
        /\ consumer'.pc = "retry" => consumer'.delivery.retries < faults'.db
    BY <1>4, <1>5 DEF QueueInv, RetriesAreFaults
  <1>9. QueueInv'
    BY <1>1, <1>3, <1>4, <1>5, <1>6, <1>8, QueueFacts, QueueFactsNext
  <1> QED BY <1>7, <1>9

\* Every other step leaves the queue alone.
LEMMA OtherQueue ==
  ASSUME TypeOK, QueueInv, UNCHANGED <<rows, queue, dlq, consumer, broker, faults, saved>>, issued' \in Nat
  PROVE  QueueTyped' /\ QueueInv'
  <1>1. QueueTyped'
    BY DEF TypeOK, QueueTyped
  <1>2. AckIsSafe' /\ SavedIsKept'
    BY DEF QueueInv, AckIsSafe, SavedIsKept, Stored, Queued
  <1>3. RetriesAreFaults' /\ DeadLetterIsEarned'
    BY DEF QueueInv, RetriesAreFaults, DeadLetterIsEarned
  <1> QED BY <1>1, <1>2, <1>3 DEF QueueInv

-----------------------------------------------------------------------------
(* The MessageIDs.                                                         *)

\* A step in which request t makes no new copy and has no more left to say.
Moves(t) ==
  /\ turn'[t].pc \in {"publish", "store"} => turn[t].pc \in {"publish", "store"} /\ Own(t)' = Own(t)
  /\ \A who \in {"user", "assistant"} : Unsaid(t, who)' => Unsaid(t, who)
  /\ turn'[t].pc \in {"new", "model"} => turn'[t].who = "user"

\* Copies that come from copies share the MessageID.
LEMMA KeyMoves ==
  ASSUME KeyInv, RowsAreKeyed', issued' = issued, Content(rows') \subseteq Carried,
         \A d \in Content(queue') : Copy(d) \in Carried, Handled' \subseteq Carried,
         \A t \in Turns : Moves(t)
  PROVE  KeyInv'
  <1>1. \A t \in Turns : turn'[t].pc \in {"publish", "store"} => Own(t)' \in Carried
    BY DEF Moves, Carried, Saving
  <1>2. Carried' \subseteq Carried
    BY <1>1 DEF Carried, Saving
  <1>3. KeysAreDrawn' /\ KeysAreShared'
    BY <1>2 DEF KeyInv, KeysAreDrawn, KeysAreShared
  <1>4. UnsaidIsAbsent' /\ UserSpeaksFirst'
    BY <1>2 DEF KeyInv, UnsaidIsAbsent, UserSpeaksFirst, Moves
  <1> QED BY <1>3, <1>4 DEF KeyInv

\* A request that goes on, keeping its message.
LEMMA TurnMoves ==
  ASSUME KeyInv, NEW t \in Turns, \A u \in Turns \ {t} : turn'[u] = turn[u],
         turn'[t].who = turn[t].who, turn'[t].id = turn[t].id,
         turn'[t].pc \in {"publish", "store"} => turn[t].pc = "publish",
         turn'[t].pc \in {"new", "waiting", "load", "say"} => turn[t].pc \in {"new", "waiting", "load"},
         turn'[t].pc = "new" => turn[t].pc = "new",
         turn'[t].pc = "model" => turn[t].who = "user"
  PROVE  \A u \in Turns : Moves(u)
  <1>1. Moves(t)
    BY DEF Moves, Own, Mine, Unsaid, KeyInv, UserSpeaksFirst
  <1>2. ASSUME NEW u \in Turns \ {t} PROVE Moves(u)
    BY <1>2 DEF Moves, Own, Mine, Unsaid, KeyInv, UserSpeaksFirst
  <1> QED BY <1>1, <1>2

\* The copies that stay where they are.
LEMMA CopiesStay ==
  ASSUME TypeOK
  PROVE  /\ UNCHANGED queue => \A d \in Content(queue') : Copy(d) \in Carried
         /\ UNCHANGED rows => /\ Content(rows') \subseteq Carried
                              /\ KeyInv => RowsAreKeyed'
         /\ UNCHANGED consumer => Handled' \subseteq Carried
         /\ \A d \in Content(queue) \cup Unacked : Copy(d) \in Carried
  <1>1. \A d \in Content(queue) \cup Unacked : Copy(d) \in Carried
    BY DEF Carried, Unacked, Handled
  <1>2. UNCHANGED rows => Content(rows') \subseteq Carried /\ (KeyInv => RowsAreKeyed')
    BY DEF Carried, KeyInv, RowsAreKeyed
  <1>3. UNCHANGED consumer => Handled' \subseteq Carried
    BY DEF Carried, Handled
  <1> QED BY <1>1, <1>2, <1>3

\* The consumer makes its row, and its copies, from the delivery it has.
LEMMA ConsumerKeys ==
  ASSUME TypeOK, QueueInv, KeyInv, ConsumerStep, UNCHANGED turn
  PROVE  KeyInv'
  <1>0. \A t \in Turns : Moves(t)
    BY DEF Moves, Own, Mine, Unsaid, KeyInv, UserSpeaksFirst
  <1>1. CASE Receive
    <2>1. /\ queue \in Seq(Delivery) /\ queue # <<>> /\ queue' = Tail(queue)
          /\ consumer' = [pc |-> "handle", live |-> TRUE, delivery |-> Head(queue)]
          /\ UNCHANGED <<rows, issued>>
      BY <1>1 DEF Receive, TypeOK
    <2>2. Content(queue) = Content(queue') \cup {Head(queue)}
      BY <2>1, ContentOf
    <2>3. Handled' = {Copy(Head(queue))}
      BY <2>1 DEF Handled, Copy
    <2> QED BY <1>0, <2>1, <2>2, <2>3, CopiesStay, KeyMoves
  <1>2. CASE Persist
    <2>1. /\ consumer.pc = "handle" /\ UNCHANGED queue
          /\ consumer \in [pc : {"handle", "ack", "retry"}, live : BOOLEAN, delivery : Delivery]
      BY <1>2 DEF Persist, TypeOK, NoDelivery
    <2>2. /\ consumer.delivery.msg \in Messages /\ consumer.delivery.id \in Nat
          /\ Copy(consumer.delivery) \in Carried
      BY <2>1 DEF Delivery, Carried, Handled
    <2>3. Handled' \subseteq Carried
      <3>1. PICK pc \in {"ack", "retry"} : consumer' = [consumer EXCEPT !.pc = pc]
        BY <1>2 DEF Persist
      <3>2. consumer'.delivery = consumer.delivery
        BY <2>1, <3>1
      <3> QED BY <2>2, <3>2 DEF Handled, Copy
    <2>4. CASE CreateMessage(consumer.delivery.msg, consumer.delivery.id)
      <3>1. /\ issued' = issued /\ RowsAreKeyed'
            /\ Content(rows') \subseteq Content(rows) \cup {Copy(consumer.delivery)}
        BY <2>2, <2>4, CreateEffect DEF Copy
      <3>2. Content(rows') \subseteq Carried
        BY <2>2, <3>1 DEF Carried
      <3> QED BY <1>0, <2>1, <2>3, <3>1, <3>2, CopiesStay, KeyMoves
    <2>5. CASE UNCHANGED <<rows, issued>>
      BY <1>0, <2>1, <2>3, <2>5, CopiesStay, KeyMoves
    <2> QED BY <1>2, <2>4, <2>5 DEF Persist
  <1>3. CASE Ack
    <2>1. /\ consumer' = NoDelivery /\ UNCHANGED <<rows, issued>>
          /\ queue' = queue \/ queue' = Requeued
      BY <1>3 DEF Ack
    <2>2. Content(queue') \subseteq Content(queue) \cup Unacked
      BY <2>1, RequeuedContent
    <2>3. Handled' = {}
      BY <2>1 DEF Handled, NoDelivery
    <2> QED BY <1>0, <2>1, <2>2, <2>3, CopiesStay, KeyMoves
  <1>4. CASE RetryOrDeadLetter
    <2>1. /\ consumer.pc = "retry" /\ UNCHANGED <<rows, issued>>
          /\ consumer \in [pc : {"handle", "ack", "retry"}, live : BOOLEAN, delivery : Delivery]
      BY <1>4 DEF RetryOrDeadLetter, TypeOK, NoDelivery
    <2>2. /\ consumer.delivery \in Delivery /\ consumer.delivery.retries < faults.db
          /\ Copy(consumer.delivery) \in Carried
      BY <2>1 DEF QueueInv, RetriesAreFaults, Carried, Handled
    <2>3. queue \in Seq(Delivery) /\ Requeued \in Seq(Delivery) /\ Content(Requeued) = Content(queue) \cup Unacked
      BY RequeuedContent DEF TypeOK
    <2>4. PICK n \in Nat, left \in {queue, Requeued} : Republish(consumer.delivery, n, left)
      BY <1>4 DEF RetryOrDeadLetter
    <2>5. \A e \in Content(queue') : e \in Content(left) \/ Copy(e) = Copy(consumer.delivery)
      BY <2>2, <2>3, <2>4, RepublishEffect
    <2>6. \A e \in Content(queue') : Copy(e) \in Carried
      BY <2>2, <2>3, <2>5, CopiesStay
    <2>7. Handled' \subseteq Carried
      <3>1. consumer' = NoDelivery \/ consumer' = [consumer EXCEPT !.pc = "ack"]
        BY <1>4 DEF RetryOrDeadLetter
      <3>2. consumer'.pc = "idle" \/ consumer'.delivery = consumer.delivery
        BY <2>1, <3>1 DEF NoDelivery
      <3> QED BY <2>2, <3>2 DEF Handled, Copy
    <2> QED BY <1>0, <2>1, <2>6, <2>7, CopiesStay, KeyMoves
  <1> QED BY <1>1, <1>2, <1>3, <1>4 DEF ConsumerStep

\* A request publishes or inserts its message under the one MessageID it drew.
LEMMA SaveKeys ==
  ASSUME TypeOK, KeyInv, NEW t \in Turns, PublishConfirmed(t) \/ PublishUnconfirmed(t) \/ Store(t)
  PROVE  KeyInv'
  <1>0. /\ Mine(t) \in Messages /\ turn[t].id \in Nat /\ turn[t].pc \in {"publish", "store"}
        /\ Own(t) \in Carried /\ Copy(Fresh(t)) = Own(t) /\ Fresh(t) \in Delivery
    BY MineType, QueueAssumption DEF PublishConfirmed, PublishUnconfirmed, Store, At, Own, Carried, Saving,
       TypeOK, Turn, Copy, Fresh, Delivery
  <1>1. \A u \in Turns : Moves(u)
    <2>1. CASE PublishConfirmed(t) \/ Store(t)
      <3>1. PICK pc \in {"model", "unlock"} : Goto(t, pc) /\ (pc = "model" => turn[t].who = "user")
        BY <2>1 DEF PublishConfirmed, Store, Saved, AfterSave
      <3>2. pc \in Pcs
        BY DEF Pcs, Inside
      <3>3. /\ turn'[t].pc = pc /\ turn'[t].who = turn[t].who /\ turn'[t].id = turn[t].id
            /\ \A u \in Turns \ {t} : turn'[u] = turn[u]
        BY <3>1, <3>2, GotoEffect DEF Steps
      <3> QED BY <3>1, <3>3, TurnMoves
    <2>2. CASE PublishUnconfirmed(t)
      <3>1. PICK pc \in {"publish", "store"} : turn' = [turn EXCEPT ![t].tries = 1, ![t].pc = pc]
        BY <2>2 DEF PublishUnconfirmed
      <3>2. pc \in Pcs /\ 1 \in 0..1 /\ turn[t].pc = "publish"
        BY <2>2 DEF Pcs, Inside, PublishUnconfirmed, At
      <3>3. /\ turn'[t].pc = pc /\ turn'[t].who = turn[t].who /\ turn'[t].id = turn[t].id
            /\ \A u \in Turns \ {t} : turn'[u] = turn[u]
        BY <3>1, <3>2, WriteEffect DEF Steps
      <3> QED BY <3>2, <3>3, TurnMoves
    <2> QED BY <2>1, <2>2
  <1>2. CASE PublishConfirmed(t)
    <2>1. /\ queue \in Seq(Delivery) /\ queue' = Append(queue, Fresh(t)) /\ UNCHANGED <<rows, consumer, issued>>
      BY <1>2 DEF PublishConfirmed, TypeOK
    <2>2. Content(queue') = Content(queue) \cup {Fresh(t)}
      BY <1>0, <2>1, ContentOf
    <2> QED BY <1>0, <1>1, <2>1, <2>2, CopiesStay, KeyMoves
  <1>3. CASE PublishUnconfirmed(t)
    <2>1. /\ queue' = Requeued \/ queue' = Append(Requeued, Fresh(t))
          /\ consumer' = Cut /\ UNCHANGED <<rows, issued>>
      BY <1>3 DEF PublishUnconfirmed
    <2>2. Requeued \in Seq(Delivery) /\ Content(Requeued) = Content(queue) \cup Unacked
      BY RequeuedContent
    <2>3. Content(Append(Requeued, Fresh(t))) = Content(Requeued) \cup {Fresh(t)}
      BY <1>0, <2>2, ContentOf
    <2>4. \A d \in Content(queue') : Copy(d) \in Carried
      BY <1>0, <2>1, <2>2, <2>3, CopiesStay
    <2>5. Handled' \subseteq Carried
      <3>1. CASE consumer.pc = "idle"
        BY <2>1, <3>1 DEF Cut, Handled
      <3>2. CASE consumer.pc # "idle"
        <4>1. /\ consumer \in [pc : {"handle", "ack", "retry"}, live : BOOLEAN, delivery : Delivery]
              /\ consumer' = [consumer EXCEPT !.live = FALSE]
          BY <2>1, <3>2 DEF TypeOK, NoDelivery, Cut
        <4>2. consumer'.delivery = consumer.delivery /\ Copy(consumer.delivery) \in Carried
          BY <3>2, <4>1 DEF Carried, Handled
        <4> QED BY <4>2 DEF Handled, Copy
      <3> QED BY <3>1, <3>2
    <2> QED BY <1>1, <2>1, <2>4, <2>5, CopiesStay, KeyMoves
  <1>4. CASE Store(t)
    <2>1. UNCHANGED <<queue, consumer>>
      BY <1>4 DEF Store
    <2>2. CASE CreateMessage(Mine(t), turn[t].id)
      <3>1. /\ issued' = issued /\ RowsAreKeyed' /\ Content(rows') \subseteq Content(rows) \cup {Own(t)}
        BY <1>0, <2>2, CreateEffect DEF Own
      <3>2. Content(rows') \subseteq Carried
        BY <1>0, <3>1 DEF Carried
      <3> QED BY <1>1, <2>1, <3>1, <3>2, CopiesStay, KeyMoves
    <2>3. CASE UNCHANGED <<rows, issued>>
      BY <1>1, <2>1, <2>3, CopiesStay, KeyMoves
    <2> QED BY <1>4, <2>2, <2>3 DEF Store
  <1> QED BY <1>2, <1>3, <1>4

\* A message that is said for the first time gets a MessageID of its own.
LEMMA SayKeys ==
  ASSUME TypeOK, KeyInv, NEW t \in Turns, Say(t)
  PROVE  KeyInv'
  <1>1. /\ turn[t].pc = "say" /\ UNCHANGED <<rows, queue, consumer>>
        /\ issued \in Nat /\ issued' = issued + 1
    BY SayEffect DEF Say
  <1>2. PICK pc \in {"publish", "store"}, id \in Nat :
          pc = (IF broker THEN "publish" ELSE "store") /\ id = issued + 1
    BY <1>1
  <1>3. /\ turn'[t].pc = pc /\ turn'[t].who = turn[t].who /\ turn'[t].id = id
        /\ \A u \in Turns \ {t} : turn'[u] = turn[u]
    BY <1>2, SayEffect DEF Steps
  <1>4. PICK c : c = [msg |-> Mine(t), id |-> id]
    OBVIOUS
  <1>5. c.msg = <<t, turn[t].who>> /\ c.id = issued + 1 /\ Own(t)' = c
    BY <1>2, <1>3, <1>4 DEF Mine, Own
  <1>6. Carried' \subseteq Carried \cup {c}
    <2>2. {Own(u) : u \in Saving}' \subseteq {Own(u) : u \in Saving} \cup {c}
      <3>1. ASSUME NEW u \in Saving' PROVE Own(u)' \in {Own(v) : v \in Saving} \cup {c}
        <4>1. u \in Turns /\ turn'[u].pc \in {"publish", "store"}
          BY <3>1 DEF Saving
        <4>2. CASE u = t
          BY <1>5, <4>2
        <4>3. CASE u # t
          <5>1. turn'[u] = turn[u]
            BY <1>3, <4>1, <4>3
          <5>2. u \in Saving
            BY <4>1, <5>1 DEF Saving
          <5>3. Own(u)' = Own(u)
            BY <5>1 DEF Own, Mine
          <5> QED BY <5>2, <5>3
        <4> QED BY <4>2, <4>3
      <3> QED BY <3>1
    <2>3. Content(rows') = Content(rows) /\ Content(queue') = Content(queue) /\ Handled' = Handled
      BY <1>1 DEF Handled
    <2> QED BY <2>2, <2>3 DEF Carried
  <1>7. turn[t].who \in {"user", "assistant"}
    BY DEF TypeOK, Turn
  <1>8. \A e \in Carried : e.msg # c.msg /\ e.id \in 1..issued
    BY <1>1, <1>5, <1>7 DEF KeyInv, UnsaidIsAbsent, Unsaid, KeysAreDrawn
  <1>9. KeysAreDrawn'
    BY <1>1, <1>5, <1>6, <1>8 DEF KeysAreDrawn
  <1>10. \A e \in Carried : e.id # c.id
    BY <1>1, <1>5, <1>8
  <1>11. KeysAreShared'
    BY <1>6, <1>8, <1>10 DEF KeyInv, KeysAreShared
  <1>12. UnsaidIsAbsent'
    <2>1. ASSUME NEW u \in Turns, NEW who \in {"user", "assistant"}, Unsaid(u, who)'
          PROVE  Unsaid(u, who) /\ c.msg # <<u, who>>
      BY <1>1, <1>3, <1>5, <1>7, <2>1 DEF Unsaid
    <2> QED BY <1>6, <2>1 DEF KeyInv, UnsaidIsAbsent
  <1>13. UserSpeaksFirst' /\ RowsAreKeyed'
    BY <1>1, <1>3 DEF KeyInv, UserSpeaksFirst, RowsAreKeyed
  <1> QED BY <1>9, <1>11, <1>12, <1>13 DEF KeyInv

\* A restart keeps the copies of the broker and of MySQL.
LEMMA RestartKeys ==
  ASSUME TypeOK, KeyInv, Restart
  PROVE  KeyInv'
  <1>1. UNCHANGED <<rows, issued>> /\ queue' = Requeued /\ consumer' = NoDelivery
    BY DEF Restart
  <1>2. Content(queue') = Content(queue) \cup Unacked
    BY <1>1, RequeuedContent
  <1>3. Handled' = {}
    BY <1>1 DEF Handled, NoDelivery
  <1>4. ASSUME NEW t \in Turns PROVE Moves(t)
    <2>1. CASE turn[t].pc = "new"
      <3>1. turn'[t] = NewTurn /\ turn[t].who = "user"
        BY <2>1 DEF Restart, At, KeyInv, UserSpeaksFirst
      <3> QED BY <2>1, <3>1 DEF Moves, NewTurn, Unsaid
    <2>2. CASE turn[t].pc # "new"
      <3>1. turn'[t].pc = "done" /\ turn'[t].who = turn[t].who
        BY <2>2 DEF Restart, At, TypeOK, Turn
      <3> QED BY <3>1 DEF Moves, Unsaid
    <2> QED BY <2>1, <2>2
  <1> QED BY <1>1, <1>2, <1>3, <1>4, CopiesStay, KeyMoves

\* Steps of a request that leave the queue and the rows alone.
LEMMA QuietKeys ==
  ASSUME TypeOK, KeyInv, UNCHANGED <<rows, queue, consumer, issued>>, \A t \in Turns : Moves(t)
  PROVE  KeyInv'
  BY CopiesStay, KeyMoves

-----------------------------------------------------------------------------
(* The helper and its window.                                              *)

Speaking == {"say", "publish", "store", "model"}

RestTyped ==
  /\ registry \in Turns \cup {NoGate}
  /\ gates \in [Turns -> Gate]
  /\ turn \in [Turns -> Turn]
  /\ helper \in [resident : BOOLEAN, messages : Seq(Messages)]
  /\ lifetime \in [crashes : Nat, evictions : Nat]

\* A request that uses the helper as it is, and may have saved its message.
LEMMA WindowSame ==
  ASSUME TypeOK, WindowInv, UNCHANGED <<helper, lifetime>>, NEW t \in Turns,
         \A u \in Turns \ {t} : turn'[u] = turn[u],
         \/ saved' = saved
         \/ saved' = saved \cup {Mine(t)} /\ turn[t].pc \in {"publish", "store"},
         turn'[t].pc \in Speaking => turn[t].pc \in Speaking,
         turn'[t].pc \in {"publish", "store"} => turn[t].pc = "publish" /\ turn'[t].who = turn[t].who
  PROVE  WindowInv'
  <1>1. WindowIsBounded'
    BY DEF WindowInv, WindowIsBounded
  <1>2. \A m : Holds(m)' <=> Holds(m)
    BY DEF Holds, In
  <1>3. WindowIsKept'
    BY <1>2 DEF WindowInv, WindowIsKept, Speaking, Mine
  <1> QED BY <1>1, <1>3 DEF WindowInv

\* A new helper is made only before anything was saved.
LEMMA WindowLoad ==
  ASSUME TypeOK, WindowInv, NEW t \in Turns, LoadHelper(t)
  PROVE  /\ helper' \in [resident : BOOLEAN, messages : Seq(Messages)]
         /\ WindowInv'
  <1>1. /\ turn[t].pc = "load" /\ Steps(t, "say") /\ UNCHANGED <<saved, lifetime>>
        /\ helper' = GetOrCreateAIHelper(History)
    BY GotoEffect DEF LoadHelper, At, Pcs, Inside
  <1>2. CASE helper.resident
    <2>1. helper' = helper
      BY <1>1, <1>2 DEF GetOrCreateAIHelper
    <2>2. \A m : Holds(m)' <=> Holds(m)
      BY <2>1 DEF Holds, In
    <2>3. WindowIsBounded' /\ WindowIsKept'
      BY <1>1, <1>2, <2>1, <2>2 DEF WindowInv, WindowIsBounded, WindowIsKept, Steps, Mine
    <2> QED BY <2>1, <2>3 DEF WindowInv, TypeOK
  <1>3. CASE ~helper.resident
    <2>1. helper' = [resident |-> TRUE, messages |-> Recent(History)]
      BY <1>1, <1>3 DEF GetOrCreateAIHelper
    <2>0. History \in Seq(Messages)
      <3>1. rows \in Seq(Row)
        BY DEF TypeOK
      <3>2. Len(rows) \in Nat /\ \A i \in 1..Len(rows) : rows[i] \in Row
        BY <3>1, LenProperties, ElementOfSeq
      <3>3. \A i \in 1..Len(rows) : rows[i].msg \in Messages
        BY <3>2 DEF Row
      <3> QED BY <3>2, <3>3 DEF History
    <2>2. Recent(History) \in Seq(Messages) /\ Len(Recent(History)) <= MaxHistory
      BY <2>0, RecentOf
    <2>3. WindowIsBounded'
      BY <2>1, <2>2 DEF WindowIsBounded
    <2>4. WindowIsKept'
      BY <1>1, <1>3, <2>1 DEF WindowInv, WindowIsKept, Steps
    <2> QED BY <2>1, <2>2, <2>3, <2>4 DEF WindowInv
  <1> QED BY <1>2, <1>3

\* addMessage pushes a message out only when the window is full.
LEMMA WindowSay ==
  ASSUME TypeOK, WindowInv, NEW t \in Turns, Say(t)
  PROVE  /\ helper' \in [resident : BOOLEAN, messages : Seq(Messages)]
         /\ turn' \in [Turns -> Turn] /\ WindowInv'
  <1> DEFINE old == helper.messages
             new == Append(old, Mine(t))
             pc == IF broker THEN "publish" ELSE "store"
  <1>1. turn[t].pc = "say" /\ UNCHANGED <<saved, lifetime>>
    BY DEF Say, At
  <1>2. /\ turn' \in [Turns -> Turn] /\ turn'[t].pc = pc /\ turn'[t].who = turn[t].who
        /\ \A u \in Turns \ {t} : turn'[u] = turn[u]
    BY SayEffect DEF Steps
  <1>3. old \in Seq(Messages) /\ Mine(t) \in Messages /\ Len(old) \in Nat /\ MaxHistory \in Nat \ {0}
    BY MineType, LenProperties, SessionAssumption DEF TypeOK
  <1>4. /\ new \in Seq(Messages) /\ Len(new) = Len(old) + 1
        /\ \A i \in 1..Len(old) : new[i] = old[i]
        /\ new[Len(old) + 1] = Mine(t)
    BY <1>3, AppendProperties
  <1>5. /\ helper' \in [resident : BOOLEAN, messages : Seq(Messages)]
        /\ helper'.messages = Recent(new) /\ helper'.resident = helper.resident
    <2>1. helper' = [helper EXCEPT !.messages = Recent(new)]
      BY DEF Say
    <2>2. Recent(new) \in Seq(Messages)
      BY <1>4, RecentOf
    <2> HIDE DEF new
    <2> QED BY <2>1, <2>2 DEF TypeOK
  <1>6. /\ Len(Recent(new)) <= MaxHistory /\ Len(Recent(new)) \in Nat
        /\ Len(Recent(new)) # MaxHistory => Recent(new) = new
    BY <1>4, RecentOf, LenProperties
  <1> HIDE DEF new, pc
  <1>7. WindowIsBounded'
    BY <1>5, <1>6 DEF WindowIsBounded
  <1>8. \A m : Holds(m) => Holds(m)'
    BY <1>3, <1>4, <1>5, <1>6 DEF Holds, In, WindowInv, WindowIsBounded
  <1>9. Holds(Mine(t))'
    <2>1. Mine(t)' = Mine(t)
      BY <1>2 DEF Mine
    <2>2. In(Mine(t), new)
      BY <1>3, <1>4 DEF In
    <2> QED BY <1>5, <1>6, <2>1, <2>2 DEF Holds, In
  <1>10. WindowIsKept'
    <2>1. \A u \in Turns : turn[u].pc \in {"publish", "store"} /\ Holds(Mine(u)) /\ u # t => Holds(Mine(u))'
      BY <1>2, <1>8 DEF Mine
    <2> QED BY <1>1, <1>2, <1>5, <1>8, <1>9, <2>1 DEF WindowInv, WindowIsKept, pc
  <1> QED BY <1>2, <1>5, <1>7, <1>10 DEF WindowInv

-----------------------------------------------------------------------------
(* The steps of a request and of its environment.                          *)

\* Steps inside the gate that leave the helper and the messages alone.
LEMMA InsideStep ==
  ASSUME IInv, NEW t \in Turns, NEW pc \in Inside, turn[t].pc \in Inside, Steps(t, pc),
         UNCHANGED <<queueVars, gateVars, helper, saved, lifetime>>,
         pc \in Speaking => turn[t].pc \in Speaking, pc \notin {"publish", "store"},
         \A u \in Turns : Moves(u)
  PROVE  IInv'
  <1>1. TypeOK
    BY DEF IInv
  <1>2. QueueTyped' /\ QueueInv' /\ KeyInv'
    BY <1>1, OtherQueue, QuietKeys DEF IInv, TypeOK, queueVars
  <1>3. RestTyped'
    BY <1>1 DEF RestTyped, TypeOK, gateVars, Steps
  <1>4. GateInv'
    BY <1>1, GateKept DEF IInv, Pcs
  <1>5. WindowInv'
    BY <1>1, WindowSame DEF IInv, Steps
  <1> QED BY <1>2, <1>3, <1>4, <1>5 DEF IInv, TypeOK, QueueTyped, RestTyped

\* The steps at the gate, which no one inside takes.
LEMMA GateStep ==
  ASSUME IInv, NEW t \in Turns,
         Register(t) \/ TakeToken(t) \/ GiveUp(t) \/ ReturnToken(t) \/ ReleaseGate(t)
  PROVE  IInv'
  <1>1. /\ TypeOK /\ GateInv /\ KeyInv /\ WindowInv /\ UNCHANGED <<queueVars, helper, saved, lifetime>>
        /\ turn[t].pc \in {"new", "waiting", "unlock", "release"}
    BY DEF IInv, Register, TakeToken, GiveUp, ReturnToken, ReleaseGate, At
  <1>3. /\ turn' \in [Turns -> Turn] /\ turn'[t].pc \notin Speaking /\ \A u \in Turns \ {t} : turn'[u] = turn[u]
        /\ turn'[t].pc \in {"waiting", "load"} => turn[t].pc \in {"new", "waiting"}
        /\ turn'[t].pc # "new" /\ turn'[t].who = turn[t].who /\ turn'[t].id = turn[t].id
    <2>1. CASE Register(t)
      <3>1. PICK g \in Turns : g = IF registry = NoGate THEN t ELSE registry
        BY <1>1 DEF TypeOK
      <3>2. turn' = [turn EXCEPT ![t].pc = "waiting", ![t].gate = g]
        BY <2>1, <3>1 DEF Register
      <3>3. "waiting" \in Pcs /\ "waiting" \notin Speaking /\ turn[t].pc = "new"
        BY <2>1 DEF Pcs, Waiting, Speaking, Register, At
      <3>4. g \in Turns \cup {NoGate}
        BY <3>1
      <3>5. /\ turn' \in [Turns -> Turn] /\ turn'[t].pc = "waiting"
            /\ turn'[t].who = turn[t].who /\ turn'[t].id = turn[t].id
            /\ \A u \in Turns \ {t} : turn'[u] = turn[u]
        BY <1>1, <3>2, <3>3, <3>4, GateEffect
      <3> QED BY <3>3, <3>5
    <2>2. CASE TakeToken(t) \/ GiveUp(t) \/ ReturnToken(t)
      <3>1. PICK pc \in {"load", "release"} : Goto(t, pc) /\ (pc = "load" => turn[t].pc = "waiting")
        BY <2>2 DEF TakeToken, GiveUp, ReturnToken, At
      <3> QED BY <1>1, <3>1, GotoEffect DEF Pcs, Inside, Speaking, Steps
    <2>3. CASE ReleaseGate(t)
      <3>1. turn' = [turn EXCEPT ![t].pc = "done", ![t].gate = NoGate]
        BY <2>3 DEF ReleaseGate
      <3>2. "done" \in Pcs /\ "done" \notin Speaking /\ NoGate \in Turns \cup {NoGate}
        BY DEF Pcs, Speaking
      <3> QED BY <1>1, <3>1, <3>2, GateEffect
    <2> QED BY <2>1, <2>2, <2>3
  <1>2. QueueTyped' /\ QueueInv' /\ KeyInv'
    <2>1. \A u \in Turns : Moves(u)
      BY <1>1, <1>3, TurnMoves DEF Speaking
    <2> QED BY <1>1, <2>1, OtherQueue, QuietKeys DEF IInv, TypeOK, queueVars
  <1>4. WindowInv'
    BY <1>1, <1>3, WindowSame DEF Speaking
  <1>5. GateInv'
    <2>1. CASE GiveUp(t)
      BY <1>1, <2>1, GotoEffect, GateKept DEF GiveUp, At, Pcs
    <2> QED BY <1>1, <2>1, RegisterGate, TakeTokenGate, ReturnTokenGate, ReleaseGateGate
  <1>6. registry' \in Turns \cup {NoGate} /\ gates' \in [Turns -> Gate]
    <2>0. gates \in [Turns -> Gate] /\ registry \in Turns \cup {NoGate}
      BY <1>1 DEF TypeOK
    <2>1. CASE Register(t)
      BY <2>0, <2>1 DEF Register, Gate
    <2>2. CASE TakeToken(t) \/ GiveUp(t) \/ ReturnToken(t)
      <3>1. registry' = registry
        BY <2>2 DEF TakeToken, GiveUp, ReturnToken, gateVars
      <3>2. PICK token \in BOOLEAN : \/ gates' = [gates EXCEPT ![turn[t].gate].token = token]
                                    \/ gates' = gates
        BY <2>2 DEF TakeToken, GiveUp, ReturnToken, gateVars
      <3> QED BY <2>0, <3>1, <3>2 DEF Gate
    <2>3. CASE ReleaseGate(t)
      <3>1. turn[t].gate \in Turns /\ t \in Users(turn[t].gate)
        BY <1>1, <2>3 DEF ReleaseGate, At, GateInv, GateIsHeld, Users, TypeOK, Turn
      <3>2. IsFiniteSet(Users(turn[t].gate)) /\ gates[turn[t].gate].refs = Cardinality(Users(turn[t].gate))
        BY <1>1, <3>1 DEF GateInv, GateIsHeld
      <3>3. gates[turn[t].gate].refs # 0 /\ gates[turn[t].gate].refs \in Nat
        BY <3>1, <3>2, FS_EmptySet, FS_CardinalityType
      <3> QED BY <2>0, <2>3, <3>1, <3>3 DEF ReleaseGate, Gate, gateVars
    <2> QED BY <2>1, <2>2, <2>3
  <1>7. RestTyped'
    BY <1>1, <1>3, <1>6 DEF RestTyped, TypeOK
  <1> QED BY <1>2, <1>4, <1>5, <1>7 DEF IInv, TypeOK, QueueTyped, RestTyped

\* The steps of a request that loads, speaks or saves.
LEMMA SpeakStep ==
  ASSUME IInv, NEW t \in Turns,
         LoadHelper(t) \/ Say(t) \/ PublishConfirmed(t) \/ PublishUnconfirmed(t) \/ Store(t)
  PROVE  IInv'
  <1> USE DEF Inside, Speaking, Pcs
  <1>1. TypeOK /\ QueueInv /\ KeyInv /\ GateInv /\ WindowInv /\ UNCHANGED <<gateVars, lifetime>>
    BY DEF IInv, LoadHelper, Say, PublishConfirmed, PublishUnconfirmed, Store
  <1>2. QueueTyped' /\ QueueInv' /\ KeyInv'
    <2>1. CASE LoadHelper(t)
      <3>1. UNCHANGED <<rows, queue, dlq, consumer, broker, issued, faults, saved>>
        BY <2>1 DEF LoadHelper, queueVars
      <3>2. /\ turn[t].pc = "load" /\ turn'[t].pc = "say" /\ turn'[t].who = turn[t].who
            /\ turn'[t].id = turn[t].id /\ \A u \in Turns \ {t} : turn'[u] = turn[u]
        BY <1>1, <2>1, GotoEffect DEF LoadHelper, At, Steps
      <3>3. \A u \in Turns : Moves(u)
        BY <1>1, <3>2, TurnMoves
      <3> QED BY <1>1, <3>1, <3>3, OtherQueue, QuietKeys DEF TypeOK
    <2>2. CASE Say(t)
      <3>1. UNCHANGED <<rows, queue, dlq, consumer, broker, faults, saved>> /\ issued' \in Nat
        BY <1>1, <2>2 DEF Say, Drawn, TypeOK
      <3> QED BY <1>1, <2>2, <3>1, OtherQueue, SayKeys
    <2> QED BY <1>1, <2>1, <2>2, SaveQueue, CutQueue, SaveKeys
  <1>3. \E pc \in Inside : turn[t].pc \in Inside /\ Steps(t, pc)
    <2>1. CASE LoadHelper(t)
      BY <1>1, <2>1, GotoEffect DEF LoadHelper, At
    <2>2. CASE Say(t)
      BY <1>1, <2>2, SayEffect
    <2>3. CASE PublishUnconfirmed(t)
      <3>1. PICK pc \in Inside, n \in 0..1 : turn' = [turn EXCEPT ![t].tries = n, ![t].pc = pc]
        <4> DEFINE place == IF turn[t].tries = 0 THEN "publish" ELSE "store"
        <4>1. place \in Inside /\ turn' = [turn EXCEPT ![t].tries = 1, ![t].pc = place]
          BY <2>3 DEF PublishUnconfirmed
        <4>2. 1 \in 0..1
          OBVIOUS
        <4> HIDE DEF place
        <4> QED BY <4>1, <4>2, Zenon
      <3> QED BY <1>1, <2>3, <3>1, WriteEffect DEF PublishUnconfirmed, At
    <2>4. CASE PublishConfirmed(t) \/ Store(t)
      <3>1. PICK pc \in Inside : Goto(t, pc)
        BY <2>4 DEF PublishConfirmed, Store, Saved, AfterSave
      <3> QED BY <1>1, <2>4, <3>1, GotoEffect DEF PublishConfirmed, Store, At
    <2> QED BY <2>1, <2>2, <2>3, <2>4
  <1>4. GateInv'
    BY <1>1, <1>3, GateKept
  <1>5. helper' \in [resident : BOOLEAN, messages : Seq(Messages)] /\ WindowInv'
    <2>1. CASE LoadHelper(t)
      BY <1>1, <2>1, WindowLoad
    <2>2. CASE Say(t)
      BY <1>1, <2>2, WindowSay
    <2>3. CASE PublishUnconfirmed(t)
      <3>0. PICK pc \in {"publish", "store"} : turn' = [turn EXCEPT ![t].tries = 1, ![t].pc = pc]
        BY <2>3 DEF PublishUnconfirmed
      <3>1. /\ turn[t].pc = "publish" /\ turn'[t].who = turn[t].who /\ UNCHANGED <<helper, saved, lifetime>>
            /\ \A u \in Turns \ {t} : turn'[u] = turn[u]
        BY <1>1, <2>3, <3>0 DEF PublishUnconfirmed, At, TypeOK, Turn
      <3> QED BY <1>1, <3>1, WindowSame DEF TypeOK
    <2>4. CASE PublishConfirmed(t) \/ Store(t)
      <3>1. PICK pc \in {"model", "unlock"} : Goto(t, pc)
        BY <2>4 DEF PublishConfirmed, Store, Saved, AfterSave
      <3>2. /\ turn[t].pc \in {"publish", "store"} /\ UNCHANGED <<helper, lifetime>>
            /\ saved' = saved \/ saved' = saved \cup {Mine(t)}
        BY <2>4 DEF PublishConfirmed, Store, At, Saved
      <3> QED BY <1>1, <3>1, <3>2, GotoEffect, WindowSame DEF Steps, TypeOK
    <2> QED BY <2>1, <2>2, <2>3, <2>4
  <1>6. RestTyped'
    BY <1>1, <1>3, <1>5 DEF RestTyped, TypeOK, gateVars, Steps
  <1> QED BY <1>2, <1>4, <1>5, <1>6 DEF IInv, TypeOK, QueueTyped, RestTyped

\* The consumer, an eviction, or no step at all: no request moves.
LEMMA QuietStep ==
  ASSUME IInv, QueueStep \/ EvictHelper \/ UNCHANGED vars
  PROVE  IInv'
  <1>1. TypeOK /\ QueueInv /\ KeyInv /\ GateInv /\ WindowInv /\ UNCHANGED <<registry, gates, turn, saved>>
    BY DEF IInv, QueueStep, EvictHelper, vars, gateVars
  <1>2. QueueTyped' /\ QueueInv' /\ KeyInv'
    <2>1. CASE QueueStep
      <3>1. QueueTyped' /\ QueueInv'
        BY <1>1, <2>1, ReceiveQueue, PersistQueue, AckQueue, RetryQueue DEF QueueStep, ConsumerStep
      <3> QED BY <1>1, <2>1, <3>1, ConsumerKeys DEF QueueStep
    <2>2. CASE EvictHelper \/ UNCHANGED vars
      <3>1. UNCHANGED <<rows, queue, dlq, consumer, broker, issued, faults, saved>>
        BY <2>2 DEF EvictHelper, vars, queueVars
      <3>2. \A t \in Turns : Moves(t)
        BY <1>1 DEF Moves, Own, Mine, Unsaid, KeyInv, UserSpeaksFirst
      <3> QED BY <1>1, <3>1, <3>2, OtherQueue, QuietKeys DEF TypeOK
    <2> QED BY <2>1, <2>2
  <1>3. GateInv'
    <2>1. \A g \in Turns : Users(g)' = Users(g)
      BY <1>1 DEF Users
    <2> QED BY <1>1, <2>1 DEF GateInv, GateIsHeld, OneTurnInside
  <1>4. RestTyped' /\ WindowInv'
    <2>1. CASE EvictHelper
      <3>1. /\ helper' = NoHelper /\ lifetime' \in [crashes : Nat, evictions : Nat]
            /\ lifetime'.evictions # 0
        BY <1>1, <2>1 DEF EvictHelper, TypeOK
      <3>2. Len(<<>>) = 0 /\ <<>> \in Seq(Messages) /\ MaxHistory >= 0
        BY EmptySeq, SessionAssumption
      <3> QED BY <1>1, <3>1, <3>2 DEF RestTyped, TypeOK, NoHelper, WindowInv, WindowIsBounded, WindowIsKept
    <2>2. CASE UNCHANGED <<helper, lifetime>>
      <3>1. \A m : Holds(m)' <=> Holds(m)
        BY <2>2 DEF Holds, In
      <3>2. WindowIsKept' /\ WindowIsBounded'
        BY <1>1, <2>2, <3>1 DEF WindowInv, WindowIsKept, WindowIsBounded, Mine
      <3> QED BY <1>1, <2>2, <3>2 DEF WindowInv, RestTyped, TypeOK
    <2> QED BY <2>1, <2>2 DEF QueueStep, vars
  <1> QED BY <1>2, <1>3, <1>4 DEF IInv, TypeOK, QueueTyped, RestTyped

\* A restart ends every premise about the resident helper.
LEMMA RestartStep ==
  ASSUME IInv, Restart
  PROVE  IInv'
  <1>1. TypeOK /\ QueueInv /\ KeyInv /\ GateInv
    BY DEF IInv
  <1>2. QueueTyped' /\ QueueInv' /\ KeyInv' /\ GateInv'
    BY <1>1, CutQueue, RestartKeys, RestartGate
  <1>3. /\ helper' = NoHelper /\ lifetime' \in [crashes : Nat, evictions : Nat]
        /\ lifetime'.crashes # 0 /\ registry' = NoGate /\ gates' \in [Turns -> Gate]
    <2>1. lifetime \in [crashes : Nat, evictions : Nat] /\ NewGate \in Gate
      BY <1>1 DEF TypeOK, NewGate, Gate
    <2>2. lifetime' = [lifetime EXCEPT !.crashes = @ + 1]
      BY DEF Restart
    <2>3. lifetime' \in [crashes : Nat, evictions : Nat] /\ lifetime'.crashes # 0
      BY <2>1, <2>2
    <2> QED BY <2>1, <2>3 DEF Restart
  <1>4. turn' \in [Turns -> Turn]
    <2>1. turn \in [Turns -> Turn] /\ NewTurn \in Turn
      BY <1>1 DEF TypeOK, NewTurn, NoId, Turn, Pcs
    <2>2. \A t \in Turns : [turn[t] EXCEPT !.pc = "done", !.gate = NoGate] \in Turn
      BY <2>1 DEF Turn, Pcs
    <2> QED BY <2>1, <2>2 DEF Restart
  <1>5. Len(<<>>) = 0 /\ <<>> \in Seq(Messages) /\ MaxHistory >= 0
    BY EmptySeq, SessionAssumption
  <1>6. RestTyped' /\ WindowInv'
    BY <1>3, <1>4, <1>5 DEF RestTyped, NoHelper, WindowInv, WindowIsBounded, WindowIsKept
  <1> QED BY <1>2, <1>6 DEF IInv, TypeOK, QueueTyped, RestTyped

-----------------------------------------------------------------------------
(* The theorems.                                                           *)

\* A new process has no helper, an empty queue and no gate.
LEMMA InitInv == Init => IInv
  <1> SUFFICES ASSUME Init PROVE IInv
    OBVIOUS
  <1>0. Len(<<>>) = 0 /\ <<>> \in Seq(Messages) /\ <<>> \in Seq(Row) /\ <<>> \in Seq(Delivery) /\ MaxHistory >= 0
    BY EmptySeq, SessionAssumption
  <1>1. TypeOK
    BY <1>0 DEF Init, QueueInit, TypeOK, NoDelivery, NewGate, Gate, NewTurn, Turn, NoId, Pcs, NoHelper
  <1>2. QueueInv
    BY <1>0 DEF Init, QueueInit, QueueInv, AckIsSafe, SavedIsKept, RetriesAreFaults,
                DeadLetterIsEarned, NoDelivery
  <1>5. KeyInv
    <2>1. Carried = {}
      BY <1>0 DEF Init, QueueInit, Carried, Content, Handled, NoDelivery, Saving, NewTurn
    <2> QED BY <1>0, <2>1 DEF Init, QueueInit, KeyInv, RowsAreKeyed, KeysAreDrawn, KeysAreShared,
                              UnsaidIsAbsent, UserSpeaksFirst, NewTurn
  <1>3. GateInv
    <2>1. \A g \in Turns : Users(g) = {}
      BY GateAssumption DEF Init, Users, NewTurn
    <2> QED BY <2>1, FS_EmptySet DEF Init, GateInv, GateIsHeld, OneTurnInside, NewGate, NewTurn,
                                     Waiting, Inside
  <1>4. WindowInv
    BY <1>0 DEF Init, WindowInv, WindowIsBounded, WindowIsKept, NoHelper, NewTurn
  <1> QED BY <1>1, <1>2, <1>3, <1>4, <1>5 DEF IInv

\* The invariant is inductive.
LEMMA NextInv == IInv /\ [Next]_vars => IInv'
  <1> SUFFICES ASSUME IInv, [Next]_vars PROVE IInv'
    OBVIOUS
  <1>1. ASSUME NEW t \in Turns, LoadFails(t) \/ ModelAnswers(t) \/ ModelFails(t) PROVE IInv'
    <2> USE DEF Inside, Pcs, Speaking
    <2>0. TypeOK
      BY DEF IInv
    <2>1. CASE LoadFails(t) \/ ModelFails(t)
      <3>1. /\ turn[t].pc \in {"load", "model"} /\ Steps(t, "unlock")
            /\ turn'[t].who = turn[t].who /\ turn'[t].id = turn[t].id
            /\ UNCHANGED <<queueVars, gateVars, helper, saved, lifetime>>
        BY <2>0, <2>1, GotoEffect DEF LoadFails, ModelFails, At
      <3>2. \A u \in Turns : Moves(u)
        BY <2>0, <3>1, TurnMoves DEF Steps, IInv
      <3> QED BY <2>0, <3>1, <3>2, InsideStep
    <2>2. CASE ModelAnswers(t)
      <3>1. Steps(t, "say") /\ turn'[t].who = "assistant" /\ turn[t].pc = "model" /\ turn[t].who = "user"
        BY <2>0, <2>2, AnswerEffect DEF IInv, KeyInv, UserSpeaksFirst
      <3>2. \A u \in Turns : Moves(u)
        BY <3>1 DEF Steps, Moves, Own, Mine, Unsaid, IInv, KeyInv, UserSpeaksFirst
      <3> QED BY <2>0, <2>2, <3>1, <3>2, InsideStep DEF ModelAnswers
    <2> QED BY <1>1, <2>1, <2>2
  <1> QED BY <1>1, GateStep, SpeakStep, QuietStep, RestartStep DEF Next, TurnStep

\* The invariant holds in every reachable state; the theorems are read off it.
THEOREM ChatInvariant == Spec => []IInv
  BY InitInv, NextInv, PTL DEF Spec

\* lockSession lets one request of a session at a time past its gate.
THEOREM GateExcludes == Spec => []OneTurnInside
  <1>1. IInv => OneTurnInside
    BY DEF IInv, GateInv
  <1> QED BY <1>1, ChatInvariant, PTL

\* No accepted message is lost between MySQL, RabbitMQ and the dead letters.
THEOREM MessagesAreKept == Spec => []SavedIsKept
  <1>1. IInv => SavedIsKept
    BY DEF IInv, QueueInv
  <1> QED BY <1>1, ChatInvariant, PTL

\* At-least-once delivery, republishing and the direct fallback leave one row
\* per message, because every copy has the MessageID drawn for it.
THEOREM MessagesAreStoredOnce == Spec => []StoredOnce
  <1>1. ASSUME IInv PROVE StoredOnce
    <2>1. \A i \in 1..Len(rows) : rows[i] \in Carried
      BY DEF Carried, Content
    <2>2. \A i, j \in 1..Len(rows) : rows[i].msg = rows[j].msg => rows[i].id = rows[j].id
      BY <1>1, <2>1 DEF IInv, KeyInv, KeysAreShared
    <2> QED BY <1>1, <2>2 DEF StoredOnce, IInv, KeyInv, RowsAreKeyed
  <1> QED BY <1>1, ChatInvariant, PTL

\* A message reaches the dead letter queue only after MaxRetries + 1 failed
\* writes.
THEOREM DeadLettersAreEarned == Spec => []DeadLetterIsEarned
  <1>1. IInv => DeadLetterIsEarned
    BY DEF IInv, QueueInv
  <1> QED BY <1>1, ChatInvariant, PTL

\* A helper that never left memory calls the model with everything that was
\* saved, or with a full window.
THEOREM ResidentContextHolds == Spec => []ResidentContextIsComplete
  <1>1. IInv => ResidentContextIsComplete
    BY DEF IInv, WindowInv, WindowIsKept, Holds, ResidentContextIsComplete, ContextIsComplete, In
  <1> QED BY <1>1, ChatInvariant, PTL
=============================================================================
