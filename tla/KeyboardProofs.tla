--------------------------- MODULE KeyboardProofs ----------------------------
(***************************************************************************)
(* Proofs about Keyboard, for any number of readers, any size of the       *)
(* buffer and any nesting of the handler.                                  *)
(***************************************************************************)
EXTENDS Keyboard, SchedulerProofs, WellFoundedInduction

-----------------------------------------------------------------------------
(***************************************************************************)
(* The lists of the handlers, apart from the rest of the state: f is a     *)
(* value of frames, w of waiting_tasks and st of status.                   *)
(***************************************************************************)
Lists == [Threads -> Seq(Seq(Readers))]

\* Some handler on the stack of t has taken r.
Taken(f, t, r) == \E i \in 1..Len(f[t]) : Linked(f[t][i], r)

\* HeldOnce, of f.
Once(f) ==
  \A t, u \in Threads : \A i \in 1..Len(f[t]), j \in 1..Len(f[u]) :
    /\ NoRepeat(f[t][i])
    /\ \A r \in Readers : Linked(f[t][i], r) /\ Linked(f[u][j], r) => t = u /\ i = j

\* BlockedReaderFound, of w, f and st.
Found(w, f, st) ==
  /\ NoRepeat(w)
  /\ \A r \in Readers :
       /\ st[r] = "TASK_WAITING" <=> Linked(w, r) \/ \E t \in Threads : Taken(f, t, r)
       /\ Linked(w, r) => \A t \in Threads : ~Taken(f, t, r)
       /\ \A t, u \in Threads : Taken(f, t, r) /\ Taken(f, u, r) => t = u

\* The same readers are blocked.
SameBlocked(st, st2) ==
  \A r \in Readers : st2[r] = "TASK_WAITING" <=> st[r] = "TASK_WAITING"

\* The two ways to say it agree.
LEMMA FoundNow == BlockedReaderFound <=> Found(waiting_tasks, frames, status)
<1>1. \A t \in Threads, r \in Readers : r \in Todo(t) <=> Taken(frames, t, r)
  BY DEF Todo, Taken
<1> QED
  BY <1>1 DEF BlockedReaderFound, Found

\* They agree in the next state too.
LEMMA FoundNext == BlockedReaderFound' <=> Found(waiting_tasks', frames', status')
<1>1. \A t \in Threads, r \in Readers : r \in Todo(t)' <=> Taken(frames', t, r)
  BY DEF Todo, Taken
<1> QED
  BY <1>1 DEF BlockedReaderFound, Found

\* A new list in front of the others.
LEMMA PushList ==
  ASSUME NEW S, NEW s \in Seq(S), NEW x \in S
  PROVE  /\ <<x>> \o s \in Seq(S)
         /\ Len(<<x>> \o s) = Len(s) + 1
         /\ (<<x>> \o s)[1] = x
         /\ \A i \in 1..Len(s) : (<<x>> \o s)[i + 1] = s[i]
<1>1. <<x>> \in Seq(S) /\ Len(<<x>>) = 1 /\ <<x>>[1] = x
  OBVIOUS
<1>2. <<x>> \o s \in Seq(S) /\ Len(<<x>> \o s) = Len(s) + 1
  BY <1>1
<1>3. \A i \in 1..(Len(s) + 1) :
        (<<x>> \o s)[i] = IF i <= 1 THEN <<x>>[i] ELSE s[i - 1]
  BY <1>1
<1>4. Len(s) \in Nat
  OBVIOUS
<1> QED
  BY <1>1, <1>2, <1>3, <1>4

\* The front list gives way to another one.
LEMMA ReplaceList ==
  ASSUME NEW S, NEW s \in Seq(S), s # <<>>, NEW x \in S
  PROVE  /\ <<x>> \o Tail(s) \in Seq(S)
         /\ Len(<<x>> \o Tail(s)) = Len(s)
         /\ (<<x>> \o Tail(s))[1] = x
         /\ \A i \in 2..Len(s) : (<<x>> \o Tail(s))[i] = s[i]
<1>1. /\ Tail(s) \in Seq(S) /\ Len(Tail(s)) = Len(s) - 1 /\ Len(s) \in Nat /\ Len(s) > 0
      /\ \A i \in 1..Len(Tail(s)) : Tail(s)[i] = s[i + 1]
  OBVIOUS
<1> DEFINE r == Tail(s)
<1> HIDE DEF r
<1>2. /\ <<x>> \o r \in Seq(S)
      /\ Len(<<x>> \o r) = Len(r) + 1
      /\ (<<x>> \o r)[1] = x
      /\ \A i \in 1..Len(r) : (<<x>> \o r)[i + 1] = r[i]
  BY <1>1, PushList DEF r
<1>3. ASSUME NEW i \in 2..Len(s)
      PROVE  (<<x>> \o r)[i] = s[i]
  <2>1. i - 1 \in 1..Len(r) /\ (i - 1) + 1 = i
    BY <1>1 DEF r
  <2>2. (<<x>> \o r)[(i - 1) + 1] = r[i - 1]
    BY <1>2, <2>1
  <2>3. r[i - 1] = s[(i - 1) + 1]
    BY <1>1, <2>1 DEF r
  <2> QED
    BY <2>1, <2>2, <2>3
<1> QED
  BY <1>1, <1>2, <1>3 DEF r

\* The handler takes all the waiters and wakes up the first one.
LEMMA TakeKeeps ==
  ASSUME NEW f \in Lists, NEW w \in Seq(Readers), NEW st, NEW st2, NEW s \in Threads,
         Once(f), Found(w, f, st), w # <<>>,
         st2[Head(w)] # "TASK_WAITING",
         \A r \in Readers : r # Head(w) => st2[r] = st[r],
         NEW g, g = [f EXCEPT ![s] = <<Tail(w)>> \o @]
  PROVE  g \in Lists /\ Once(g) /\ Found(<<>>, g, st2)
<1>1. /\ Tail(w) \in Seq(Readers) /\ Head(w) \in Readers /\ NoRepeat(Tail(w))
      /\ Linked(w, Head(w))
      /\ \A r : Linked(Tail(w), r) <=> (Linked(w, r) /\ r # Head(w))
  BY RemoveHead, Zenon DEF Found
<1>2. f[s] \in Seq(Seq(Readers)) /\ Len(f[s]) \in Nat
  BY DEF Lists
<1>3. /\ <<Tail(w)>> \o f[s] \in Seq(Seq(Readers))
      /\ Len(<<Tail(w)>> \o f[s]) = Len(f[s]) + 1
      /\ (<<Tail(w)>> \o f[s])[1] = Tail(w)
      /\ \A i \in 1..Len(f[s]) : (<<Tail(w)>> \o f[s])[i + 1] = f[s][i]
  BY <1>1, <1>2, PushList, SMTT(40)
<1>4. g \in Lists /\ g[s] = <<Tail(w)>> \o f[s] /\ \A t \in Threads : t # s => g[t] = f[t]
  BY <1>3 DEF Lists
<1>5. /\ Len(g[s]) = Len(f[s]) + 1
      /\ g[s][1] = Tail(w)
      /\ \A i \in 1..Len(g[s]) : i # 1 => i - 1 \in 1..Len(f[s]) /\ g[s][i] = f[s][i - 1]
  <2>1. Len(g[s]) = Len(f[s]) + 1 /\ g[s][1] = Tail(w)
    BY <1>3, <1>4
  <2>2. ASSUME NEW i \in 1..Len(g[s]), i # 1
        PROVE  i - 1 \in 1..Len(f[s]) /\ g[s][i] = f[s][i - 1]
    <3>1. i - 1 \in 1..Len(f[s]) /\ (i - 1) + 1 = i
      BY <2>1, <2>2, <1>2, SMTT(40)
    <3> QED
      BY <3>1, <1>3, <1>4
  <2> QED
    BY <2>1, <2>2
<1>6. \A r \in Readers : Linked(w, r) => \A t \in Threads : ~Taken(f, t, r)
  BY DEF Found
<1>7. Once(g)
  <2> SUFFICES ASSUME NEW t \in Threads, NEW u \in Threads,
                      NEW i \in 1..Len(g[t]), NEW j \in 1..Len(g[u])
               PROVE  /\ NoRepeat(g[t][i])
                      /\ \A r \in Readers :
                           Linked(g[t][i], r) /\ Linked(g[u][j], r) => t = u /\ i = j
    BY DEF Once
  <2>1. NoRepeat(g[t][i])
    <3>1. CASE t = s /\ i = 1
      BY <3>1, <1>1, <1>5
    <3>2. CASE t = s /\ i # 1
      BY <3>2, <1>5 DEF Once
    <3>3. CASE t # s
      BY <3>3, <1>4 DEF Once
    <3> QED
      BY <3>1, <3>2, <3>3
  <2>2. ASSUME NEW r \in Readers, Linked(g[t][i], r), Linked(g[u][j], r)
        PROVE  t = u /\ i = j
    <3>1. CASE t = s /\ i = 1 /\ u = s /\ j = 1
      BY <3>1
    <3>2. CASE t = s /\ i = 1 /\ ~(u = s /\ j = 1)
      <4>1. Linked(w, r)
        BY <2>2, <3>2, <1>1, <1>5
      <4>2. Taken(f, u, r)
        BY <2>2, <3>2, <1>4, <1>5 DEF Taken
      <4> QED
        BY <4>1, <4>2, <1>6
    <3>3. CASE ~(t = s /\ i = 1) /\ u = s /\ j = 1
      <4>1. Linked(w, r)
        BY <2>2, <3>3, <1>1, <1>5
      <4>2. Taken(f, t, r)
        BY <2>2, <3>3, <1>4, <1>5 DEF Taken
      <4> QED
        BY <4>1, <4>2, <1>6
    <3>4. CASE ~(t = s /\ i = 1) /\ ~(u = s /\ j = 1)
      <4> DEFINE Old(v, k) == IF v = s THEN k - 1 ELSE k
      <4>1. Old(t, i) \in 1..Len(f[t]) /\ g[t][i] = f[t][Old(t, i)]
        BY <3>4, <1>4, <1>5
      <4>2. Old(u, j) \in 1..Len(f[u]) /\ g[u][j] = f[u][Old(u, j)]
        BY <3>4, <1>4, <1>5
      <4>3. t = u /\ Old(t, i) = Old(u, j)
        BY <2>2, <4>1, <4>2 DEF Once
      <4> QED
        BY <4>3
    <3> QED
      BY <3>1, <3>2, <3>3, <3>4
  <2> QED
    BY <2>1, <2>2
<1>8. \A r \in Readers, t \in Threads :
        Taken(g, t, r) <=> Taken(f, t, r) \/ (t = s /\ Linked(w, r) /\ r # Head(w))
  <2> TAKE r \in Readers, t \in Threads
  <2>1. CASE t # s
    BY <2>1, <1>4 DEF Taken
  <2>2. CASE t = s
    <3>1. Taken(f, s, r) => Taken(g, s, r)
      <4> SUFFICES ASSUME NEW i \in 1..Len(f[s]), Linked(f[s][i], r)
                   PROVE  Taken(g, s, r)
        BY DEF Taken
      <4>1. i + 1 \in 1..Len(g[s])
        BY <1>2, <1>5
      <4>2. g[s][i + 1] = f[s][i]
        BY <1>3, <1>4, Zenon
      <4> QED
        BY <4>1, <4>2 DEF Taken
    <3>2. 1 \in 1..Len(g[s])
      BY <1>2, <1>5
    <3>3. Linked(w, r) /\ r # Head(w) => Taken(g, s, r)
      BY <3>2, <1>1, <1>5 DEF Taken
    <3>4. Taken(g, s, r) => Taken(f, s, r) \/ (Linked(w, r) /\ r # Head(w))
      BY <1>1, <1>5 DEF Taken
    <3> QED
      BY <2>2, <3>1, <3>3, <3>4
  <2> QED
    BY <2>1, <2>2
<1>9. NoRepeat(<<>>) /\ \A r : ~Linked(<<>>, r)
  BY DEF NoRepeat, Linked
<1>10. ASSUME NEW r \in Readers
       PROVE  /\ st2[r] = "TASK_WAITING" <=> \E t \in Threads : Taken(g, t, r)
              /\ \A t, u \in Threads : Taken(g, t, r) /\ Taken(g, u, r) => t = u
  BY <1>1, <1>8 DEF Found
<1> QED
  BY <1>4, <1>7, <1>9, <1>10 DEF Found

\* The handler wakes up the next one of those it has taken.
LEMMA WakeKeeps ==
  ASSUME NEW f \in Lists, NEW w, NEW st, NEW st2, NEW s \in Threads,
         Once(f), Found(w, f, st), f[s] # <<>>, Head(f[s]) # <<>>,
         st2[Head(Head(f[s]))] # "TASK_WAITING",
         \A r \in Readers : r # Head(Head(f[s])) => st2[r] = st[r],
         NEW g, g = [f EXCEPT ![s] = <<Tail(Head(@))>> \o Tail(@)]
  PROVE  g \in Lists /\ Once(g) /\ Found(w, g, st2)
<1> DEFINE todo == Head(f[s])
           h == Head(todo)
<1>1. /\ f[s] \in Seq(Seq(Readers)) /\ Len(f[s]) \in Nat /\ Len(f[s]) > 0
      /\ todo = f[s][1] /\ 1 \in 1..Len(f[s]) /\ todo \in Seq(Readers)
  BY DEF Lists
<1>2. NoRepeat(todo)
  BY <1>1 DEF Once
<1> HIDE DEF todo
<1>3. /\ Tail(todo) \in Seq(Readers) /\ h \in Readers /\ NoRepeat(Tail(todo))
      /\ Linked(todo, h)
      /\ \A r : Linked(Tail(todo), r) <=> (Linked(todo, r) /\ r # h)
  <2>1. todo # <<>> /\ todo \in Seq(Readers)
    BY <1>1 DEF todo
  <2> QED
    BY <2>1, <1>2, RemoveHead, Zenon
<1>4. /\ <<Tail(todo)>> \o Tail(f[s]) \in Seq(Seq(Readers))
      /\ Len(<<Tail(todo)>> \o Tail(f[s])) = Len(f[s])
      /\ (<<Tail(todo)>> \o Tail(f[s]))[1] = Tail(todo)
      /\ \A i \in 2..Len(f[s]) : (<<Tail(todo)>> \o Tail(f[s]))[i] = f[s][i]
  <2> DEFINE old == f[s]
             new == Tail(todo)
             S == Seq(Readers)
  <2>1. old \in Seq(S) /\ old # <<>> /\ new \in S
    BY <1>1, <1>3
  <2> HIDE DEF old, new, S
  <2>2. /\ <<new>> \o Tail(old) \in Seq(S)
        /\ Len(<<new>> \o Tail(old)) = Len(old)
        /\ (<<new>> \o Tail(old))[1] = new
        /\ \A i \in 2..Len(old) : (<<new>> \o Tail(old))[i] = old[i]
    BY <2>1, ReplaceList
  <2> QED
    BY <2>2 DEF old, new, S
<1>5. /\ g \in Lists
      /\ g[s] = <<Tail(todo)>> \o Tail(f[s])
      /\ \A t \in Threads : t # s => g[t] = f[t]
  <2>1. g = [f EXCEPT ![s] = <<Tail(todo)>> \o Tail(f[s])]
    BY DEF todo, Lists
  <2> QED
    BY <1>4, <2>1 DEF Lists
<1>6. /\ \A t \in Threads : Len(g[t]) = Len(f[t])
      /\ g[s][1] = Tail(todo)
      /\ \A t \in Threads : \A i \in 1..Len(f[t]) : t # s \/ i # 1 => g[t][i] = f[t][i]
  <2>1. \A i \in 1..Len(f[s]) : i # 1 => g[s][i] = f[s][i]
    BY <1>1, <1>4, <1>5
  <2> QED
    BY <1>4, <1>5, <2>1
<1>7. \A t \in Threads : \A i \in 1..Len(f[t]), r \in Readers :
        Linked(g[t][i], r) <=> Linked(f[t][i], r) /\ ~(t = s /\ i = 1 /\ r = h)
  <2> TAKE t \in Threads
  <2> TAKE i \in 1..Len(f[t]), r \in Readers
  <2>1. CASE t = s /\ i = 1
    BY <2>1, <1>1, <1>3, <1>6
  <2>2. CASE t # s \/ i # 1
    BY <2>2, <1>6
  <2> QED
    BY <2>1, <2>2
<1>8. ASSUME NEW t \in Threads, NEW i \in 1..Len(f[t]), Linked(f[t][i], h)
      PROVE  t = s /\ i = 1
  BY <1>1, <1>3, <1>8, ZenonT(40) DEF Once
<1>9. Once(g)
  <2> SUFFICES ASSUME NEW t \in Threads, NEW u \in Threads,
                      NEW i \in 1..Len(g[t]), NEW j \in 1..Len(g[u])
               PROVE  /\ NoRepeat(g[t][i])
                      /\ \A r \in Readers :
                           Linked(g[t][i], r) /\ Linked(g[u][j], r) => t = u /\ i = j
    BY DEF Once
  <2>1. i \in 1..Len(f[t]) /\ j \in 1..Len(f[u])
    BY <1>6
  <2>2. NoRepeat(g[t][i])
    <3>1. CASE t = s /\ i = 1
      BY <3>1, <1>3, <1>6
    <3>2. CASE t # s \/ i # 1
      BY <2>1, <3>2, <1>6 DEF Once
    <3> QED
      BY <3>1, <3>2
  <2>3. ASSUME NEW r \in Readers, Linked(g[t][i], r), Linked(g[u][j], r)
        PROVE  t = u /\ i = j
    <3>1. Linked(f[t][i], r) /\ Linked(f[u][j], r)
      BY <2>1, <2>3, <1>7
    <3> QED
      BY <2>1, <3>1 DEF Once
  <2> QED
    BY <2>2, <2>3
<1>10. \A r \in Readers, t \in Threads : Taken(g, t, r) <=> Taken(f, t, r) /\ r # h
  <2> TAKE r \in Readers, t \in Threads
  <2>1. Len(g[t]) = Len(f[t])
    BY <1>6
  <2>2. ASSUME NEW i \in 1..Len(f[t])
        PROVE  Linked(g[t][i], r) <=> Linked(f[t][i], r) /\ r # h
    <3>1. CASE r = h
      <4>1. Linked(f[t][i], r) => t = s /\ i = 1
        BY <3>1, <1>8
      <4> QED
        BY <3>1, <4>1, <1>7
    <3>2. CASE r # h
      BY <3>2, <1>7
    <3> QED
      BY <3>1, <3>2
  <2> QED
    BY <2>1, <2>2 DEF Taken
<1>11. Taken(f, s, h)
  BY <1>1, <1>3 DEF Taken
<1>12. st2[h] # "TASK_WAITING" /\ \A r \in Readers : r # h => st2[r] = st[r]
  BY DEF todo
<1>13. ~Linked(w, h)
  BY <1>3, <1>11 DEF Found
<1>14. Found(w, g, st2)
  BY <1>10, <1>12, <1>13 DEF Found
<1> QED
  BY <1>5, <1>9, <1>14

\* The handler ends with an empty list.
LEMMA EndKeeps ==
  ASSUME NEW f \in Lists, NEW w, NEW st, NEW st2, NEW s \in Threads,
         Once(f), Found(w, f, st), f[s] # <<>>, Len(Head(f[s])) = 0,
         SameBlocked(st, st2),
         NEW g \in Lists, g[s] = Tail(f[s]), \A t \in Threads : t # s => g[t] = f[t]
  PROVE  Once(g) /\ Found(w, g, st2)
<1>1. /\ f[s] \in Seq(Seq(Readers)) /\ Len(f[s]) \in Nat /\ Len(f[s]) > 0
      /\ Len(f[s][1]) = 0 /\ Tail(f[s]) \in Seq(Seq(Readers))
      /\ Len(Tail(f[s])) = Len(f[s]) - 1
      /\ \A i \in 1..Len(Tail(f[s])) : Tail(f[s])[i] = f[s][i + 1]
  BY DEF Lists
<1>2. g[s] = Tail(f[s]) /\ \A t \in Threads : t # s => g[t] = f[t]
  OBVIOUS
<1>3. /\ Len(g[s]) = Len(f[s]) - 1
      /\ \A i \in 1..Len(g[s]) : i + 1 \in 1..Len(f[s]) /\ g[s][i] = f[s][i + 1]
  <2>1. Len(g[s]) = Len(f[s]) - 1 /\ \A i \in 1..Len(g[s]) : g[s][i] = f[s][i + 1]
    BY <1>1, <1>2, Zenon
  <2>2. \A i \in 1..Len(g[s]) : i + 1 \in 1..Len(f[s])
    BY <2>1, <1>1
  <2> QED
    BY <2>1, <2>2
<1>4. Once(g)
  <2> SUFFICES ASSUME NEW t \in Threads, NEW u \in Threads,
                      NEW i \in 1..Len(g[t]), NEW j \in 1..Len(g[u])
               PROVE  /\ NoRepeat(g[t][i])
                      /\ \A r \in Readers :
                           Linked(g[t][i], r) /\ Linked(g[u][j], r) => t = u /\ i = j
    BY DEF Once
  <2> DEFINE Old(v, k) == IF v = s THEN k + 1 ELSE k
  <2>1. Old(t, i) \in 1..Len(f[t]) /\ g[t][i] = f[t][Old(t, i)]
    BY <1>2, <1>3
  <2>2. Old(u, j) \in 1..Len(f[u]) /\ g[u][j] = f[u][Old(u, j)]
    BY <1>2, <1>3
  <2>3. t = u /\ Old(t, i) = Old(u, j) => t = u /\ i = j
    OBVIOUS
  <2> HIDE DEF Old
  <2> QED
    BY <2>1, <2>2, <2>3 DEF Once
<1>5. \A r \in Readers, t \in Threads : Taken(g, t, r) <=> Taken(f, t, r)
  <2> TAKE r \in Readers, t \in Threads
  <2>1. CASE t # s
    BY <2>1, <1>2 DEF Taken
  <2>2. CASE t = s
    <3>1. Taken(g, s, r) => Taken(f, s, r)
      BY <1>3 DEF Taken
    <3>2. ASSUME NEW i \in 1..Len(f[s]), Linked(f[s][i], r)
          PROVE  Taken(g, s, r)
      <4>1. i # 1
        BY <3>2, <1>1 DEF Linked
      <4>2. i - 1 \in 1..Len(g[s]) /\ (i - 1) + 1 = i
        BY <4>1, <1>1, <1>3
      <4>3. g[s][i - 1] = f[s][i]
        BY <4>2, <1>3
      <4> QED
        BY <3>2, <4>2, <4>3 DEF Taken
    <3> QED
      BY <2>2, <3>1, <3>2 DEF Taken
  <2> QED
    BY <2>1, <2>2
<1> QED
  BY <1>2, <1>4, <1>5 DEF Found, SameBlocked

-----------------------------------------------------------------------------
(***************************************************************************)
(* Every step of the driver is a step of the scheduler's contract.         *)
(***************************************************************************)

\* The reader that a handler wakes up is blocked.
LEMMA WokenIsBlocked ==
  ASSUME KeyboardInv
  PROVE  /\ waiting_tasks # <<>> =>
              /\ Head(waiting_tasks) \in Readers
              /\ status[Head(waiting_tasks)] = "TASK_WAITING"
         /\ frames[self] # <<>> /\ Head(frames[self]) # <<>> =>
              /\ Head(Head(frames[self])) \in Readers
              /\ status[Head(Head(frames[self]))] = "TASK_WAITING"
<1>1. Found(waiting_tasks, frames, status)
  BY FoundNow DEF KeyboardInv
<1>2. ASSUME waiting_tasks # <<>>
      PROVE  /\ Head(waiting_tasks) \in Readers
             /\ status[Head(waiting_tasks)] = "TASK_WAITING"
  <2>1. Head(waiting_tasks) \in Readers /\ Linked(waiting_tasks, Head(waiting_tasks))
    BY <1>1, <1>2, RemoveHead, Zenon DEF KeyboardInv, KeyboardTypeOK, Found
  <2> QED
    BY <1>1, <2>1 DEF Found
<1>3. ASSUME frames[self] # <<>>, Head(frames[self]) # <<>>
      PROVE  /\ Head(Head(frames[self])) \in Readers
             /\ status[Head(Head(frames[self]))] = "TASK_WAITING"
  <2> DEFINE todo == Head(frames[self])
  <2>1. /\ self \in Threads /\ frames[self] \in Seq(Seq(Readers))
        /\ 1 \in 1..Len(frames[self]) /\ todo = frames[self][1] /\ todo \in Seq(Readers)
    BY <1>3 DEF KeyboardInv, KeyboardTypeOK, SchedInv, SchedTypeOK, self
  <2>2. NoRepeat(todo)
    BY <2>1 DEF KeyboardInv, HeldOnce
  <2> HIDE DEF todo
  <2>3. todo # <<>>
    BY <1>3 DEF todo
  <2>4. Head(todo) \in Readers /\ Linked(todo, Head(todo))
    BY <2>1, <2>2, <2>3, RemoveHead, Zenon
  <2>5. Taken(frames, self, Head(todo))
    BY <2>1, <2>4 DEF Taken
  <2>6. status[Head(todo)] = "TASK_WAITING"
    BY <1>1, <2>1, <2>4, <2>5 DEF Found
  <2> QED
    BY <2>4, <2>6 DEF todo
<1> QED
  BY <1>2, <1>3

\* Each step calls at most one scheduler function, within its contract.
LEMMA KeyboardStepsScheduler == KeyboardInv /\ [Next]_vars => [SchedNext]_schedVars
<1> SUFFICES ASSUME KeyboardInv, [Next]_vars PROVE [SchedNext]_schedVars
  OBVIOUS
<1>1. ASSUME NEW r \in Readers, status[r] = "TASK_WAITING",
             add_thread_node_to_schedule_head(r)
      PROVE  SchedNext
  <2>1. r \in Threads /\ r \in IrqThreads
    BY ReadersAssumption DEF Readers
  <2> QED
    BY <1>1, <2>1 DEF SchedNext, WakeThreadFromInterrupt
<1>2. ASSUME NEW l \in {"user", "retry"}, ReadChar(l) \/ ReadBlocks(l)
      PROVE  [SchedNext]_schedVars
  <2>1. CASE ReadChar(l)
    BY <2>1 DEF ReadChar
  <2>2. CASE ReadBlocks(l)
    <3>1. self \in Readers /\ pc[self] # "sleep" /\ schedule_mark_thread_block
      BY <2>2 DEF ReadBlocks, Goto
    <3>2. status[self] = "TASK_RUNNING" /\ crt_thread_node # MainThread
      BY <3>1 DEF KeyboardInv, CurrentReaderRuns, self, Readers
    <3> QED
      BY <3>1, <3>2 DEF SchedNext, BlockThread, self
  <2> QED
    BY <1>2, <2>1, <2>2
<1>3. CASE ReadSleeps
  BY <1>3 DEF ReadSleeps, Goto, KeyboardInv, AlwaysPreemptible, SchedNext, YieldThread,
              Readers, self
<1>4. ASSUME NEW code \in Scancodes, keyboard_interrupt_handler(code)
      PROVE  SchedNext
  <2>1. CASE WakeFirst
    BY <2>1, <1>1, WokenIsBlocked DEF WakeFirst
  <2>2. CASE request_reschedule
    BY <2>2 DEF SchedNext, RequestReschedule
  <2> QED
    BY <1>4, <2>1, <2>2 DEF keyboard_interrupt_handler
<1>5. CASE HandlerWakes
  BY <1>5, <1>1, WokenIsBlocked DEF HandlerWakes
<1>6. CASE HandlerEnds
  BY <1>6 DEF HandlerEnds, SchedNext, RequestReschedule
<1>7. CASE Tick
  BY <1>7 DEF Tick, SchedNext, TimerInterrupt
<1>8. ASSUME NEW t \in Readers, StartReader(t) PROVE SchedNext
  BY <1>8, ThreadsAssumption DEF StartReader, SchedNext, StartThread, Readers
<1>9. CASE UNCHANGED vars
  BY <1>9 DEF vars
<1> QED
  BY <1>2, <1>3, <1>4, <1>5, <1>6, <1>7, <1>8, <1>9 DEF Next, read_keyboard_char

-----------------------------------------------------------------------------
(***************************************************************************)
(* The invariant, one lemma per kind of step.                              *)
(***************************************************************************)

\* The buffer never holds more than its capacity.
LEMMA Enqueued ==
  ASSUME KeyboardTypeOK, NEW code \in Scancodes, enqueue(code)
  PROVE  queue' \in Seq(Scancodes) /\ Len(queue') <= KEYBOARD_BUF_SIZE
<1>1. /\ queue \in Seq(Scancodes) /\ Len(queue) \in Nat /\ KEYBOARD_BUF_SIZE \in Nat
      /\ Len(queue) <= KEYBOARD_BUF_SIZE
  BY KeyboardAssumption DEF KeyboardTypeOK
<1>2. Append(queue, code) \in Seq(Scancodes) /\ Len(Append(queue, code)) = Len(queue) + 1
  BY <1>1
<1> QED
  BY <1>1, <1>2 DEF enqueue

\* A set of natural numbers that is not empty has a least element.
LEMMA LeastNatural ==
  ASSUME NEW S \in SUBSET Nat, S # {}
  PROVE  \E m \in S : \A k \in S : m <= k
<1>1. PICK R : IsWellFoundedOn(R, Nat) /\ \A k, m \in Nat : k < m => <<k, m>> \in R
  <2>1. \A k, m \in Nat : k < m => <<k, m>> \in OpToRel(<, Nat)
    BY DEF OpToRel
  <2> QED
    BY <2>1, NatLessThanWellFounded, Zenon
<1>2. S \subseteq Nat
  OBVIOUS
<1>3. PICK m \in S : \A k \in S : ~ (<<k, m>> \in R)
  <2>1. IsWellFoundedOn(R, Nat)
    BY <1>1
  <2> QED
    BY <2>1, <1>2, WFMin
<1>4. \A k \in S : ~(k < m)
  BY <1>1, <1>2, <1>3, Zenon
<1>5. \A k \in S : m <= k
  BY <1>2, <1>4
<1> QED
  BY <1>5

\* What read_keyboard_char_impl leaves is the end of the buffer.
LEMMA ReadLeaves ==
  ASSUME KeyboardTypeOK
  PROVE  /\ read_keyboard_char_impl \in Seq(Scancodes)
         /\ Len(read_keyboard_char_impl) <= KEYBOARD_BUF_SIZE
         /\ queue = <<>> => Chars = {}
<1>1. /\ queue \in Seq(Scancodes) /\ Len(queue) \in Nat /\ KEYBOARD_BUF_SIZE \in Nat
      /\ Len(queue) <= KEYBOARD_BUF_SIZE
  BY KeyboardAssumption DEF KeyboardTypeOK
<1>2. queue = <<>> => Chars = {}
  BY DEF Chars
<1>3. ASSUME Chars # {}
      PROVE  /\ SubSeq(queue, FirstChar + 1, Len(queue)) \in Seq(Scancodes)
             /\ Len(SubSeq(queue, FirstChar + 1, Len(queue))) <= Len(queue)
  <2> DEFINE n == FirstChar + 1
  <2>1. FirstChar \in 1..Len(queue)
    <3>1. Chars \in SUBSET Nat /\ \A i \in Chars : i \in 1..Len(queue)
      BY DEF Chars
    <3>2. \E i \in Chars : \A j \in Chars : i <= j
      BY <1>3, <3>1, LeastNatural
    <3>3. FirstChar \in Chars
      BY <3>2, Zenon DEF FirstChar
    <3> QED
      BY <3>1, <3>3
  <2>2. n \in 1..(Len(queue) + 1)
    BY <1>1, <2>1
  <2> HIDE DEF n
  <2> QED
    BY <1>1, <2>2 DEF n
<1>4. <<>> \in Seq(Scancodes) /\ Len(<<>>) = 0
  OBVIOUS
<1>5. CASE Chars = {}
  BY <1>1, <1>2, <1>4, <1>5 DEF read_keyboard_char_impl
<1>6. CASE Chars # {}
  <2> DEFINE rest == SubSeq(queue, FirstChar + 1, Len(queue))
  <2>1. rest \in Seq(Scancodes) /\ Len(rest) <= Len(queue) /\ read_keyboard_char_impl = rest
    BY <1>3, <1>6 DEF read_keyboard_char_impl
  <2>2. Len(rest) \in Nat
    BY <2>1
  <2> HIDE DEF rest
  <2> QED
    BY <1>1, <1>2, <2>1, <2>2
<1> QED
  BY <1>5, <1>6

\* A step that leaves the waiters alone and neither blocks nor wakes up a reader.
LEMMA SameWaiters ==
  ASSUME KeyboardInv, UNCHANGED <<waiting_tasks, frames>>,
         \A r \in Readers : status'[r] = "TASK_WAITING" <=> status[r] = "TASK_WAITING"
  PROVE  HeldOnce' /\ BlockedReaderFound'
<1>1. Found(waiting_tasks, frames, status)
  BY FoundNow DEF KeyboardInv
<1>2. Found(waiting_tasks', frames', status')
  BY <1>1 DEF Found
<1>3. HeldOnce'
  BY DEF KeyboardInv, HeldOnce
<1> QED
  BY <1>2, <1>3, FoundNext

\* The current thread gives up the processor, or loses it.
LEMMA SwitchStep ==
  ASSUME KeyboardInv, SchedInv', KeepsBlocked, UNCHANGED keyboardVars,
         UNCHANGED frames,
         \/ UNCHANGED <<crt_thread_node, status, pc>>
         \/ /\ status'[crt_thread_node'] = "TASK_RUNNING"
            /\ pc' \in [Readers -> {"user", "sleep", "retry"}]
  PROVE  KeyboardInv'
<1>1. Readers \subseteq Threads
  BY DEF Readers
<1>2. HeldOnce' /\ BlockedReaderFound'
  BY <1>1, SameWaiters DEF KeepsBlocked, keyboardVars
<1>3. KeyboardTypeOK' /\ NoWaiterWithInput'
  BY DEF KeyboardInv, KeyboardTypeOK, NoWaiterWithInput, keyboardVars
<1>4. CurrentReaderRuns'
  BY DEF KeyboardInv, CurrentReaderRuns, self
<1>5. AlwaysPreemptible'
  BY DEF KeyboardInv, AlwaysPreemptible, KeepsBlocked
<1> QED
  BY <1>2, <1>3, <1>4, <1>5 DEF KeyboardInv

\* A reader gets its character.
LEMMA ReadCharStep ==
  ASSUME KeyboardInv, SchedInv', NEW l \in {"user", "retry"}, ReadChar(l)
  PROVE  KeyboardInv'
<1>1. UNCHANGED <<crt_thread_node, status, preempt_count, waiting_tasks, frames>>
  BY DEF ReadChar, schedVars
<1>2. /\ self \in Readers /\ pc[self] # "sleep"
      /\ pc' \in [Readers -> {"user", "sleep", "retry"}]
  BY DEF ReadChar, Goto, KeyboardInv, KeyboardTypeOK
<1>3. KeyboardTypeOK'
  BY <1>1, <1>2, ReadLeaves DEF ReadChar, KeyboardInv, KeyboardTypeOK
<1>4. NoWaiterWithInput'
  <2>1. queue # <<>>
    BY ReadLeaves DEF KeyboardInv, ReadChar
  <2> QED
    BY <1>1, <2>1 DEF KeyboardInv, NoWaiterWithInput
<1>5. HeldOnce' /\ BlockedReaderFound'
  BY <1>1, SameWaiters
<1>6. CurrentReaderRuns' /\ AlwaysPreemptible'
  BY <1>1, <1>2 DEF KeyboardInv, CurrentReaderRuns, AlwaysPreemptible, self
<1> QED
  BY <1>3, <1>4, <1>5, <1>6 DEF KeyboardInv

\* A reader joins waiting_tasks.  It was in no list, because it was running.
LEMMA ReadBlocksStep ==
  ASSUME KeyboardInv, SchedInv', NEW l \in {"user", "retry"}, ReadBlocks(l)
  PROVE  KeyboardInv'
<1>1. /\ UNCHANGED <<crt_thread_node, preempt_count, frames>>
      /\ status' = [status EXCEPT ![self] = "TASK_WAITING"]
      /\ waiting_tasks' = Append(waiting_tasks, self)
      /\ queue' = <<>>
  BY DEF ReadBlocks, schedule_mark_thread_block, self, read_keyboard_char_impl
<1>2. /\ self \in Readers /\ self \in Threads /\ status[self] = "TASK_RUNNING"
      /\ pc' \in [Readers -> {"user", "sleep", "retry"}] /\ pc'[self] = "sleep"
  BY DEF ReadBlocks, Goto, KeyboardInv, KeyboardTypeOK, CurrentReaderRuns, Readers
<1>3. /\ status'[self] = "TASK_WAITING"
      /\ \A t \in Threads : t # self => status'[t] = status[t]
  BY <1>1, <1>2 DEF KeyboardInv, SchedInv, SchedTypeOK
<1>4. Found(waiting_tasks, frames, status)
  BY FoundNow DEF KeyboardInv
<1>5. ~Linked(waiting_tasks, self) /\ \A t \in Threads : ~Taken(frames, t, self)
  BY <1>2, <1>4 DEF Found
<1>6. waiting_tasks \in Seq(Readers) /\ NoRepeat(waiting_tasks)
  BY <1>4 DEF Found, KeyboardInv, KeyboardTypeOK
<1>7. /\ waiting_tasks' \in Seq(Readers)
      /\ NoRepeat(waiting_tasks')
      /\ \A t : Linked(waiting_tasks', t) <=> (Linked(waiting_tasks, t) \/ t = self)
  BY <1>1, <1>2, <1>5, <1>6, AppendNode, Zenon
<1>8. Found(waiting_tasks', frames', status')
  <2>1. Readers \subseteq Threads
    BY DEF Readers
  <2> QED
    BY <1>1, <1>3, <1>4, <1>5, <1>7, <2>1 DEF Found
<1>9. KeyboardTypeOK' /\ NoWaiterWithInput'
  BY <1>1, <1>2, <1>7, KeyboardAssumption
     DEF KeyboardInv, KeyboardTypeOK, NoWaiterWithInput
<1>10. HeldOnce' /\ CurrentReaderRuns' /\ AlwaysPreemptible'
  BY <1>1, <1>2 DEF KeyboardInv, HeldOnce, CurrentReaderRuns, AlwaysPreemptible, self
<1> QED
  BY <1>8, <1>9, <1>10, FoundNext DEF KeyboardInv

\* add_thread_node_to_schedule_head makes one reader ready.  A reader it interrupts has
\* marked itself blocked, or goes on running.
LEMMA WakesOne ==
  ASSUME KeyboardInv, NEW r \in Readers, status[r] = "TASK_WAITING",
         add_thread_node_to_schedule_head(r), UNCHANGED pc
  PROVE  /\ status'[r] = "TASK_READY"
         /\ \A t \in Threads : t # r => status'[t] = status[t]
         /\ CurrentReaderRuns' /\ AlwaysPreemptible'
<1>1. /\ status' = [status EXCEPT ![r] = "TASK_READY"]
      /\ UNCHANGED <<crt_thread_node, preempt_count>>
  BY DEF add_thread_node_to_schedule_head
<1>2. r \in Threads /\ status \in [Threads -> TaskStatus]
  BY DEF Readers, KeyboardInv, SchedInv, SchedTypeOK
<1>3. /\ status'[r] = "TASK_READY"
      /\ \A t \in Threads : t # r => status'[t] = status[t]
  BY <1>1, <1>2
<1>4. CurrentReaderRuns' /\ AlwaysPreemptible'
  BY <1>1, <1>3 DEF KeyboardInv, CurrentReaderRuns, AlwaysPreemptible, self, Readers
<1> QED
  BY <1>3, <1>4

\* The lists of the handlers are in the types of the lemmas above.
LEMMA ListsNow ==
  ASSUME KeyboardInv
  PROVE  /\ frames \in Lists /\ Once(frames) /\ Found(waiting_tasks, frames, status)
         /\ self \in Threads /\ Readers \subseteq Threads
  BY FoundNow DEF KeyboardInv, KeyboardTypeOK, HeldOnce, Lists, Once, SchedInv,
                  SchedTypeOK, self, Readers

\* The interrupt finds waiters.
LEMMA WakeFirstStep ==
  ASSUME KeyboardInv, SchedInv', NEW code \in Scancodes, enqueue(code), WakeFirst,
         UNCHANGED pc
  PROVE  KeyboardInv'
<1> DEFINE h == Head(waiting_tasks)
<1>1. /\ waiting_tasks # <<>> /\ waiting_tasks' = <<>>
      /\ add_thread_node_to_schedule_head(h)
      /\ frames' = [frames EXCEPT ![self] = <<Tail(waiting_tasks)>> \o @]
  BY DEF WakeFirst, Push
<1>2. h \in Readers /\ status[h] = "TASK_WAITING"
  BY <1>1, WokenIsBlocked
<1>3. /\ status'[h] = "TASK_READY"
      /\ \A t \in Threads : t # h => status'[t] = status[t]
      /\ CurrentReaderRuns' /\ AlwaysPreemptible'
  BY <1>1, <1>2, WakesOne
<1>4. waiting_tasks \in Seq(Readers)
  BY DEF KeyboardInv, KeyboardTypeOK
<1>5. frames' \in Lists /\ Once(frames') /\ Found(<<>>, frames', status')
  <2>1. /\ frames \in Lists /\ Once(frames) /\ Found(waiting_tasks, frames, status)
        /\ self \in Threads /\ Readers \subseteq Threads
    BY ListsNow
  <2>2. status'[h] # "TASK_WAITING" /\ \A r \in Readers : r # h => status'[r] = status[r]
    BY <2>1, <1>3
  <2> QED
    BY <1>1, <1>4, <2>1, <2>2, TakeKeeps
<1>6. KeyboardTypeOK' /\ NoWaiterWithInput' /\ HeldOnce'
  <2>1. queue' \in Seq(Scancodes) /\ Len(queue') <= KEYBOARD_BUF_SIZE
    BY Enqueued DEF KeyboardInv
  <2>2. KeyboardTypeOK'
    BY <1>1, <1>5, <2>1 DEF KeyboardInv, KeyboardTypeOK, Lists
  <2> QED
    BY <1>1, <1>5, <2>2 DEF NoWaiterWithInput, HeldOnce, Once
<1> QED
  BY <1>1, <1>3, <1>5, <1>6, FoundNext DEF KeyboardInv

\* The handler goes on to the next waiter.
LEMMA HandlerWakesStep ==
  ASSUME KeyboardInv, SchedInv', HandlerWakes
  PROVE  KeyboardInv'
<1> DEFINE h == Head(Head(frames[self]))
<1>1. /\ frames[self] # <<>> /\ Head(frames[self]) # <<>>
      /\ add_thread_node_to_schedule_head(h)
      /\ frames' = [frames EXCEPT ![self] = <<Tail(Head(frames[self]))>> \o Tail(@)]
      /\ UNCHANGED <<queue, waiting_tasks, pc>>
  BY DEF HandlerWakes, keyboardVars
<1>2. h \in Readers /\ status[h] = "TASK_WAITING"
  BY <1>1, WokenIsBlocked
<1>3. /\ status'[h] = "TASK_READY"
      /\ \A t \in Threads : t # h => status'[t] = status[t]
      /\ CurrentReaderRuns' /\ AlwaysPreemptible'
  BY <1>1, <1>2, WakesOne
<1>4. frames' \in Lists /\ Once(frames') /\ Found(waiting_tasks, frames', status')
  <2>1. /\ frames \in Lists /\ Once(frames) /\ Found(waiting_tasks, frames, status)
        /\ self \in Threads /\ Readers \subseteq Threads
    BY ListsNow
  <2>2. status'[h] # "TASK_WAITING" /\ \A r \in Readers : r # h => status'[r] = status[r]
    BY <2>1, <1>3
  <2>3. frames' = [frames EXCEPT ![self] = <<Tail(Head(@))>> \o Tail(@)]
    BY <1>1, <2>1 DEF Lists
  <2> QED
    BY <1>1, <2>1, <2>2, <2>3, WakeKeeps
<1>5. KeyboardTypeOK' /\ NoWaiterWithInput' /\ HeldOnce'
  BY <1>1, <1>4
     DEF KeyboardInv, KeyboardTypeOK, NoWaiterWithInput, HeldOnce, Lists, Once
<1>6. Found(waiting_tasks', frames', status')
  BY <1>1, <1>4
<1> QED
  BY <1>3, <1>5, <1>6, FoundNext DEF KeyboardInv

\* The handler ends, and its thread may be switched out.
LEMMA HandlerEndsStep ==
  ASSUME KeyboardInv, SchedInv', HandlerEnds
  PROVE  KeyboardInv'
<1>1. /\ frames[self] # <<>> /\ Head(frames[self]) = <<>>
      /\ frames' = [frames EXCEPT ![self] = Tail(@)]
      /\ request_reschedule
      /\ UNCHANGED <<queue, waiting_tasks, pc>>
  BY DEF HandlerEnds, keyboardVars
<1>2. /\ KeepsBlocked
      /\ \/ crt_thread_node' = crt_thread_node /\ status' = status
         \/ status'[crt_thread_node'] = "TASK_RUNNING"
  BY <1>1, ScheduleKeepsBlocked DEF request_reschedule, KeyboardInv
<1>3. frames' \in Lists /\ Once(frames') /\ Found(waiting_tasks, frames', status')
  <2>1. /\ frames \in Lists /\ Once(frames) /\ Found(waiting_tasks, frames, status)
        /\ self \in Threads /\ Readers \subseteq Threads
    BY ListsNow
  <2>2. SameBlocked(status, status')
    BY <2>1, <1>2 DEF KeepsBlocked, SameBlocked
  <2> QED
    <3>1. Len(Head(frames[self])) = 0
      BY <1>1
    <3>2. /\ frames' \in Lists /\ frames'[self] = Tail(frames[self])
          /\ \A t \in Threads : t # self => frames'[t] = frames[t]
      BY <1>1, <2>1 DEF Lists
    <3>3. frames[self] # <<>>
      BY <1>1
    <3>4. Once(frames') /\ Found(waiting_tasks, frames', status')
      BY <2>1, <2>2, <3>1, <3>2, <3>3, EndKeeps
    <3> QED
      BY <3>2, <3>4
<1>4. KeyboardTypeOK' /\ NoWaiterWithInput' /\ HeldOnce'
  BY <1>1, <1>3
     DEF KeyboardInv, KeyboardTypeOK, NoWaiterWithInput, HeldOnce, Lists, Once
<1>5. CurrentReaderRuns' /\ AlwaysPreemptible'
  BY <1>1, <1>2
     DEF KeyboardInv, CurrentReaderRuns, AlwaysPreemptible, KeepsBlocked, self
<1>6. Found(waiting_tasks', frames', status')
  BY <1>1, <1>3
<1> QED
  BY <1>4, <1>5, <1>6, FoundNext DEF KeyboardInv

\* An interrupt that finds nobody waiting.
LEMMA NobodyWaitsStep ==
  ASSUME KeyboardInv, SchedInv', NEW code \in Scancodes, enqueue(code),
         waiting_tasks = <<>>, request_reschedule, UNCHANGED <<waiting_tasks, frames, pc>>
  PROVE  KeyboardInv'
<1>1. /\ KeepsBlocked
      /\ \/ crt_thread_node' = crt_thread_node /\ status' = status
         \/ status'[crt_thread_node'] = "TASK_RUNNING"
  BY ScheduleKeepsBlocked DEF request_reschedule, KeyboardInv
<1>2. HeldOnce' /\ BlockedReaderFound'
  BY <1>1, ListsNow, SameWaiters DEF KeepsBlocked
<1>3. KeyboardTypeOK' /\ NoWaiterWithInput'
  BY Enqueued DEF KeyboardInv, KeyboardTypeOK, NoWaiterWithInput
<1>4. CurrentReaderRuns' /\ AlwaysPreemptible'
  BY <1>1 DEF KeyboardInv, CurrentReaderRuns, AlwaysPreemptible, KeepsBlocked, self
<1> QED
  BY <1>2, <1>3, <1>4 DEF KeyboardInv

\* A reader is started by the main thread.
LEMMA StartReaderStep ==
  ASSUME KeyboardInv, SchedInv', NEW t \in Readers, StartReader(t)
  PROVE  KeyboardInv'
<1>1. /\ status[t] = "TASK_NONE" /\ crt_thread_node = MainThread
      /\ status' = [status EXCEPT ![t] = "TASK_READY"]
      /\ preempt_count' = [preempt_count EXCEPT ![t] = 0]
      /\ crt_thread_node' = crt_thread_node
      /\ UNCHANGED <<queue, waiting_tasks, frames, pc>>
  BY DEF StartReader, add_thread_to_schedule, keyboardVars, self
<1>2. /\ t \in Threads /\ Readers \subseteq Threads /\ status \in [Threads -> TaskStatus]
      /\ preempt_count \in [Threads -> 0..MaxPreempt]
  BY DEF Readers, KeyboardInv, SchedInv, SchedTypeOK
<1>3. HeldOnce' /\ BlockedReaderFound'
  BY <1>1, <1>2, SameWaiters
<1>4. KeyboardTypeOK' /\ NoWaiterWithInput'
  BY <1>1 DEF KeyboardInv, KeyboardTypeOK, NoWaiterWithInput
<1>5. CurrentReaderRuns' /\ AlwaysPreemptible'
  BY <1>1, <1>2 DEF KeyboardInv, CurrentReaderRuns, AlwaysPreemptible, Readers, self
<1> QED
  BY <1>3, <1>4, <1>5 DEF KeyboardInv

\* init_keyboard.
LEMMA KeyboardInitInv == Init => KeyboardInv
<1> SUFFICES ASSUME Init PROVE KeyboardInv
  OBVIOUS
<1>1. SchedInv
  BY SchedInitInv DEF Init
<1>2. \A t \in Threads : frames[t] = <<>> /\ Len(frames[t]) = 0
  BY DEF Init
<1>3. \A r \in Readers : status[r] # "TASK_WAITING"
  BY DEF Init, SchedInit, Readers
<1>4. Found(waiting_tasks, frames, status)
  <2>1. \A t \in Threads, r \in Readers : ~Taken(frames, t, r)
    BY <1>2 DEF Taken
  <2>2. NoRepeat(waiting_tasks) /\ \A r : ~Linked(waiting_tasks, r)
    BY DEF Init, NoRepeat, Linked
  <2> QED
    BY <1>3, <2>1, <2>2 DEF Found
<1>5. HeldOnce
  BY <1>2 DEF HeldOnce
<1>6. KeyboardTypeOK /\ NoWaiterWithInput
  BY KeyboardAssumption DEF Init, KeyboardTypeOK, NoWaiterWithInput
<1>7. CurrentReaderRuns /\ AlwaysPreemptible
  BY DEF Init, SchedInit, CurrentReaderRuns, AlwaysPreemptible, self, Readers
<1> QED
  BY <1>1, <1>4, <1>5, <1>6, <1>7, FoundNow DEF KeyboardInv

\* Every step of a reader, of a handler, of the timer and of the main thread preserves
\* the invariant.
LEMMA KeyboardNextInv == KeyboardInv /\ [Next]_vars => KeyboardInv'
<1> SUFFICES ASSUME KeyboardInv, [Next]_vars PROVE KeyboardInv'
  OBVIOUS
<1>0. SchedInv'
  BY KeyboardStepsScheduler, SchedNextInv DEF KeyboardInv
<1>1. ASSUME NEW l \in {"user", "retry"}, ReadChar(l) \/ ReadBlocks(l)
      PROVE  KeyboardInv'
  BY <1>0, <1>1, ReadCharStep, ReadBlocksStep
<1>2. CASE ReadSleeps
  <2>1. KeepsBlocked /\ status'[crt_thread_node'] = "TASK_RUNNING"
    BY <1>2, YieldKeepsBlocked DEF KeyboardInv, ReadSleeps
  <2>2. pc' \in [Readers -> {"user", "sleep", "retry"}]
    BY <1>2 DEF ReadSleeps, Goto, KeyboardInv, KeyboardTypeOK
  <2> QED
    BY <1>0, <1>2, <2>1, <2>2, SwitchStep DEF ReadSleeps
<1>3. ASSUME NEW code \in Scancodes, keyboard_interrupt_handler(code)
      PROVE  KeyboardInv'
  BY <1>0, <1>3, WakeFirstStep, NobodyWaitsStep DEF keyboard_interrupt_handler
<1>4. CASE HandlerWakes
  BY <1>0, <1>4, HandlerWakesStep
<1>5. CASE HandlerEnds
  BY <1>0, <1>5, HandlerEndsStep
<1>6. CASE Tick
  <2>1. /\ KeepsBlocked
        /\ \/ crt_thread_node' = crt_thread_node /\ status' = status
           \/ status'[crt_thread_node'] = "TASK_RUNNING"
    BY <1>6, ScheduleKeepsBlocked DEF Tick, timer_callback, KeyboardInv
  <2>2. UNCHANGED <<queue, waiting_tasks, frames, pc>>
    BY <1>6 DEF Tick, keyboardVars
  <2>3. pc' \in [Readers -> {"user", "sleep", "retry"}]
    BY <2>2 DEF KeyboardInv, KeyboardTypeOK
  <2> QED
    BY <1>0, <2>1, <2>2, <2>3, SwitchStep DEF keyboardVars
<1>7. ASSUME NEW t \in Readers, StartReader(t) PROVE KeyboardInv'
  BY <1>0, <1>7, StartReaderStep
<1>8. CASE UNCHANGED vars
  <2>1. UNCHANGED <<crt_thread_node, status, preempt_count, queue, waiting_tasks,
                    frames, pc>>
    BY <1>8 DEF vars, schedVars, keyboardVars
  <2>2. KeepsBlocked
    BY <2>1 DEF KeepsBlocked
  <2> QED
    BY <1>0, <2>1, <2>2, SwitchStep DEF keyboardVars
<1> QED
  BY <1>1, <1>2, <1>3, <1>4, <1>5, <1>6, <1>7, <1>8 DEF Next, read_keyboard_char

-----------------------------------------------------------------------------
(***************************************************************************)
(* The theorems.                                                           *)
(***************************************************************************)

\* KeyboardInv holds in every reachable state, however the handlers nest and are
\* switched out.
THEOREM KeyboardInvariant == Spec => []KeyboardInv
  BY KeyboardInitInv, KeyboardNextInv, PTL DEF Spec

\* No reader waits for an interrupt while the buffer has something to read.
THEOREM InputReachesWaiters == Spec => []NoWaiterWithInput
<1>1. KeyboardInv => NoWaiterWithInput
  BY DEF KeyboardInv
<1> QED
  BY <1>1, KeyboardInvariant, PTL

\* A blocked reader is on exactly one list that an interrupt handler works through.
THEOREM WaitersAreFound == Spec => []BlockedReaderFound
<1>1. KeyboardInv => BlockedReaderFound
  BY DEF KeyboardInv
<1> QED
  BY <1>1, KeyboardInvariant, PTL

\* The driver calls the scheduler within its contract, although its handler wakes up
\* threads with interrupts enabled, the interrupted thread itself included.
THEOREM KeyboardImplementsScheduler == Spec => SchedSpec
<1>1. Init => SchedInit
  BY DEF Init
<1>2. KeyboardInv /\ [Next]_vars => [SchedNext]_schedVars
  BY KeyboardStepsScheduler
<1> QED
  BY <1>1, <1>2, KeyboardInvariant, PTL DEF Spec, SchedSpec

==============================================================================
