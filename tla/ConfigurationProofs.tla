---- MODULE ConfigurationProofs ----
(***************************************************************************)
(* Proofs about Configuration and the SqlPool under it, for every number   *)
(* of connections, threads and ports: a connection has one owner, no       *)
(* wakeup is lost, a locked port is left alone, and the locks of cars in   *)
(* memory are those of the table.                                          *)
(***************************************************************************)
EXTENDS Configuration, SequencesExt, SequenceTheorems, FiniteSetTheorems, TLAPS

----------------------------------------------------------------------------
\* A connection is taken from the head of a sequence, put behind it, or taken
\* from its end: what that does to a sequence without repetitions.
LEMMA TailLemma ==
  ASSUME NEW S, NEW s \in Seq(S), s # <<>>, IsInjective(s)
  PROVE  /\ Tail(s) \in Seq(S) /\ Len(Tail(s)) = Len(s) - 1
         /\ Head(s) \in S /\ Head(s) \in ToSet(s)
         /\ IsInjective(Tail(s)) /\ ToSet(Tail(s)) = ToSet(s) \ {Head(s)}
<1> DEFINE t == Tail(s)
<1>1. /\ t \in Seq(S) /\ Len(t) = Len(s) - 1 /\ Len(s) \in Nat /\ Len(s) > 0
      /\ \A i \in 1 .. Len(s) - 1 : t[i] = s[i + 1]
      /\ Head(s) = s[1]
  OBVIOUS
<1>2. /\ DOMAIN s = 1 .. Len(s) /\ DOMAIN t = 1 .. Len(s) - 1
      /\ \A i \in 1 .. Len(s) : s[i] \in S
  BY <1>1
<1> HIDE DEF t
<1>3. \A i, j \in 1 .. Len(s) : s[i] = s[j] => i = j
  BY <1>2 DEF IsInjective
<1>4. IsInjective(t)
  <2>1. SUFFICES ASSUME NEW i \in 1 .. Len(s) - 1, NEW j \in 1 .. Len(s) - 1, t[i] = t[j]
                 PROVE  i = j
    BY <1>2 DEF IsInjective
  <2>2. i + 1 \in 1 .. Len(s) /\ j + 1 \in 1 .. Len(s) /\ s[i + 1] = s[j + 1]
    BY <1>1, <2>1
  <2> QED BY <1>3, <2>2
<1>5. ToSet(t) = ToSet(s) \ {Head(s)}
  <2>1. \A i \in 1 .. Len(s) - 1 : i + 1 \in 1 .. Len(s) /\ i + 1 # 1 /\ 1 \in 1 .. Len(s)
    BY <1>1
  <2>2. \A i \in 1 .. Len(s) : i # 1 => i - 1 \in 1 .. Len(s) - 1 /\ t[i - 1] = s[i]
    BY <1>1
  <2>3. \A i \in 1 .. Len(s) - 1 : t[i] \in ToSet(s) /\ t[i] # Head(s)
    BY <1>1, <1>2, <1>3, <2>1 DEF ToSet
  <2>4. \A i \in 1 .. Len(s) : s[i] # Head(s) => s[i] \in ToSet(t)
    BY <1>1, <1>2, <2>2 DEF ToSet
  <2> QED BY <1>2, <2>3, <2>4 DEF ToSet
<1>6. Head(s) \in ToSet(s) /\ Head(s) \in S
  BY <1>1, <1>2 DEF ToSet
<1> QED BY <1>1, <1>4, <1>5, <1>6 DEF t

LEMMA AppendLemma ==
  ASSUME NEW S, NEW s \in Seq(S), NEW x \in S, x \notin ToSet(s), IsInjective(s)
  PROVE  /\ Append(s, x) \in Seq(S) /\ Len(Append(s, x)) = Len(s) + 1
         /\ IsInjective(Append(s, x)) /\ ToSet(Append(s, x)) = ToSet(s) \cup {x}
<1> DEFINE t == Append(s, x)
<1>1. /\ t \in Seq(S) /\ Len(t) = Len(s) + 1 /\ Len(s) \in Nat
      /\ \A i \in 1 .. Len(s) : t[i] = s[i]
      /\ t[Len(s) + 1] = x
  BY AppendProperties
<1>2. DOMAIN s = 1 .. Len(s) /\ DOMAIN t = 1 .. Len(s) + 1
  BY <1>1
<1> HIDE DEF t
<1>3. \A i \in 1 .. Len(s) + 1 : i \in 1 .. Len(s) \/ i = Len(s) + 1
  BY <1>1
<1>4. \A i \in 1 .. Len(s) : s[i] # x /\ i \in 1 .. Len(s) + 1
  BY <1>1, <1>2 DEF ToSet
<1>5. IsInjective(t)
  BY <1>1, <1>2, <1>3, <1>4 DEF IsInjective
<1>6. ToSet(t) = ToSet(s) \cup {x}
  <2>1. \A i \in 1 .. Len(s) + 1 : t[i] \in ToSet(s) \cup {x}
    BY <1>1, <1>2, <1>3 DEF ToSet
  <2>2. x \in ToSet(t)
    BY <1>1, <1>2 DEF ToSet
  <2>3. \A i \in 1 .. Len(s) : s[i] \in ToSet(t)
    BY <1>1, <1>2, <1>4 DEF ToSet
  <2> QED BY <1>2, <2>1, <2>2, <2>3 DEF ToSet
<1> QED BY <1>1, <1>5, <1>6 DEF t

LEMMA FrontLemma ==
  ASSUME NEW S, NEW s \in Seq(S), s # <<>>, IsInjective(s)
  PROVE  LET front == SubSeq(s, 1, Len(s) - 1)
             last == s[Len(s)]
         IN  /\ front \in Seq(S) /\ last \in S /\ last \in ToSet(s)
             /\ IsInjective(front) /\ ToSet(front) = ToSet(s) \ {last}
<1> DEFINE front == SubSeq(s, 1, Len(s) - 1)
           last == s[Len(s)]
<1>1. /\ front \in Seq(S) /\ Len(front) = Len(s) - 1 /\ Len(s) \in Nat /\ Len(s) > 0
      /\ \A i \in 1 .. Len(s) - 1 : front[i] = s[i]
  <2>1. Len(s) \in Nat /\ Len(s) > 0
    BY EmptySeq
  <2>2. /\ front \in Seq(S) /\ Len(front) = Len(s) - 1
        /\ \A i \in 1 .. Len(s) - 1 : front[i] = s[i]
    <3>1. \A k \in 0 .. Len(s) :
             /\ SubSeq(s, 1, k) \in Seq(S) /\ Len(SubSeq(s, 1, k)) = k
             /\ \A i \in 1 .. k : SubSeq(s, 1, k)[i] = s[i]
      OBVIOUS
    <3> HIDE DEF front
    <3>2. Len(s) - 1 \in 0 .. Len(s)
      BY <2>1
    <3> DEFINE k == Len(s) - 1
    <3>3. k \in 0 .. Len(s) /\ front = SubSeq(s, 1, k)
      BY <3>2 DEF front
    <3> HIDE DEF k
    <3>4. front \in Seq(S) /\ Len(front) = k /\ \A i \in 1 .. k : front[i] = s[i]
      BY <3>1, <3>3
    <3> QED BY <3>4 DEF k
  <2> QED BY <2>1, <2>2
<1>2. /\ DOMAIN s = 1 .. Len(s) /\ DOMAIN front = 1 .. Len(s) - 1
      /\ \A i \in 1 .. Len(s) : s[i] \in S
  BY <1>1
<1> HIDE DEF front
<1>3. \A i, j \in 1 .. Len(s) : s[i] = s[j] => i = j
  BY <1>2 DEF IsInjective
<1>4. /\ \A i \in 1 .. Len(s) - 1 : i \in 1 .. Len(s) /\ i # Len(s)
      /\ \A i \in 1 .. Len(s) : i # Len(s) => i \in 1 .. Len(s) - 1
      /\ Len(s) \in 1 .. Len(s)
  BY <1>1
<1>5. IsInjective(front)
  BY <1>1, <1>2, <1>3, <1>4 DEF IsInjective
<1>6. ToSet(front) = ToSet(s) \ {last}
  <2>1. \A i \in 1 .. Len(s) - 1 : front[i] \in ToSet(s) /\ front[i] # last
    BY <1>1, <1>2, <1>3, <1>4 DEF ToSet
  <2>2. \A i \in 1 .. Len(s) : s[i] # last => s[i] \in ToSet(front)
    BY <1>1, <1>2, <1>4 DEF ToSet
  <2> QED BY <1>2, <2>1, <2>2 DEF ToSet
<1>7. last \in ToSet(s) /\ last \in S
  BY <1>2, <1>4 DEF ToSet
<1> QED BY <1>1, <1>5, <1>6, <1>7 DEF front

----------------------------------------------------------------------------
(***************************************************************************)
(* The pool.                                                               *)
(***************************************************************************)
\* No connection occurs twice, whether in the queue, in the Guards of a thread,
\* in those of two threads or among the deleted ones, and none is missing.
Owned ==
    /\ IsInjective(connections)
    /\ \A t \in Threads : IsInjective(held[t])
    /\ \A t, u \in Threads : t # u => ToSet(held[t]) \cap ToSet(held[u]) = {}
    /\ \A t \in Threads : ToSet(held[t]) \cap (ToSet(connections) \cup deleted) = {}
    /\ ToSet(connections) \cap deleted = {}
    /\ \A c \in Pool : c \in ToSet(connections) \cup deleted \/ \E t \in Threads : c \in ToSet(held[t])

Noticed == IsFiniteSet(woken) /\ FreeIsNoticed

PoolInv == PoolTypeOK /\ Owned /\ Noticed

\* What any thread may do to the pool.
PoolStep ==
    \/ \E t \in Threads : Acquire(t) \/ Recheck(t) \/ SpuriousWakeup(t) \/ Release(t)
    \/ Shutdown
    \/ UNCHANGED poolVars

\* A connection goes from the head of the queue to a thread.
LEMMA TakeLemma ==
  ASSUME PoolTypeOK, Owned, NEW t \in Threads, Take(t)
  PROVE  /\ Owned' /\ connections' \in Seq(Pool) /\ held' \in [Threads -> Seq(Pool)]
         /\ Len(connections') = Len(connections) - 1
<1> DEFINE c == Head(connections)
<1>1. /\ connections' = Tail(connections) /\ deleted' = deleted
      /\ held' = [held EXCEPT ![t] = Append(@, c)]
      /\ connections # <<>> /\ connections \in Seq(Pool) /\ held \in [Threads -> Seq(Pool)]
  BY DEF Take, PoolTypeOK
<1>2. /\ connections' \in Seq(Pool) /\ Len(connections') = Len(connections) - 1
      /\ c \in Pool /\ c \in ToSet(connections)
      /\ IsInjective(connections') /\ ToSet(connections') = ToSet(connections) \ {c}
  BY <1>1, TailLemma DEF Owned
<1> HIDE DEF c
<1>3. c \notin deleted /\ \A u \in Threads : c \notin ToSet(held[u])
  BY <1>2 DEF Owned
<1>4. held[t] \in Seq(Pool) /\ IsInjective(held[t])
  BY <1>1 DEF Owned
<1>5. /\ Append(held[t], c) \in Seq(Pool)
      /\ IsInjective(Append(held[t], c)) /\ ToSet(Append(held[t], c)) = ToSet(held[t]) \cup {c}
  BY <1>2, <1>3, <1>4, AppendLemma
<1>6. /\ held' \in [Threads -> Seq(Pool)]
      /\ \A u \in Threads : u # t => held'[u] = held[u]
      /\ held'[t] = Append(held[t], c)
  BY <1>1, <1>5
<1>7. \A u \in Threads : IsInjective(held'[u])
  BY <1>5, <1>6 DEF Owned
<1>8. \A u \in Threads : ToSet(held'[u]) = IF u = t THEN ToSet(held[u]) \cup {c} ELSE ToSet(held[u])
  BY <1>5, <1>6
<1>9. \A u, v \in Threads : u # v => ToSet(held'[u]) \cap ToSet(held'[v]) = {}
  <2>1. SUFFICES ASSUME NEW u \in Threads, NEW v \in Threads, u # v,
                        NEW x \in ToSet(held'[u]), x \in ToSet(held'[v])
                 PROVE  FALSE
    OBVIOUS
  <2>2. x \in ToSet(held[u]) \/ (u = t /\ x = c)
    BY <1>8, <2>1
  <2>3. x \in ToSet(held[v]) \/ (v = t /\ x = c)
    BY <1>8, <2>1
  <2>4. ToSet(held[u]) \cap ToSet(held[v]) = {}
    BY <2>1 DEF Owned
  <2> QED BY <1>3, <2>1, <2>2, <2>3, <2>4
<1>10. \A u \in Threads : ToSet(held'[u]) \cap (ToSet(connections') \cup deleted) = {}
  <2>1. SUFFICES ASSUME NEW u \in Threads, NEW x \in ToSet(held'[u]),
                        x \in (ToSet(connections) \ {c}) \cup deleted
                 PROVE  FALSE
    BY <1>2
  <2>2. x \in ToSet(held[u]) \/ x = c
    BY <1>8
  <2>3. ToSet(held[u]) \cap (ToSet(connections) \cup deleted) = {}
    BY DEF Owned
  <2> QED BY <1>3, <2>1, <2>2, <2>3
<1>11. ToSet(connections') \cap deleted = {}
  BY <1>2 DEF Owned
<1>12. \A d \in Pool : d \in ToSet(connections') \cup deleted \/ \E u \in Threads : d \in ToSet(held'[u])
  BY <1>2, <1>8 DEF Owned
<1> QED BY <1>1, <1>2, <1>6, <1>7, <1>9, <1>10, <1>11, <1>12 DEF Owned

\* It goes back to the end of the queue.
LEMMA ReleaseLemma ==
  ASSUME PoolTypeOK, Owned, NEW t \in Threads, Release(t)
  PROVE  /\ Owned' /\ connections' \in Seq(Pool) /\ held' \in [Threads -> Seq(Pool)]
         /\ Len(connections') = Len(connections) + 1
<1> DEFINE c == held[t][Len(held[t])]
           front == SubSeq(held[t], 1, Len(held[t]) - 1)
<1>1. /\ connections' = Append(connections, c) /\ deleted' = deleted
      /\ held' = [held EXCEPT ![t] = front]
      /\ held[t] # <<>> /\ connections \in Seq(Pool) /\ held \in [Threads -> Seq(Pool)]
  BY DEF Release, PoolTypeOK
<1>2. held[t] \in Seq(Pool) /\ IsInjective(held[t])
  BY <1>1 DEF Owned
<1>3. /\ front \in Seq(Pool) /\ c \in Pool /\ c \in ToSet(held[t])
      /\ IsInjective(front) /\ ToSet(front) = ToSet(held[t]) \ {c}
  BY <1>1, <1>2, FrontLemma
<1> HIDE DEF c, front
<1>4. c \notin ToSet(connections) /\ c \notin deleted
      /\ \A u \in Threads : u # t => c \notin ToSet(held[u])
  BY <1>3 DEF Owned
<1>5. /\ connections' \in Seq(Pool) /\ Len(connections') = Len(connections) + 1
      /\ IsInjective(connections') /\ ToSet(connections') = ToSet(connections) \cup {c}
  BY <1>1, <1>3, <1>4, AppendLemma DEF Owned
<1>6. /\ held' \in [Threads -> Seq(Pool)]
      /\ \A u \in Threads : u # t => held'[u] = held[u]
      /\ held'[t] = front
  BY <1>1, <1>3
<1>7. \A u \in Threads : IsInjective(held'[u])
  BY <1>3, <1>6 DEF Owned
<1>8. \A u \in Threads : ToSet(held'[u]) = IF u = t THEN ToSet(held[u]) \ {c} ELSE ToSet(held[u])
  BY <1>3, <1>6
<1>9. \A u, v \in Threads : u # v => ToSet(held'[u]) \cap ToSet(held'[v]) = {}
  <2>1. \A u \in Threads : ToSet(held'[u]) \subseteq ToSet(held[u])
    BY <1>8
  <2>2. \A u, v \in Threads : u # v => ToSet(held[u]) \cap ToSet(held[v]) = {}
    BY DEF Owned
  <2>3. SUFFICES ASSUME NEW u \in Threads, NEW v \in Threads, u # v,
                        NEW x \in ToSet(held'[u]), x \in ToSet(held'[v])
                 PROVE  FALSE
    OBVIOUS
  <2> QED BY <2>1, <2>2, <2>3
<1>10. \A u \in Threads : ToSet(held'[u]) \cap (ToSet(connections') \cup deleted) = {}
  <2>1. SUFFICES ASSUME NEW u \in Threads, NEW x \in ToSet(held'[u]),
                        x \in ToSet(connections) \cup {c} \cup deleted
                 PROVE  FALSE
    BY <1>5
  <2>2. x \in ToSet(held[u]) /\ (u = t => x # c)
    BY <1>8
  <2>3. ToSet(held[u]) \cap (ToSet(connections) \cup deleted) = {}
    BY DEF Owned
  <2> QED BY <1>4, <2>1, <2>2, <2>3
<1>11. ToSet(connections') \cap deleted = {}
  BY <1>4, <1>5 DEF Owned
<1>12. \A d \in Pool : d \in ToSet(connections') \cup deleted \/ \E u \in Threads : d \in ToSet(held'[u])
  BY <1>5, <1>8 DEF Owned
<1> QED BY <1>1, <1>5, <1>6, <1>7, <1>9, <1>10, <1>11, <1>12 DEF Owned

\* The invariant of the pool: each operation notifies for what it frees.
LEMMA PoolInductive == PoolInv /\ PoolStep => PoolInv'
<1> SUFFICES ASSUME PoolInv, PoolStep PROVE PoolInv'
  OBVIOUS
<1> USE DEF PoolInv
<1>1. /\ Len(connections) \in Nat /\ IsFiniteSet(woken) /\ Cardinality(woken) \in Nat
      /\ connections = <<>> => Len(connections) = 0
      /\ waiting # {} => Len(connections) <= Cardinality(woken)
      /\ waiting \subseteq Threads /\ woken \subseteq Threads \ waiting
  BY FS_CardinalityType DEF PoolTypeOK, Noticed, FreeIsNoticed
<1>2. \A t : /\ t \in woken => /\ IsFiniteSet(woken \ {t})
                               /\ Cardinality(woken \ {t}) = Cardinality(woken) - 1
             /\ t \notin woken => /\ IsFiniteSet(woken \cup {t})
                                  /\ Cardinality(woken \cup {t}) = Cardinality(woken) + 1
  BY <1>1, FS_AddElement, FS_RemoveElement
<1>3. ASSUME NEW t \in Threads, Acquire(t) PROVE PoolInv'
  <2>1. CASE Take(t) /\ UNCHANGED <<waiting, woken>>
    <3>1. /\ Owned' /\ connections' \in Seq(Pool) /\ held' \in [Threads -> Seq(Pool)]
          /\ Len(connections') = Len(connections) - 1
      BY <2>1, TakeLemma
    <3>2. Noticed'
      BY <1>1, <2>1, <3>1 DEF Noticed, FreeIsNoticed
    <3> QED BY <2>1, <3>1, <3>2 DEF PoolTypeOK, Take
  <2>2. CASE /\ connections = <<>>
             /\ waiting' = waiting \cup {t}
             /\ UNCHANGED <<connections, held, woken, deleted, closed>>
    <3>1. Noticed'
      BY <1>1, <2>2 DEF Noticed, FreeIsNoticed
    <3>2. PoolTypeOK'
      BY <1>3, <2>2 DEF PoolTypeOK, Acquire, Running
    <3>3. Owned'
      BY <2>2 DEF Owned
    <3> QED BY <3>1, <3>2, <3>3
  <2> QED BY <1>3, <2>1, <2>2 DEF Acquire
<1>4. ASSUME NEW t \in Threads, Recheck(t) PROVE PoolInv'
  <2>0. /\ t \in woken /\ woken' = woken \ {t} /\ IsFiniteSet(woken')
        /\ Cardinality(woken') = Cardinality(woken) - 1 /\ Cardinality(woken') \in Nat
    <3>1. t \in woken /\ woken' = woken \ {t}
      BY <1>4 DEF Recheck
    <3>2. IsFiniteSet(woken') /\ Cardinality(woken') = Cardinality(woken) - 1
      BY <1>2, <3>1
    <3> QED BY <3>1, <3>2, FS_CardinalityType
  <2>1. CASE Take(t) /\ UNCHANGED waiting
    <3>1. /\ Owned' /\ connections' \in Seq(Pool) /\ held' \in [Threads -> Seq(Pool)]
          /\ Len(connections') = Len(connections) - 1
      BY <2>1, TakeLemma
    <3>2. Noticed'
      BY <1>1, <2>0, <2>1, <3>1 DEF Noticed, FreeIsNoticed
    <3> QED BY <2>0, <2>1, <3>1, <3>2 DEF PoolTypeOK, Take
  <2>2. CASE /\ connections = <<>>
             /\ waiting' = waiting \cup {t}
             /\ UNCHANGED <<connections, held, deleted, closed>>
    <3>1. Noticed'
      BY <1>1, <2>0, <2>2 DEF Noticed, FreeIsNoticed
    <3>2. PoolTypeOK'
      BY <2>0, <2>2 DEF PoolTypeOK
    <3>3. Owned'
      BY <2>2 DEF Owned
    <3> QED BY <3>1, <3>2, <3>3
  <2> QED BY <1>4, <2>1, <2>2 DEF Recheck
<1>5. ASSUME NEW t \in Threads, SpuriousWakeup(t) PROVE PoolInv'
  <2>1. /\ t \in waiting /\ t \notin woken /\ waiting' = waiting \ {t} /\ woken' = woken \cup {t}
        /\ UNCHANGED <<connections, held, deleted, closed>>
    BY <1>1, <1>5 DEF SpuriousWakeup
  <2>2. Noticed'
    <3>1. IsFiniteSet(woken') /\ Cardinality(woken') = Cardinality(woken) + 1
      BY <1>2, <2>1
    <3> QED BY <1>1, <2>1, <3>1 DEF Noticed, FreeIsNoticed
  <2>3. PoolTypeOK'
    BY <2>1 DEF PoolTypeOK
  <2>4. Owned'
    BY <2>1 DEF Owned
  <2> QED BY <2>2, <2>3, <2>4
<1>6. ASSUME NEW t \in Threads, Release(t) PROVE PoolInv'
  <2>1. /\ Owned' /\ connections' \in Seq(Pool) /\ held' \in [Threads -> Seq(Pool)]
        /\ Len(connections') = Len(connections) + 1
    BY <1>6, ReleaseLemma
  <2>2. \/ waiting = {} /\ waiting' = {} /\ woken' = woken
        \/ \E u \in waiting : waiting' = waiting \ {u} /\ woken' = woken \cup {u}
    BY <1>6 DEF Release, NotifyOne
  <2>3. Noticed'
    <3>1. CASE waiting = {} /\ waiting' = {} /\ woken' = woken
      BY <1>1, <3>1 DEF Noticed, FreeIsNoticed
    <3>2. ASSUME NEW u \in waiting, waiting' = waiting \ {u}, woken' = woken \cup {u}
          PROVE  Noticed'
      <4>1. u \notin woken
        BY <1>1
      <4>2. IsFiniteSet(woken') /\ Cardinality(woken') = Cardinality(woken) + 1
        BY <1>2, <3>2, <4>1
      <4> QED BY <1>1, <2>1, <3>2, <4>2 DEF Noticed, FreeIsNoticed
    <3> QED BY <2>2, <3>1, <3>2
  <2>4. PoolTypeOK'
    BY <1>1, <1>6, <2>1, <2>2 DEF PoolTypeOK, Release
  <2> QED BY <2>1, <2>3, <2>4
<1>7. CASE Shutdown
  <2>1. /\ connections' = <<>> /\ held' = held /\ waiting' = waiting /\ woken' = woken
        /\ closed' = TRUE /\ deleted' = deleted \cup ToSet(connections)
    BY <1>7 DEF Shutdown, ToSet, PoolTypeOK
  <2>2. ToSet(connections) \subseteq Pool
    BY DEF ToSet, PoolTypeOK
  <2>3. connections' \in Seq(Pool) /\ Len(connections') = 0
        /\ IsInjective(connections') /\ ToSet(connections') = {}
    BY <2>1 DEF IsInjective, ToSet
  <2>4. Noticed'
    BY <1>1, <2>1, <2>3 DEF Noticed, FreeIsNoticed
  <2>5. PoolTypeOK'
    BY <2>1, <2>2, <2>3 DEF PoolTypeOK
  <2>6. Owned'
    BY <2>1, <2>3 DEF Owned
  <2> QED BY <2>4, <2>5, <2>6
<1>8. CASE UNCHANGED poolVars
  BY <1>8 DEF poolVars, PoolTypeOK, Owned, Noticed, FreeIsNoticed
<1> QED BY <1>3, <1>4, <1>5, <1>6, <1>7, <1>8 DEF PoolStep

LEMMA PoolInitially == PoolInit => PoolInv
<1> SUFFICES ASSUME PoolInit PROVE PoolInv
  OBVIOUS
<1> USE PoolAssumption
<1>1. /\ connections = [i \in Pool |-> i] /\ held = [t \in Threads |-> <<>>]
      /\ waiting = {} /\ woken = {} /\ deleted = {} /\ closed = FALSE
  BY DEF PoolInit
<1>2. connections \in Seq(Pool) /\ Len(connections) = PoolSize
      /\ DOMAIN connections = Pool /\ \A i \in Pool : connections[i] = i
  BY <1>1 DEF Pool
<1>3. IsInjective(connections) /\ ToSet(connections) = Pool
  BY <1>2 DEF IsInjective, ToSet
<1>4. \A t \in Threads : IsInjective(held[t]) /\ ToSet(held[t]) = {}
  <2>1. IsInjective(<<>>) /\ ToSet(<<>>) = {}
    BY DEF IsInjective, ToSet
  <2>2. \A t \in Threads : held[t] = <<>>
    BY <1>1
  <2>3. ASSUME NEW t \in Threads PROVE IsInjective(held[t]) /\ ToSet(held[t]) = {}
    <3>1. held[t] = <<>>
      BY <2>2
    <3> QED BY <2>1, <3>1
  <2> QED BY <2>3
<1>5. PoolTypeOK
  <2>1. <<>> \in Seq(Pool)
    OBVIOUS
  <2>2. held \in [Threads -> Seq(Pool)]
    BY <1>1, <2>1, Zenon
  <2> QED BY <1>1, <1>2, <2>2 DEF PoolTypeOK
<1>6. Owned
  BY <1>1, <1>3, <1>4 DEF Owned
<1>7. Noticed
  BY <1>1, FS_EmptySet DEF Noticed, FreeIsNoticed
<1> QED BY <1>5, <1>6, <1>7 DEF PoolInv

\* Owned is OneOwner, place by place.
LEMMA OwnerLemma == PoolInv => OneOwner
<1> SUFFICES ASSUME PoolInv, NEW c \in Pool PROVE Cardinality(Places(c)) = 1
  BY DEF OneOwner
<1> USE DEF PoolInv
<1> DEFINE Q == {j \in 1 .. Len(connections) : connections[j] = c}
           H(t) == {j \in 1 .. Len(held[t]) : held[t][j] = c}
           gone == <<"deleted">>
           inQueue(i) == <<"queue", i>>
           inGuard(t, i) == <<t, i>>
<1> DEFINE A == {inQueue(i) : i \in Q}
           B == UNION {{inGuard(t, i) : i \in H(t)} : t \in Threads}
           C == {gone : d \in deleted \cap {c}}
<1>1. Places(c) = A \cup C \cup B
  BY DEF Places
\* The provers do not compare tuples of different lengths.
<1> HIDE DEF gone, inQueue, inGuard
<1>2. DOMAIN connections = 1 .. Len(connections)
      /\ \A t \in Threads : DOMAIN held[t] = 1 .. Len(held[t])
  BY DEF PoolTypeOK
<1>3. /\ Q # {} <=> c \in ToSet(connections)
      /\ \A t \in Threads : H(t) # {} <=> c \in ToSet(held[t])
      /\ \A i, j \in Q : i = j
      /\ \A t \in Threads : \A i, j \in H(t) : i = j
  BY <1>2 DEF Owned, ToSet, IsInjective
<1> HIDE DEF Q, H
<1>4. CASE c \in ToSet(connections)
  <2>1. Q # {} /\ c \notin deleted /\ \A t \in Threads : H(t) = {}
    BY <1>3, <1>4 DEF Owned
  <2>2. PICK i : Q = {i}
    BY <1>3, <2>1
  <2>3. A = {inQueue(i)} /\ B = {} /\ C = {}
    BY <2>1, <2>2
  <2> HIDE DEF A, B, C
  <2>4. Places(c) = {inQueue(i)}
    BY <1>1, <2>3
  <2> QED BY <2>4, FS_Singleton
<1>5. CASE c \in deleted
  <2>1. Q = {} /\ \A t \in Threads : H(t) = {}
    BY <1>3, <1>5 DEF Owned
  <2>2. A = {} /\ B = {} /\ C = {gone}
    BY <1>5, <2>1
  <2> HIDE DEF A, B, C
  <2>3. Places(c) = {gone}
    BY <1>1, <2>2
  <2> QED BY <2>3, FS_Singleton
<1>6. ASSUME NEW t \in Threads, c \in ToSet(held[t]) PROVE Cardinality(Places(c)) = 1
  <2>1. Q = {} /\ c \notin deleted /\ H(t) # {} /\ \A u \in Threads \ {t} : H(u) = {}
    BY <1>3, <1>6 DEF Owned
  <2>2. PICK i : H(t) = {i}
    BY <1>3, <2>1
  <2>3. A = {} /\ B = {inGuard(t, i)} /\ C = {}
    BY <2>1, <2>2
  <2> HIDE DEF A, B, C
  <2>4. Places(c) = {inGuard(t, i)}
    BY <1>1, <2>3
  <2> QED BY <2>4, FS_Singleton
<1> QED BY <1>4, <1>5, <1>6 DEF Owned

\* Every step of the program is a step of the pool.
LEMMA PoolSteps == [Next]_vars => PoolStep
<1> SUFFICES ASSUME [Next]_vars PROVE PoolStep
  OBVIOUS
<1>0. {Main, Starter, SlotThread} \subseteq Threads /\ Users \subseteq Threads
  BY ConfigAssumption DEF Users
<1> USE DEF Step, Ask, Return, Goto, Begin, QueryStrongSlot, StoreTestSlot
<1>1. SlotLoopStep => PoolStep
  BY <1>0 DEF SlotLoopStep, SlotPoll, SlotQuery, SlotStore, ReadBits, StoreStatus, SlotReturn, SlotEnd,
              PoolStep
<1>2. StarterStep => PoolStep
  BY <1>0 DEF StarterStep, InitParams, InitRoom, InitCars, InitCarRead, InitCarLoad, InitCarSet,
              InitCarReturn, InitConfig, ConnectToPLC, InitSerial, StartLoop, PoolStep, poolVars
<1>3. MainStep => PoolStep
  BY <1>0 DEF MainStep, ResetSlotConfigurations, LockQuery, LockUpdate, LockTest, LockLoad, LockSet,
              Disconnect, CloseEnds, PoolStep
<1>4. LockCar \/ CloseLoops => PoolStep
  BY <1>0 DEF LockCar, CloseLoops, PoolStep
<1>5. Outside => PoolStep
  BY DEF Outside, StrongSlotChanges, PlcChanges, LinkFails, LookAtPort, UnloadIntoPort, PoolStep, poolVars
<1>6. ASSUME NEW t \in Users, Use(t) PROVE PoolStep
  BY <1>0, <1>6 DEF Use, PoolStep
<1>7. ASSUME NEW t \in Threads, Rechecks(t) \/ SpuriousWakeup(t) PROVE PoolStep
  BY <1>7 DEF Rechecks, PoolStep
<1>8. CASE UNCHANGED vars
  BY <1>8 DEF vars, poolVars, PoolStep
<1> QED BY <1>1, <1>2, <1>3, <1>4, <1>5, <1>6, <1>7, <1>8 DEF Next

LEMMA PoolInvariant == Spec => []PoolInv
<1>1. Init => PoolInv
  BY PoolInitially DEF Init
<1>2. PoolInv /\ [Next]_vars => PoolInv'
  BY PoolInductive, PoolSteps
<1> QED BY <1>1, <1>2, PTL DEF Spec

\* sqlconnectionpool.cpp:20-47: two threads never use a connection at the same
\* time, none is lost, and none that shutdown() deleted is used, for every number
\* of connections and threads and whatever the threads use them for.
THEOREM ConnectionsHaveOneOwner == Spec => []OneOwner
BY PoolInvariant, OwnerLemma, PTL

\* sqlconnectionpool.cpp:20-47: while threads wait, no connection is free that
\* nobody is on its way to take; notify_one() for each release is enough, also
\* when threads barge in, wake up for nothing, or the pool is shut down.
THEOREM NoWakeupIsLost == Spec => []FreeIsNoticed
<1>1. PoolInv => FreeIsNoticed
  BY DEF PoolInv, Noticed
<1> QED BY <1>1, PoolInvariant, PTL

----------------------------------------------------------------------------
(***************************************************************************)
(* The locks of cars and the lock of a port.                               *)
(***************************************************************************)
LEMMA ThreadsLemma ==
  /\ Main \in Threads /\ Starter \in Threads /\ SlotThread \in Threads
  /\ Main # Starter /\ Main # SlotThread /\ Starter # SlotThread
  /\ Users \subseteq Threads /\ Starter \notin Users /\ SlotThread \notin Users /\ Main \in Users
<1>1. \A a, b : Cardinality({a, b}) \in 0 .. 2
  <2>1. SUFFICES ASSUME NEW a, NEW b PROVE Cardinality({a, b}) \in 0 .. 2
    OBVIOUS
  <2>2. IsFiniteSet({a}) /\ Cardinality({a}) = 1
    BY FS_Singleton
  <2>3. Cardinality({a} \cup {b}) = IF b \in {a} THEN 1 ELSE 1 + 1
    BY <2>2, FS_AddElement
  <2>4. {a} \cup {b} = {a, b}
    OBVIOUS
  <2> QED BY <2>3, <2>4
<1>2. Main # Starter /\ Main # SlotThread /\ Starter # SlotThread
  <2>1. Main = Starter => {Main, Starter, SlotThread} = {Main, SlotThread}
    OBVIOUS
  <2>2. Main = SlotThread => {Main, Starter, SlotThread} = {Main, Starter}
    OBVIOUS
  <2>3. Starter = SlotThread => {Main, Starter, SlotThread} = {Main, Starter}
    OBVIOUS
  <2>4. \A a, b : Cardinality({a, b}) # 3
    BY <1>1
  <2> QED BY <2>1, <2>2, <2>3, <2>4, ConfigAssumption
<1> QED BY <1>2, ConfigAssumption DEF Users

InitSteps == {"carRead", "carLoad", "carSet"}
CarSteps == InitSteps \cup {"carReturn", "nextCar"}
ButtonSteps == {"lockUpdate", "lockTest", "lockLoad", "lockSet"}

\* What initCarItems and a button rely on from one of their steps to the next: the
\* answer and the row are those of the car, a loaded word differs from carLocks in
\* nothing but excused cars.
LockTypes ==
    /\ at = [t \in Threads |-> at[t]]
    /\ answer \in [{Main, Starter} -> Answers \cup {NoAnswer}]
    /\ errorCars \in [Cars -> Answers \cup {NoAnswer}]
    /\ word \in [{Main, Starter} -> SUBSET Cars] /\ carLocks \subseteq Cars /\ excused \subseteq Cars
    /\ initCar \in Cars /\ lockedCar \in Cars /\ todo \subseteq Cars
    /\ ~room => todo = Cars /\ at[Starter] \notin CarSteps
InitInv ==
    /\ at[Starter] \in {"carLoad", "carSet"} /\ initCar \notin excused =>
        answer[Starter] = errorCars[initCar]
    /\ at[Starter] = "carSet" =>
        \A c \in Cars \ (excused \cup {initCar}) : c \in word[Starter] <=> c \in carLocks
ButtonInv ==
    /\ at[Main] \in {"lockTest", "lockLoad", "lockSet"} /\ lockedCar \notin excused =>
        errorCars[lockedCar] = Wanted
    /\ at[Main] = "lockSet" =>
        \A c \in Cars \ (excused \cup {lockedCar}) : c \in word[Main] <=> c \in carLocks
    /\ at[Main] = "lockSet" /\ at[Starter] = "carSet" => {initCar, lockedCar} \subseteq excused
LockInv == LockTypes /\ InitInv /\ ButtonInv /\ LocksMatchTable

\* A step of anything else: it neither touches the locks nor takes one of the two
\* threads into or out of these operations.
Elsewhere ==
    /\ UNCHANGED lockVars
    /\ at' = [t \in Threads |-> at'[t]]
    /\ at'[Main] # at[Main] => {at[Main], at'[Main]} \cap ButtonSteps = {}
    /\ at'[Starter] # at[Starter] => {at[Starter], at'[Starter]} \cap InitSteps = {}
    /\ at'[Starter] \in CarSteps => at[Starter] \in CarSteps

LEMMA ElsewhereLemma ==
  ASSUME at = [t \in Threads |-> at[t]],
         \/ SlotLoopStep \/ InitParams \/ InitCarReturn \/ InitConfig \/ ConnectToPLC \/ InitSerial
         \/ StartLoop \/ ResetSlotConfigurations \/ Disconnect \/ CloseEnds \/ CloseLoops \/ Outside
         \/ \E t \in Users : Use(t)
         \/ \E t \in Threads : Rechecks(t) \/ (SpuriousWakeup(t) /\ UNCHANGED configVars)
         \/ UNCHANGED vars
  PROVE  Elsewhere
<1> USE ThreadsLemma DEF Step, Ask, Return, Goto, Elsewhere, InitSteps, CarSteps, ButtonSteps
<1>1. CASE SlotLoopStep
  BY <1>1 DEF SlotLoopStep, SlotPoll, SlotQuery, SlotStore, ReadBits, StoreStatus, SlotReturn, SlotEnd,
              QueryStrongSlot, StoreTestSlot
<1>2. CASE InitParams \/ InitCarReturn \/ ConnectToPLC \/ InitSerial \/ StartLoop
  BY <1>2 DEF InitParams, InitCarReturn, ConnectToPLC, InitSerial, StartLoop
<1>3. CASE InitConfig
  BY <1>3 DEF InitConfig, QueryStrongSlot, StoreTestSlot
<1>4. CASE ResetSlotConfigurations
  BY <1>4 DEF ResetSlotConfigurations, QueryStrongSlot, StoreTestSlot, Begin
<1>5. CASE Disconnect \/ CloseEnds \/ CloseLoops
  BY <1>5 DEF Disconnect, CloseEnds, CloseLoops
<1>6. CASE Outside
  BY <1>6 DEF Outside, StrongSlotChanges, PlcChanges, LinkFails, LookAtPort, UnloadIntoPort
<1>7. ASSUME NEW t \in Users, Use(t) PROVE Elsewhere
  BY <1>7 DEF Use, Begin
<1>8. CASE UNCHANGED configVars
  BY <1>8 DEF configVars
<1> QED BY <1>1, <1>2, <1>3, <1>4, <1>5, <1>6, <1>7, <1>8 DEF Rechecks, vars

LEMMA LocksInductive == LockInv /\ [Next]_vars => LockInv'
<1> SUFFICES ASSUME LockInv, [Next]_vars PROVE LockInv'
  OBVIOUS
<1> USE DEF LockInv
<1>1. CASE Elsewhere
  BY <1>1 DEF Elsewhere, LockTypes, InitInv, ButtonInv, LocksMatchTable, InitAt, ButtonAt, Wanted,
              lockVars, InitSteps, CarSteps, ButtonSteps
<1> USE ThreadsLemma DEF LockTypes, InitInv, ButtonInv, LocksMatchTable, InitAt, ButtonAt, Wanted,
                         Step, Ask, Goto, InitSteps, CarSteps
<1>2. CASE InitRoom
  BY <1>2 DEF InitRoom
<1>3. CASE InitCars
  <2>1. ASSUME NEW c \in todo, initCar' = c, todo' = todo \ {c}, Ask(Starter, "nextCar", "carRead"),
               UNCHANGED <<errorCars, answer, lock, lockedCar, room, carLocks, word, excused>>
        PROVE  LockInv'
    BY <2>1
  <2>2. CASE Step(Starter, "nextCar", "config") /\ UNCHANGED lockVars
    BY <2>2 DEF lockVars
  <2> QED BY <1>3, <2>1, <2>2 DEF InitCars
<1>4. CASE InitCarRead
  BY <1>4 DEF InitCarRead
<1>5. CASE InitCarLoad
  BY <1>5 DEF InitCarLoad, LoadWord
<1>6. CASE InitCarSet
  BY <1>6 DEF InitCarSet, StoreWord
<1>7. CASE LockCar
  BY <1>7 DEF LockCar, Begin
<1>8. CASE LockQuery
  BY <1>8 DEF LockQuery
<1>9. CASE LockUpdate
  BY <1>9 DEF LockUpdate, InitHasRead, Answers
<1>10. CASE LockTest
  BY <1>10 DEF LockTest, lockVars
<1>11. CASE LockLoad
  BY <1>11 DEF LockLoad, LoadWord
<1>12. CASE LockSet
  BY <1>12 DEF LockSet, StoreWord
<1> QED BY <1>1, <1>2, <1>3, <1>4, <1>5, <1>6, <1>7, <1>8, <1>9, <1>10, <1>11, <1>12, ElsewhereLemma
        DEF Next, StarterStep, MainStep

\* dataprocessmain.cpp:374-382, devicemanager.cpp:999-1025, 1068-1102: whatever the
\* order of the buttons and of initCarItems, which both read the table first and set
\* the car afterwards, and though both write whole words of carLocks, the locks in
\* memory are those of the table, but for the cars that a failed statement or one of
\* the two races named at LocksMatchTable has met since their last button.
THEOREM CarLocksMatchTheTable == Spec => []LocksMatchTable
<1>1. Init => LockInv
  BY ThreadsLemma DEF Init, LockInv, LockTypes, InitInv, ButtonInv, LocksMatchTable, InitSteps, CarSteps
<1>2. LockInv => LocksMatchTable
  BY DEF LockInv
<1> QED BY <1>1, <1>2, LocksInductive, PTL DEF Spec

----------------------------------------------------------------------------
\* A poll that has begun to store what it read cannot take back a lock that an
\* earlier poll saw and that still lasts.
PortInv ==
    /\ at = [t \in Threads |-> at[t]]
    /\ known => plcLock /\ status
    /\ at[SlotThread] = "status" /\ known => bit
    /\ ~knownThen

portVars == <<plcLock, bit, status, known, knownThen>>

\* A step of anything else.
NoPoll ==
    /\ UNCHANGED portVars
    /\ at' = [t \in Threads |-> at'[t]]
    /\ at'[SlotThread] = "status" => at[SlotThread] = "status"

LEMMA NoPollLemma ==
  ASSUME at = [t \in Threads |-> at[t]],
         \/ SlotPoll \/ SlotQuery \/ SlotStore \/ SlotReturn \/ SlotEnd \/ StarterStep \/ MainStep
         \/ LockCar \/ CloseLoops \/ StrongSlotChanges \/ LinkFails
         \/ \E t \in Users : Use(t)
         \/ \E t \in Threads : Rechecks(t) \/ (SpuriousWakeup(t) /\ UNCHANGED configVars)
         \/ UNCHANGED vars
  PROVE  NoPoll
<1> USE ThreadsLemma DEF Step, Ask, Return, Goto, NoPoll, portVars, plcVars
<1>1. CASE SlotPoll \/ SlotQuery \/ SlotStore \/ SlotReturn \/ SlotEnd
  BY <1>1 DEF SlotPoll, SlotQuery, SlotStore, SlotReturn, SlotEnd, QueryStrongSlot, StoreTestSlot
<1>2. CASE StarterStep
  <2>1. CASE InitParams \/ InitRoom \/ InitCars \/ InitCarReturn
    BY <2>1 DEF InitParams, InitRoom, InitCars, InitCarReturn
  <2>4. CASE InitCarRead \/ InitCarLoad \/ InitCarSet
    BY <2>4 DEF InitCarRead, InitCarLoad, InitCarSet
  <2>2. CASE InitConfig
    BY <2>2 DEF InitConfig, QueryStrongSlot, StoreTestSlot
  <2>3. CASE ConnectToPLC \/ InitSerial \/ StartLoop
    BY <2>3 DEF ConnectToPLC, InitSerial, StartLoop
  <2> QED BY <1>2, <2>1, <2>2, <2>3, <2>4 DEF StarterStep
<1>3. CASE MainStep
  <2>1. CASE ResetSlotConfigurations
    BY <2>1 DEF ResetSlotConfigurations, QueryStrongSlot, StoreTestSlot, Begin
  <2>2. CASE LockQuery \/ LockUpdate \/ LockTest \/ LockLoad \/ LockSet
    BY <2>2 DEF LockQuery, LockUpdate, LockTest, LockLoad, LockSet
  <2>3. CASE Disconnect \/ CloseEnds
    BY <2>3 DEF Disconnect, CloseEnds
  <2> QED BY <1>3, <2>1, <2>2, <2>3 DEF MainStep
<1>4. CASE LockCar \/ CloseLoops
  BY <1>4 DEF LockCar, CloseLoops, Begin
<1>5. CASE StrongSlotChanges \/ LinkFails
  BY <1>5 DEF StrongSlotChanges, LinkFails
<1>6. ASSUME NEW t \in Users, Use(t) PROVE NoPoll
  BY <1>6 DEF Use, Begin
<1>7. CASE UNCHANGED configVars
  BY <1>7 DEF configVars
<1> QED BY <1>1, <1>2, <1>3, <1>4, <1>5, <1>6, <1>7 DEF Rechecks, vars

LEMMA PortInductive == PortInv /\ [Next]_vars => PortInv'
<1> SUFFICES ASSUME PortInv, [Next]_vars PROVE PortInv'
  OBVIOUS
<1> USE ThreadsLemma DEF PortInv
<1>1. CASE NoPoll
  BY <1>1 DEF NoPoll, portVars
<1>2. CASE ReadBits
  <2>1. CASE UNCHANGED plcVars /\ Step(SlotThread, "bits", "return")
    BY <2>1 DEF Step, Goto, plcVars
  <2>2. CASE bit' = plcLock /\ Step(SlotThread, "bits", "status") /\ UNCHANGED <<plcLock, status, known, knownThen>>
    <3>1. at' = [t \in Threads |-> at'[t]]
      BY <2>2 DEF Step, Goto
    <3>2. (known' => plcLock' /\ status') /\ (known' => bit') /\ ~knownThen'
      BY <2>2, Zenon
    <3> QED BY <3>1, <3>2
  <2> QED BY <1>2, <2>1, <2>2 DEF ReadBits
<1>3. CASE StoreStatus
  <2>1. at' = [t \in Threads |-> at'[t]] /\ at'[SlotThread] = "return" /\ at[SlotThread] = "status"
    BY <1>3 DEF StoreStatus, Step, Goto
  <2>2. status' = bit /\ known' = ((known \/ bit) /\ plcLock) /\ plcLock' = plcLock /\ knownThen' = knownThen
    BY <1>3 DEF StoreStatus
  <2>3. known' => (known \/ bit) /\ plcLock
    BY <2>2, Zenon
  <2>4. bit => status'
    BY <2>2, Zenon
  <2>5. plcLock => plcLock'
    BY <2>2, Zenon
  <2> QED BY <2>1, <2>2, <2>3, <2>4, <2>5
<1>4. CASE LookAtPort
  BY <1>4 DEF LookAtPort
<1>5. CASE UnloadIntoPort
  BY <1>5 DEF UnloadIntoPort
<1>6. CASE PlcChanges
  <2>1. known' => known /\ plcLock'
    BY <1>6, Zenon DEF PlcChanges
  <2>2. at' = at /\ bit' = bit /\ status' = status /\ knownThen' = knownThen
    BY <1>6 DEF PlcChanges
  <2> QED BY <2>1, <2>2
<1> QED BY <1>1, <1>2, <1>3, <1>4, <1>5, <1>6, NoPollLemma DEF Next, SlotLoopStep, Outside

\* devicemanager.cpp:797-811, 930-943: no step unloads into a port that was known to
\* be locked when carLoop looked; failed reads, lost connections and rows that are
\* no number do not take the lock back.
THEOREM LockedPortIsSpared == Spec => LockedPortIsLeftAlone
<1>1. Init => PortInv
  BY ThreadsLemma DEF Init, PortInv
<1>2. PortInv => (UnloadIntoPort => ~knownThen)
  BY DEF PortInv
<1> QED BY <1>1, <1>2, PortInductive, PTL DEF Spec, LockedPortIsLeftAlone

----------------------------------------------------------------------------
(***************************************************************************)
(* The types of the whole configuration.                                   *)
(***************************************************************************)
LEMMA BeginLemma ==
  ASSUME uses \in [Users -> 0 .. MaxUses], NEW t \in Users, NEW step, Begin(t, step)
  PROVE  uses' \in [Users -> 0 .. MaxUses]
<1>1. uses[t] + 1 \in 0 .. MaxUses /\ uses' = [uses EXCEPT ![t] = uses[t] + 1]
  BY ConfigAssumption DEF Begin
<1> QED BY <1>1

LEMMA TypeInductive == ConfigTypeOK /\ PoolTypeOK' /\ [Next]_vars => ConfigTypeOK'
<1> SUFFICES ASSUME ConfigTypeOK, PoolTypeOK', [Next]_vars PROVE ConfigTypeOK'
  OBVIOUS
<1> USE ThreadsLemma DEF ConfigTypeOK, Step, Ask, Return, Goto, slotVars, plcVars, lockVars
<1>1. CASE SlotLoopStep
  <2>1. CASE SlotPoll \/ SlotQuery \/ SlotStore
    BY <2>1 DEF SlotPoll, SlotQuery, SlotStore, QueryStrongSlot, StoreTestSlot
  <2>2. CASE ReadBits \/ StoreStatus \/ SlotReturn \/ SlotEnd
    BY <2>2 DEF ReadBits, StoreStatus, SlotReturn, SlotEnd
  <2> QED BY <1>1, <2>1, <2>2 DEF SlotLoopStep
<1>2. CASE StarterStep
  <2>1. CASE InitParams \/ InitRoom \/ InitCars \/ InitCarReturn
    BY <2>1 DEF InitParams, InitRoom, InitCars, InitCarReturn
  <2>2. CASE InitCarRead \/ InitCarLoad \/ InitCarSet
    BY <2>2 DEF InitCarRead, InitCarLoad, InitCarSet, LoadWord, StoreWord
  <2>3. CASE InitConfig
    BY <2>3 DEF InitConfig, QueryStrongSlot, StoreTestSlot
  <2>4. CASE ConnectToPLC \/ InitSerial \/ StartLoop
    BY <2>4 DEF ConnectToPLC, InitSerial, StartLoop
  <2> QED BY <1>2, <2>1, <2>2, <2>3, <2>4 DEF StarterStep
<1>3. CASE MainStep
  <2>1. CASE ResetSlotConfigurations
    <3>1. CASE Begin(Main, "resetQuery") /\ UNCHANGED <<slotVars, plcVars, lockVars, polling>>
      BY <3>1, BeginLemma
    <3>2. CASE QueryStrongSlot(Main, "resetQuery", "resetStore")
      BY <3>2 DEF QueryStrongSlot
    <3>3. CASE StoreTestSlot(Main, "resetStore", "return", "return")
      BY <3>3 DEF StoreTestSlot
    <3> QED BY <2>1, <3>1, <3>2, <3>3 DEF ResetSlotConfigurations
  <2>2. CASE LockQuery \/ LockUpdate
    BY <2>2 DEF LockQuery, LockUpdate, Wanted, Answers
  <2>4. CASE LockTest \/ LockLoad \/ LockSet
    BY <2>4 DEF LockTest, LockLoad, LockSet, LoadWord, StoreWord
  <2>3. CASE Disconnect \/ CloseEnds
    BY <2>3 DEF Disconnect, CloseEnds
  <2> QED BY <1>3, <2>1, <2>2, <2>3, <2>4 DEF MainStep
<1>4. CASE LockCar \/ CloseLoops
  BY <1>4, BeginLemma DEF LockCar, CloseLoops
<1>5. CASE Outside
  BY <1>5 DEF Outside, StrongSlotChanges, PlcChanges, LinkFails, LookAtPort, UnloadIntoPort
<1>6. ASSUME NEW t \in Users, Use(t) PROVE ConfigTypeOK'
  BY <1>6, BeginLemma DEF Use
<1>7. CASE UNCHANGED configVars
  BY <1>7 DEF configVars
<1> HIDE DEF ConfigTypeOK, Step, Ask, Return, Goto, slotVars, plcVars, lockVars
<1> QED BY <1>1, <1>2, <1>3, <1>4, <1>5, <1>6, <1>7 DEF Next, Rechecks, vars

\* The initial read of an uninitialized status, failed queries and rows that are no
\* number never bring a value into the threads' variables that their code cannot hold.
THEOREM TypesAreKept == Spec => []ConfigTypeOK
<1>1. Init => ConfigTypeOK
  <2> SUFFICES ASSUME Init PROVE ConfigTypeOK
    OBVIOUS
  <2>1. PoolTypeOK
    BY PoolInitially DEF Init, PoolInv
  <2>2. /\ uses \in [Users -> 0 .. MaxUses]
        /\ seen \in [{Main, Starter, SlotThread} -> Slots \cup {Junk, NoAnswer}]
        /\ answer \in [{Main, Starter} -> Answers \cup {NoAnswer}]
    BY ConfigAssumption DEF Init
  <2> QED BY <2>1, <2>2 DEF Init, ConfigTypeOK
<1>2. PoolInv => PoolTypeOK
  BY DEF PoolInv
<1> QED BY <1>1, <1>2, TypeInductive, PoolInvariant, PTL DEF Spec
====
