-------------------------- MODULE EventEmitterProofs --------------------------
(* That an emitter calls each handler as often as it must, whatever handlers *)
(* do while they are called: for any handlers, any arrays and any nesting of *)
(* emissions.                                                                *)
EXTENDS EventEmitter, FiniteSetTheorems, SequenceTheorems, TLAPS

(* The array that the second loop of an emission walks along, when #always   *)
(* is a, and what has become of it: unless a handler was taken off, those    *)
(* behind the place it has come to are yet to be called, the others were     *)
(* called once.                                                              *)
Walked(a, e) == IF e.detached THEN e.array ELSE a
Passed(w, n, h) == \E k \in 1..(n - 1) : w[k] = h
Exact(w, e) ==
  /\ e.next \in 1..(Len(w) + 1)
  /\ \A h \in Handlers : /\ Passed(w, e.next, h) => e.called[h] = 1
                         /\ ~Passed(w, e.next, h) => e.called[h] = 0
  /\ e.began \subseteq ToSet(w)
Walk(a, e) == /\ IsInjective(Walked(a, e)) /\ IsInjective(e.first) /\ e.next > 0
              /\ e.gone = {} => Exact(Walked(a, e), e)
Walking(a) == {e \in Emission : Walk(a, e)}

(* Emissions in progress, counted from the outermost, that are yet to call a *)
(* handler of once(), which is called once for each of them.                 *)
Depths(s, h) == {d \in 1..Len(s) : h \in ToSet(s[Len(s) + 1 - d].first)}
Pending(s, o, h) == Cardinality(Depths(s, h)) + (IF h \in ToSet(o) THEN 1 ELSE 0)

LEMMA SequenceFacts ==
  ASSUME NEW X, NEW s \in Seq(X)
  PROVE  /\ Len(s) \in Nat /\ DOMAIN s = 1..Len(s) /\ \A i \in 1..Len(s) : s[i] \in X
         /\ \A x : x \in ToSet(s) <=> \E i \in 1..Len(s) : s[i] = x
         /\ IsInjective(s) <=> \A i, j \in 1..Len(s) : s[i] = s[j] => i = j
BY DEF ToSet, IsInjective

(* splice() leaves a part of the array, which is as it was if the handler is *)
(* not in it.                                                                *)
LEMMA RemoveAtFacts ==
  ASSUME NEW X, NEW s \in Seq(X), NEW i \in 1..Len(s), IsInjective(s)
  PROVE  /\ RemoveAt(s, i) \in Seq(X) /\ IsInjective(RemoveAt(s, i))
         /\ ToSet(RemoveAt(s, i)) \subseteq ToSet(s)
<1> DEFINE u == SubSeq(s, 1, i - 1)
           v == SubSeq(s, i + 1, Len(s))
           t == u \o v
<1>1. Len(s) \in Nat
  OBVIOUS
<1>2. u \in Seq(X) /\ Len(u) = i - 1 /\ \A j \in 1..(i - 1) : u[j] = s[j]
  BY <1>1
<1>3. v \in Seq(X) /\ Len(v) = Len(s) - i /\ \A j \in 1..(Len(s) - i) : v[j] = s[i + j]
  BY <1>1
<1>4. RemoveAt(s, i) = t
  BY DEF RemoveAt
<1> HIDE DEF u, v
<1>5. /\ t \in Seq(X) /\ Len(t) = Len(u) + Len(v)
      /\ \A j \in 1..(Len(u) + Len(v)) :
           t[j] = IF j <= Len(u) THEN u[j] ELSE v[j - Len(u)]
  BY ONLY <1>2, <1>3, ConcatProperties
<1>6. Len(t) = Len(s) - 1
  BY <1>1, <1>2, <1>3, <1>5
<1> HIDE DEF t
<1> DEFINE at(j) == IF j < i THEN j ELSE j + 1
<1>7. ASSUME NEW j \in 1..Len(t)
      PROVE  at(j) \in 1..Len(s) /\ t[j] = s[at(j)]
  <2>1. CASE j < i
    BY <1>1, <1>2, <1>3, <1>5, <1>6, <2>1
  <2>2. CASE ~(j < i)
    <3>1. t[j] = v[j - (i - 1)] /\ j - (i - 1) \in 1..(Len(s) - i)
      BY <1>1, <1>2, <1>3, <1>5, <1>6, <2>2
    <3>2. v[j - (i - 1)] = s[i + (j - (i - 1))] /\ i + (j - (i - 1)) = j + 1
      BY <1>1, <1>3, <3>1
    <3>3. QED
      BY <1>1, <1>6, <2>2, <3>1, <3>2
  <2>3. QED
    BY <2>1, <2>2
<1>8. \A j, k \in 1..Len(t) : at(j) = at(k) => j = k
  BY <1>1, <1>6
<1> HIDE DEF at
<1>9. IsInjective(t)
  <2>1. SUFFICES ASSUME NEW j \in 1..Len(t), NEW k \in 1..Len(t), t[j] = t[k]
                 PROVE  j = k
    BY <1>5, SequenceFacts
  <2>2. at(j) = at(k)
    BY <1>7, <2>1, SequenceFacts
  <2>3. QED
    BY <1>8, <2>2
<1>10. ToSet(t) \subseteq ToSet(s)
  <2>1. \A x : x \in ToSet(t) <=> \E j \in 1..Len(t) : t[j] = x
    BY <1>5, SequenceFacts
  <2>2. \A x : x \in ToSet(s) <=> \E j \in 1..Len(s) : s[j] = x
    BY SequenceFacts
  <2>3. QED
    BY <1>7, <2>1, <2>2
<1>11. QED
  BY <1>4, <1>5, <1>9, <1>10

LEMMA SplicedFacts ==
  ASSUME NEW s \in Seq(Handlers), IsInjective(s), NEW h
  PROVE  /\ Spliced(s, h) \in Seq(Handlers) /\ IsInjective(Spliced(s, h))
         /\ ToSet(Spliced(s, h)) \subseteq ToSet(s)
         /\ h \notin ToSet(s) => Spliced(s, h) = s
<1> DEFINE i == CHOOSE i \in DOMAIN s : s[i] = h
<1>1. CASE h \in ToSet(s)
  <2>1. i \in 1..Len(s)
    BY <1>1, SequenceFacts
  <2>2. Spliced(s, h) = RemoveAt(s, i)
    BY <1>1 DEF Spliced
  <2> HIDE DEF i
  <2>3. QED
    BY <1>1, <2>1, <2>2, RemoveAtFacts
<1>2. CASE h \notin ToSet(s)
  BY <1>2 DEF Spliced
<1>3. QED
  BY <1>1, <1>2
-----------------------------------------------------------------------------
(* One step of an emission, or of the array it walks along.                  *)
LEMMA EmissionFacts ==
  ASSUME NEW a \in Seq(Handlers), NEW e \in Walking(a)
  PROVE  /\ e \in Emission /\ Walk(a, e)
         /\ Walked(a, e) \in Seq(Handlers) /\ e.first \in Seq(Handlers)
         /\ e.next \in Nat /\ e.called \in [Handlers -> Nat]
BY DEF Walking, Emission, Walked

LEMMA AppendFacts ==
  ASSUME NEW a \in Seq(Handlers), IsInjective(a), NEW h \in Handlers, h \notin ToSet(a)
  PROVE  /\ Append(a, h) \in Seq(Handlers) /\ IsInjective(Append(a, h))
         /\ Len(Append(a, h)) = Len(a) + 1
         /\ \A k \in 1..Len(a) : Append(a, h)[k] = a[k]
         /\ ToSet(Append(a, h)) = ToSet(a) \union {h}
<1> DEFINE b == Append(a, h)
<1>1. /\ b \in Seq(Handlers) /\ Len(a) \in Nat /\ Len(b) = Len(a) + 1
      /\ \A k \in 1..Len(a) : b[k] = a[k]
      /\ b[Len(a) + 1] = h
      /\ \A k \in 1..(Len(a) + 1) : k \in 1..Len(a) \/ k = Len(a) + 1
  OBVIOUS
<1> HIDE DEF b
<1>2. IsInjective(b)
  <2>1. SUFFICES ASSUME NEW j \in 1..Len(b), NEW k \in 1..Len(b), b[j] = b[k]
                 PROVE  j = k
    BY <1>1, SequenceFacts
  <2>2. \A i \in 1..Len(a) : b[i] # h
    BY <1>1, SequenceFacts
  <2>3. QED
    BY <1>1, <2>1, <2>2, SequenceFacts
<1>3. ToSet(b) = ToSet(a) \union {h}
  <2>1. ASSUME NEW x PROVE x \in ToSet(b) <=> x \in ToSet(a) \union {h}
    <3>1. x \in ToSet(b) <=> \E i \in 1..(Len(a) + 1) : b[i] = x
      BY <1>1, SequenceFacts
    <3>2. x \in ToSet(a) <=> \E i \in 1..Len(a) : a[i] = x
      BY SequenceFacts
    <3>3. Len(a) + 1 \in 1..(Len(a) + 1) /\ \A i \in 1..Len(a) : i \in 1..(Len(a) + 1)
      BY <1>1
    <3>4. QED
      BY <1>1, <3>1, <3>2, <3>3
  <2>2. QED
    BY <2>1
<1>4. QED
  BY <1>1, <1>2, <1>3 DEF b

LEMMA ArrayGrows ==
  ASSUME NEW a \in Seq(Handlers), IsInjective(a), NEW h \in Handlers, h \notin ToSet(a),
         NEW e \in Walking(a)
  PROVE  e \in Walking(Append(a, h))
<1> DEFINE b == Append(a, h)
<1>1. /\ b \in Seq(Handlers) /\ IsInjective(b) /\ Len(b) = Len(a) + 1
      /\ \A k \in 1..Len(a) : b[k] = a[k]
      /\ ToSet(a) \subseteq ToSet(b)
  BY AppendFacts
<1>2. Len(a) \in Nat
  OBVIOUS
<1> HIDE DEF b
<1>3. Walk(a, e) /\ e \in Emission
  BY EmissionFacts
<1>4. ASSUME Exact(a, e) PROVE Exact(b, e)
  <2>1. e.next \in 1..(Len(b) + 1) /\ \A k \in 1..(e.next - 1) : b[k] = a[k]
    BY <1>1, <1>2, <1>4 DEF Exact
  <2>2. \A g : Passed(b, e.next, g) <=> Passed(a, e.next, g)
    BY <2>1 DEF Passed
  <2>3. QED
    BY <1>1, <1>4, <2>1, <2>2 DEF Exact
<1>5. Walk(b, e)
  <2>1. CASE e.detached
    BY <1>3, <2>1 DEF Walk, Walked
  <2>2. CASE ~e.detached
    BY <1>1, <1>3, <1>4, <2>2 DEF Walk, Walked
  <2>3. QED
    BY <2>1, <2>2
<1>6. QED
  BY <1>3, <1>5 DEF Walking, b

LEMMA HandlerTakenOff ==
  ASSUME NEW a \in Seq(Handlers), IsInjective(a), NEW h \in Handlers, NEW e \in Walking(a)
  PROVE  [e EXCEPT !.gone = @ \union ({h} \intersect ToSet(a))] \in Walking(Spliced(a, h))
<1> DEFINE b == Spliced(a, h)
           f == [e EXCEPT !.gone = @ \union ({h} \intersect ToSet(a))]
<1>0. e \in Emission /\ Walk(a, e)
  BY EmissionFacts
<1>1. /\ b \in Seq(Handlers) /\ IsInjective(b)
      /\ h \notin ToSet(a) => b = a
  BY SplicedFacts
<1>2. f \in Emission
  BY <1>0 DEF Emission
<1>3. /\ f.first = e.first /\ f.detached = e.detached /\ f.array = e.array
      /\ f.next = e.next /\ f.began = e.began /\ f.called = e.called
      /\ f.gone = e.gone \union ({h} \intersect ToSet(a))
  BY <1>0 DEF Emission
<1>4. /\ f.gone = {} => e.gone = {}
      /\ f.gone = {} => h \notin ToSet(a)
  BY <1>3
<1> HIDE DEF b, f
<1>5. Walk(b, f)
  <2>1. IsInjective(Walked(b, f))
    BY <1>0, <1>1, <1>3 DEF Walk, Walked
  <2>2. f.gone = {} => Walked(b, f) = Walked(a, e) /\ e.gone = {}
    BY <1>1, <1>3, <1>4 DEF Walked
  <2>3. \A w : Exact(w, f) <=> Exact(w, e)
    BY <1>3 DEF Exact
  <2>4. QED
    BY <1>0, <1>3, <2>1, <2>2, <2>3 DEF Walk
<1>6. QED
  BY <1>2, <1>5 DEF Walking, b, f

LEMMA ArrayReplaced ==
  ASSUME NEW a \in Seq(Handlers), NEW e \in Walking(a)
  PROVE  [e EXCEPT !.array = Walked(a, e), !.detached = TRUE] \in Walking(<<>>)
<1> DEFINE f == [e EXCEPT !.array = Walked(a, e), !.detached = TRUE]
<1>0. e \in Emission /\ Walk(a, e) /\ Walked(a, e) \in Seq(Handlers)
  BY EmissionFacts
<1>1. f \in Emission
  BY <1>0 DEF Emission
<1>2. /\ f.first = e.first /\ f.next = e.next /\ f.began = e.began
      /\ f.called = e.called /\ f.gone = e.gone
      /\ Walked(<<>>, f) = Walked(a, e)
  BY <1>0, EmissionFacts DEF Emission, Walked
<1> HIDE DEF f
<1>3. \A w : Exact(w, f) <=> Exact(w, e)
  BY <1>2 DEF Exact
<1>4. Walk(<<>>, f)
  BY <1>0, <1>2, <1>3 DEF Walk
<1>5. QED
  BY <1>1, <1>4 DEF Walking, f

LEMMA EmissionBegins ==
  ASSUME always \in Seq(Handlers), IsInjective(always),
         once \in Seq(Handlers), IsInjective(once)
  PROVE  NewEmission \in Walking(always)
<1> DEFINE e == NewEmission
<1>1. /\ e.first = once /\ ~e.detached /\ e.next = 1 /\ e.gone = {}
      /\ e.began = ToSet(always) /\ \A h \in Handlers : e.called[h] = 0
  BY DEF NewEmission
<1>2. ToSet(always) \subseteq Handlers
  BY SequenceFacts
<1>3. e \in Emission
  BY <1>2 DEF NewEmission, Emission
<1> HIDE DEF e
<1>4. Len(always) \in Nat /\ 1..(1 - 1) = {}
  OBVIOUS
<1>5. Exact(always, e)
  BY <1>1, <1>4 DEF Exact, Passed
<1>6. Walk(always, e)
  BY <1>1, <1>5 DEF Walk, Walked
<1>7. QED
  BY <1>3, <1>6 DEF Walking, e

LEMMA HandlerDone ==
  ASSUME NEW a \in Seq(Handlers), NEW e \in Walking(a)
  PROVE  [e EXCEPT !.calling = NoHandler] \in Walking(a)
<1> DEFINE f == [e EXCEPT !.calling = NoHandler]
<1>0. e \in Emission /\ Walk(a, e)
  BY EmissionFacts
<1>1. f \in Emission
  BY <1>0 DEF Emission
<1>2. /\ f.first = e.first /\ f.next = e.next /\ f.began = e.began
      /\ f.called = e.called /\ f.gone = e.gone /\ Walked(a, f) = Walked(a, e)
  BY <1>0, EmissionFacts DEF Emission, Walked
<1> HIDE DEF f
<1>3. \A w : Exact(w, f) <=> Exact(w, e)
  BY <1>2 DEF Exact
<1>4. Walk(a, f)
  BY <1>0, <1>2, <1>3 DEF Walk
<1>5. QED
  BY <1>1, <1>4 DEF Walking, f

LEMMA TailFacts ==
  ASSUME NEW X, NEW s \in Seq(X), IsInjective(s), s # <<>>
  PROVE  /\ Head(s) \in X /\ Tail(s) \in Seq(X) /\ IsInjective(Tail(s))
         /\ Head(s) \notin ToSet(Tail(s))
         /\ ToSet(s) = ToSet(Tail(s)) \union {Head(s)}
<1> DEFINE t == Tail(s)
<1>1. /\ t \in Seq(X) /\ Len(s) \in Nat \ {0} /\ Len(t) = Len(s) - 1
      /\ \A i \in 1..Len(t) : i + 1 \in 1..Len(s) /\ i + 1 # 1 /\ t[i] = s[i + 1]
      /\ Head(s) = s[1] /\ 1 \in 1..Len(s)
      /\ \A i \in 1..Len(s) : i = 1 \/ (i - 1 \in 1..Len(t) /\ t[i - 1] = s[i])
  OBVIOUS
<1> HIDE DEF t
<1>2. \A i, j \in 1..Len(s) : s[i] = s[j] => i = j
  BY SequenceFacts
<1>3. IsInjective(t)
  <2>1. SUFFICES ASSUME NEW j \in 1..Len(t), NEW k \in 1..Len(t), t[j] = t[k]
                 PROVE  j = k
    BY <1>1, SequenceFacts
  <2>2. j + 1 = k + 1
    BY <1>1, <1>2, <2>1
  <2>3. QED
    BY <1>1, <2>2
<1>4. s[1] \notin ToSet(t)
  <2>1. \A x : x \in ToSet(t) <=> \E i \in 1..Len(t) : t[i] = x
    BY <1>1, SequenceFacts
  <2>2. QED
    BY <1>1, <1>2, <2>1
<1>5. ToSet(s) = ToSet(t) \union {s[1]}
  <2>1. ASSUME NEW x PROVE x \in ToSet(s) <=> x \in ToSet(t) \union {s[1]}
    <3>1. /\ x \in ToSet(t) <=> \E i \in 1..Len(t) : t[i] = x
          /\ x \in ToSet(s) <=> \E i \in 1..Len(s) : s[i] = x
      BY <1>1, SequenceFacts
    <3>2. QED
      BY <1>1, <3>1
  <2>2. QED
    BY <2>1
<1>6. s[1] \in X
  BY <1>1
<1>7. QED
  BY <1>1, <1>3, <1>4, <1>5, <1>6 DEF t

LEMMA OnceHandlerCalled ==
  ASSUME NEW a \in Seq(Handlers), NEW e \in Walking(a), e.first # <<>>
  PROVE  [e EXCEPT !.calling = Head(e.first), !.first = Tail(e.first)] \in Walking(a)
<1> DEFINE f == [e EXCEPT !.calling = Head(e.first), !.first = Tail(e.first)]
<1>0. e \in Emission /\ Walk(a, e)
  BY EmissionFacts
<1>1. /\ Head(e.first) \in Handlers /\ Tail(e.first) \in Seq(Handlers)
      /\ IsInjective(Tail(e.first))
  BY EmissionFacts, TailFacts DEF Walk
<1>2. f \in Emission
  BY <1>1, <1>0, EmissionFacts DEF Emission
<1>3. /\ f.first = Tail(e.first) /\ f.next = e.next /\ f.began = e.began
      /\ f.called = e.called /\ f.gone = e.gone /\ Walked(a, f) = Walked(a, e)
  BY <1>0, EmissionFacts DEF Emission, Walked
<1> HIDE DEF f
<1>4. \A w : Exact(w, f) <=> Exact(w, e)
  BY <1>3 DEF Exact
<1>5. Walk(a, f)
  BY <1>0, <1>1, <1>3, <1>4 DEF Walk
<1>6. QED
  BY <1>2, <1>5 DEF Walking, f

LEMMA NextHandlerCalled ==
  ASSUME NEW a \in Seq(Handlers), NEW e \in Walking(a), e.next <= Len(Walked(a, e)),
         NEW h, h = Walked(a, e)[e.next]
  PROVE  [e EXCEPT !.calling = h, !.next = @ + 1, !.called[h] = @ + 1] \in Walking(a)
<1> DEFINE f == [e EXCEPT !.calling = h, !.next = @ + 1, !.called[h] = @ + 1]
           w == Walked(a, e)
<1>0. e \in Emission /\ Walk(a, e)
  BY EmissionFacts
<1>1. /\ w \in Seq(Handlers) /\ Len(w) \in Nat /\ e.next \in 1..Len(w) /\ h = w[e.next]
      /\ h \in Handlers
  BY <1>0, EmissionFacts DEF Walk
<1>2. f \in Emission
  <2> DEFINE c == [e.called EXCEPT ![h] = @ + 1]
  <2>1. c \in [Handlers -> Nat] /\ e.next + 1 \in Nat
    BY <1>1, EmissionFacts
  <2>2. f = [e EXCEPT !.calling = h, !.next = @ + 1, !.called = c]
    OBVIOUS
  <2> HIDE DEF c
  <2>3. QED
    BY <1>0, <1>1, <2>1, <2>2 DEF Emission
<1>3. /\ f.first = e.first /\ f.next = e.next + 1 /\ f.began = e.began
      /\ f.called = [e.called EXCEPT ![h] = @ + 1] /\ f.gone = e.gone
      /\ Walked(a, f) = w
  BY <1>0, EmissionFacts DEF Emission, Walked
<1>4. e.called \in [Handlers -> Nat]
  BY EmissionFacts
<1> HIDE DEF f
<1>5. ASSUME Exact(w, e) PROVE Exact(w, f)
  <2>1. \A i, j \in 1..Len(w) : w[i] = w[j] => i = j
    BY <1>0, <1>1, SequenceFacts DEF Walk
  <2> HIDE DEF w
  <2>2. /\ f.next - 1 = e.next
        /\ \A k \in 1..e.next : k \in 1..(e.next - 1) \/ k = e.next
        /\ \A k \in 1..(e.next - 1) : k \in 1..e.next /\ k \in 1..Len(w) /\ k # e.next
        /\ e.next \in 1..e.next
    BY <1>1, <1>3
  <2>3. /\ ~Passed(w, e.next, h) /\ Passed(w, f.next, h)
        /\ \A g : g # h => (Passed(w, f.next, g) <=> Passed(w, e.next, g))
    BY <1>1, <2>1, <2>2 DEF Passed
  <2>4. /\ f.called[h] = e.called[h] + 1
        /\ \A g \in Handlers : g # h => f.called[g] = e.called[g]
    BY <1>1, <1>3, <1>4
  <2>5. f.next \in 1..(Len(w) + 1)
    BY <1>1, <1>3
  <2>6. ASSUME NEW g \in Handlers
        PROVE  /\ Passed(w, f.next, g) => f.called[g] = 1
               /\ ~Passed(w, f.next, g) => f.called[g] = 0
    <3>1. CASE g = h
      BY <1>1, <1>5, <2>3, <2>4, <3>1 DEF Exact
    <3>2. CASE g # h
      <4>1. Passed(w, f.next, g) <=> Passed(w, e.next, g)
        BY <2>3, <3>2
      <4>2. f.called[g] = e.called[g]
        BY <2>4, <3>2
      <4>3. /\ Passed(w, e.next, g) => e.called[g] = 1
            /\ ~Passed(w, e.next, g) => e.called[g] = 0
        BY <1>5 DEF Exact
      <4>4. QED
        BY <4>1, <4>2, <4>3
    <3>3. QED
      BY <3>1, <3>2
  <2>7. QED
    BY <1>3, <1>5, <2>5, <2>6 DEF Exact
<1>6. f.next > 0
  BY <1>1, <1>3
<1>7. Walk(a, f)
  BY <1>0, <1>3, <1>5, <1>6 DEF Walk
<1>8. QED
  BY <1>2, <1>7 DEF Walking, f
-----------------------------------------------------------------------------
(* The arrays, the walks along them, and the calls owed to once().            *)
Lists == /\ always \in Seq(Handlers) /\ IsInjective(always)
         /\ once \in Seq(Handlers) /\ IsInjective(once)
         /\ had \in BOOLEAN /\ stale \in BOOLEAN
         /\ emits \in 0..MaxEmits /\ uses \in 0..MaxUses
Walks == stack \in Seq(Walking(always))
Owes == /\ asked \in [Handlers -> Nat] /\ served \in [Handlers -> Nat]
        /\ \A h \in Handlers : served[h] + Pending(stack, once, h) <= asked[h]

(* The inductive invariant of an emitter.                                    *)
IInv == Lists /\ Walks /\ Owes /\ Announced

(* The two parts of Pending.                                                 *)
Waiting(s, h) == Cardinality(Depths(s, h))
In(o, h) == IF h \in ToSet(o) THEN 1 ELSE 0

LEMMA WaitingType ==
  ASSUME NEW S, NEW s \in Seq(S), NEW h
  PROVE  IsFiniteSet(Depths(s, h)) /\ Waiting(s, h) \in Nat
<1>1. 1 \in Int /\ Len(s) \in Int
  OBVIOUS
<1>2. IsFiniteSet(1..Len(s))
  BY ONLY <1>1, FS_Interval, Zenon
<1>3. Depths(s, h) \in SUBSET (1..Len(s))
  BY DEF Depths
<1>4. QED
  BY <1>2, <1>3, FS_Subset, FS_CardinalityType DEF Waiting

LEMMA OnTop ==
  ASSUME NEW S, NEW s \in Seq(S), NEW e \in S
  PROVE  /\ <<e>> \o s \in Seq(S) /\ Len(<<e>> \o s) = Len(s) + 1
         /\ (<<e>> \o s)[1] = e
         /\ \A i \in 1..Len(s) : (<<e>> \o s)[i + 1] = s[i]
<1> DEFINE o == <<e>>
<1>1. o \in Seq(S) /\ Len(o) = 1 /\ o[1] = e /\ Len(s) \in Nat
  OBVIOUS
<1> HIDE DEF o
<1>2. /\ o \o s \in Seq(S) /\ Len(o \o s) = Len(o) + Len(s)
      /\ \A i \in 1..(Len(o) + Len(s)) :
           (o \o s)[i] = IF i <= Len(o) THEN o[i] ELSE s[i - Len(o)]
  BY ONLY <1>1, ConcatProperties
<1>3. ASSUME NEW i \in 1..Len(s) PROVE (o \o s)[i + 1] = s[i]
  <2>1. i + 1 \in 1..(Len(o) + Len(s)) /\ ~(i + 1 <= Len(o)) /\ i + 1 - Len(o) = i
    BY <1>1
  <2>2. QED
    BY <1>2, <2>1
<1>4. (o \o s)[1] = e
  <2>1. 1 \in 1..(Len(o) + Len(s)) /\ 1 <= Len(o)
    BY <1>1
  <2>2. QED
    BY <1>1, <1>2, <2>1
<1>5. QED
  BY <1>1, <1>2, <1>3, <1>4 DEF o

LEMMA TopAndRest ==
  ASSUME NEW S, NEW s \in Seq(S), s # <<>>
  PROVE  /\ Head(s) \in S /\ Tail(s) \in Seq(S)
         /\ s = <<Head(s)>> \o Tail(s)
<1>1. Head(s) \in S /\ Tail(s) \in Seq(S) /\ Len(s) \in Nat /\ Len(Tail(s)) = Len(s) - 1
      /\ Head(s) = s[1] /\ \A i \in 1..Len(Tail(s)) : Tail(s)[i] = s[i + 1]
  OBVIOUS
<1> DEFINE t == <<Head(s)>> \o Tail(s)
<1>2. /\ t \in Seq(S) /\ Len(t) = Len(Tail(s)) + 1 /\ t[1] = Head(s)
      /\ \A i \in 1..Len(Tail(s)) : t[i + 1] = Tail(s)[i]
  BY <1>1, OnTop
<1> HIDE DEF t
<1>3. Len(t) = Len(s)
  BY <1>1, <1>2
<1>4. ASSUME NEW i \in 1..Len(s) PROVE t[i] = s[i]
  <2>1. CASE i = 1
    BY <1>1, <1>2, <2>1
  <2>2. CASE i # 1
    <3>1. i - 1 \in 1..Len(Tail(s)) /\ (i - 1) + 1 = i
      BY <1>1, <2>2
    <3>2. t[(i - 1) + 1] = Tail(s)[i - 1] /\ Tail(s)[i - 1] = s[(i - 1) + 1]
      BY <1>1, <1>2, <3>1
    <3>3. QED
      BY <3>1, <3>2
  <2>3. QED
    BY <2>1, <2>2
<1>5. s = t
  BY <1>2, <1>3, <1>4, SeqEqual
<1>6. QED
  BY <1>1, <1>5 DEF t

LEMMA WaitingOnTop ==
  ASSUME NEW S, NEW s \in Seq(S), NEW e \in S, NEW h
  PROVE  Waiting(<<e>> \o s, h) = Waiting(s, h) + In(e.first, h)
<1> DEFINE t == <<e>> \o s
           n == Len(s)
           D == Depths(s, h)
           E == Depths(t, h)
<1>1. /\ t \in Seq(S) /\ n \in Nat /\ Len(t) = n + 1 /\ t[1] = e
      /\ \A i \in 1..n : t[i + 1] = s[i]
  BY OnTop
<1>2. IsFiniteSet(D) /\ Waiting(s, h) \in Nat
  BY WaitingType
<1> HIDE DEF t
<1>3. \A d \in 1..n : /\ n + 1 - d \in 1..n
                      /\ Len(t) + 1 - d = (n + 1 - d) + 1
                      /\ t[Len(t) + 1 - d] = s[n + 1 - d]
  BY <1>1
<1>4. Len(t) + 1 - (n + 1) = 1
  BY <1>1
<1>5. \A d : d \in 1..Len(t) <=> d \in 1..n \/ d = n + 1
  BY <1>1
<1>6. n + 1 \notin D
  BY <1>1 DEF Depths
<1>7. \A d : d \in E <=> d \in D \/ (d = n + 1 /\ h \in ToSet(e.first))
  BY <1>1, <1>3, <1>4, <1>5 DEF Depths
<1> HIDE DEF n, D, E
<1>8. CASE h \in ToSet(e.first)
  <2>1. E = D \union {n + 1}
    BY <1>7, <1>8
  <2>2. Cardinality(E) = Cardinality(D) + 1
    BY <1>2, <1>6, <2>1, FS_AddElement
  <2>3. QED
    BY <1>8, <2>2 DEF Waiting, In, D, E, t
<1>9. CASE h \notin ToSet(e.first)
  <2>1. E = D
    BY <1>7, <1>9
  <2>2. QED
    BY <1>2, <1>9, <2>1 DEF Waiting, In, D, E, t
<1>10. QED
  BY <1>8, <1>9

(* The stack after each kind of step.                                        *)
LEMMA StackMapped ==
  ASSUME NEW S, NEW T, NEW s \in Seq(S), NEW f \in [1..Len(s) -> T],
         \A i \in 1..Len(s) : f[i].first = s[i].first
  PROVE  f \in Seq(T) /\ (f = <<>> <=> s = <<>>) /\ \A h : Waiting(f, h) = Waiting(s, h)
<1>1. Len(s) \in Nat
  OBVIOUS
<1>2. f \in Seq(T) /\ Len(f) = Len(s)
  BY <1>1
<1>3. \A h : Depths(f, h) = Depths(s, h)
  <2>1. TAKE h
  <2>2. \A d \in 1..Len(s) : Len(s) + 1 - d \in 1..Len(s)
    BY <1>1
  <2>3. \A d \in 1..Len(s) : f[Len(f) + 1 - d].first = s[Len(s) + 1 - d].first
    BY <1>2, <2>2
  <2>4. QED
    BY <1>2, <2>3 DEF Depths
<1>4. f = <<>> <=> s = <<>>
  BY <1>1, <1>2
<1>5. QED
  BY <1>2, <1>3, <1>4 DEF Waiting

LEMMA PendingIs == \A s, o, h : Pending(s, o, h) = Waiting(s, h) + In(o, h)
BY DEF Pending, Waiting, In
-----------------------------------------------------------------------------
(* What a step leaves of Announced.                                          *)
LEMMA Told ==
  ASSUME Lists', Update \/ stale' = TRUE \/ stack' # <<>>
                 \/ (UNCHANGED <<always, had, stale>> /\ (once' = <<>> <=> once = <<>>)
                     /\ (stack' = <<>> <=> stack = <<>>) /\ Announced)
  PROVE  Announced'
BY DEF Announced, Update, Lists

LEMMA UseCounted == uses \in 0..MaxUses /\ Use => uses' \in 0..MaxUses
BY BoundsAssumption DEF Use

LEMMA OnKeeps ==
  ASSUME IInv, NEW h \in Handlers, On(h)
  PROVE  IInv'
<1>1. UNCHANGED <<stack, emits, asked, served>> /\ Use
  BY DEF On
<1>2. Lists /\ Walks /\ Owes /\ Announced
  BY DEF IInv
<1>3. uses' \in 0..MaxUses
  BY <1>1, <1>2, UseCounted DEF Lists
<1>4. CASE h \notin ToSet(always)
  <2>1. always' = Append(always, h) /\ once' = once /\ Update
    BY <1>4 DEF On
  <2>2. always' \in Seq(Handlers) /\ IsInjective(always')
    BY <1>2, <1>4, <2>1, AppendFacts DEF Lists
  <2>3. Lists'
    BY <1>1, <1>2, <1>3, <2>1, <2>2 DEF Lists, Update
  <2>4. Walks'
    <3>1. \A e \in Walking(always) : e \in Walking(always')
      BY <1>2, <1>4, <2>1, ArrayGrows DEF Lists
    <3>2. Walking(always) \subseteq Walking(always')
      BY <3>1
    <3> DEFINE S == Walking(always)
               T == Walking(always')
    <3> HIDE DEF S, T
    <3>3. S \subseteq T /\ stack \in Seq(S)
      BY <1>2, <3>2 DEF S, T, Walks
    <3>4. stack \in Seq(T)
      BY <3>3
    <3>5. QED
      BY <1>1, <3>4 DEF Walks, T
  <2>5. Owes'
    BY <1>1, <1>2, <2>1 DEF Owes
  <2>6. QED
    BY <2>1, <2>3, <2>4, <2>5, Told DEF IInv
<1>5. CASE h \in ToSet(always)
  <2>1. UNCHANGED <<always, once, had, stale>>
    BY <1>5 DEF On
  <2>2. Lists'
    BY <1>1, <1>2, <1>3, <2>1 DEF Lists
  <2>3. Walks' /\ Owes'
    BY <1>1, <1>2, <2>1 DEF Walks, Owes
  <2>4. QED
    BY <1>1, <1>2, <2>1, <2>2, <2>3, Told DEF IInv
<1>6. QED
  BY <1>4, <1>5

LEMMA OnceKeeps ==
  ASSUME IInv, NEW h \in Handlers, Once(h)
  PROVE  IInv'
<1>1. UNCHANGED <<stack, emits, served>> /\ Use
  BY DEF Once
<1>2. Lists /\ Walks /\ Owes /\ Announced
  BY DEF IInv
<1>3. uses' \in 0..MaxUses
  BY <1>1, <1>2, UseCounted DEF Lists
<1>4. CASE h \notin ToSet(once)
  <2>1. /\ once' = Append(once, h) /\ always' = always /\ Update
        /\ asked' = [asked EXCEPT ![h] = @ + 1]
    BY <1>4 DEF Once
  <2>2. /\ once' \in Seq(Handlers) /\ IsInjective(once')
        /\ ToSet(once') = ToSet(once) \union {h}
    BY <1>2, <1>4, <2>1, AppendFacts DEF Lists
  <2>3. Lists'
    BY <1>1, <1>2, <1>3, <2>1, <2>2 DEF Lists, Update
  <2>4. Walks'
    BY <1>1, <1>2, <2>1 DEF Walks
  <2>5. Owes'
    <3>1. /\ asked \in [Handlers -> Nat] /\ served \in [Handlers -> Nat]
          /\ asked' \in [Handlers -> Nat]
          /\ asked'[h] = asked[h] + 1
          /\ \A g \in Handlers : g # h => asked'[g] = asked[g]
      BY <1>2, <2>1 DEF Owes
    <3>2. ASSUME NEW g \in Handlers
          PROVE  served'[g] + Pending(stack', once', g) <= asked'[g]
      <4>1. /\ Pending(stack, once, g) = Waiting(stack, g) + In(once, g)
            /\ Pending(stack', once', g) = Waiting(stack, g) + In(once', g)
        BY <1>1, PendingIs
      <4>2. Waiting(stack, g) \in Nat
        BY <1>2, WaitingType DEF Walks
      <4>3. served[g] + Pending(stack, once, g) <= asked[g]
        BY <1>2 DEF Owes
      <4>4. CASE g = h
        <5>1. In(once', g) = 1 /\ In(once, g) = 0
          BY <1>4, <2>2, <4>4 DEF In
        <5>2. QED
          BY <1>1, <3>1, <4>1, <4>2, <4>3, <4>4, <5>1
      <4>5. CASE g # h
        <5>1. In(once', g) = In(once, g)
          BY <2>2, <4>5 DEF In
        <5>2. QED
          BY <1>1, <3>1, <4>1, <4>3, <4>5, <5>1
      <4>6. QED
        BY <4>4, <4>5
    <3>3. QED
      BY <1>1, <3>1, <3>2 DEF Owes
  <2>6. QED
    BY <2>1, <2>3, <2>4, <2>5, Told DEF IInv
<1>5. CASE h \in ToSet(once)
  <2>1. UNCHANGED <<always, once, had, stale, asked>>
    BY <1>5 DEF Once
  <2>2. Lists'
    BY <1>1, <1>2, <1>3, <2>1 DEF Lists
  <2>3. Walks' /\ Owes'
    BY <1>1, <1>2, <2>1 DEF Walks, Owes
  <2>4. QED
    BY <1>1, <1>2, <2>1, <2>2, <2>3, Told DEF IInv
<1>6. QED
  BY <1>4, <1>5

(* Handlers of once() that are taken off are called no more.                 *)
LEMMA OwesLess ==
  ASSUME Walks, Owes, UNCHANGED <<asked, served>>,
         \A g : Waiting(stack', g) = Waiting(stack, g),
         ToSet(once') \subseteq ToSet(once)
  PROVE  Owes'
<1>1. asked \in [Handlers -> Nat] /\ served \in [Handlers -> Nat]
  BY DEF Owes
<1>2. ASSUME NEW g \in Handlers
      PROVE  served'[g] + Pending(stack', once', g) <= asked'[g]
  <2>1. /\ Pending(stack, once, g) = Waiting(stack, g) + In(once, g)
        /\ Pending(stack', once', g) = Waiting(stack', g) + In(once', g)
        /\ Waiting(stack', g) = Waiting(stack, g)
    BY PendingIs
  <2>2. Waiting(stack, g) \in Nat
    BY WaitingType DEF Walks
  <2>3. served[g] + Pending(stack, once, g) <= asked[g]
    BY DEF Owes
  <2>4. In(once', g) \in Nat /\ In(once, g) \in Nat /\ In(once', g) <= In(once, g)
    BY DEF In
  <2>5. QED
    BY <1>1, <2>1, <2>2, <2>3, <2>4
<1>3. QED
  BY <1>1, <1>2 DEF Owes

LEMMA OffKeeps ==
  ASSUME IInv, NEW h \in Handlers, Off(h)
  PROVE  IInv'
<1> DEFINE off(e) == [e EXCEPT !.gone = @ \union ({h} \intersect ToSet(always))]
<1>1. /\ always' = Spliced(always, h) /\ once' = Spliced(once, h)
      /\ stack' = [i \in DOMAIN stack |-> off(stack[i])]
      /\ stale' = TRUE /\ UNCHANGED <<had, emits, asked, served>> /\ Use
  BY DEF Off
<1>2. Lists /\ Walks /\ Owes
  BY DEF IInv
<1>3. uses' \in 0..MaxUses
  BY <1>1, <1>2, UseCounted DEF Lists
<1>4. /\ always' \in Seq(Handlers) /\ IsInjective(always')
      /\ once' \in Seq(Handlers) /\ IsInjective(once')
      /\ ToSet(once') \subseteq ToSet(once)
  BY <1>1, <1>2, SplicedFacts DEF Lists
<1>5. Lists'
  BY <1>1, <1>2, <1>3, <1>4 DEF Lists
<1>6. \A e \in Walking(always) : off(e) \in Walking(always') /\ off(e).first = e.first
  <2>1. TAKE e \in Walking(always)
  <2>2. off(e) \in Walking(always')
    BY <1>1, <1>2, HandlerTakenOff DEF Lists
  <2>3. off(e).first = e.first
    BY EmissionFacts DEF Emission
  <2>4. QED
    BY <2>2, <2>3
<1> HIDE DEF off
<1>7. Walks' /\ \A g : Waiting(stack', g) = Waiting(stack, g)
  <2> DEFINE S == Walking(always)
             T == Walking(always')
             f == [i \in DOMAIN stack |-> off(stack[i])]
  <2>1. stack \in Seq(S)
    BY <1>2 DEF Walks
  <2>2. \A e \in S : off(e) \in T /\ off(e).first = e.first
    BY <1>6
  <2> HIDE DEF S, T
  <2>3. \A i \in 1..Len(stack) : stack[i] \in S /\ f[i] = off(stack[i])
    BY <2>1
  <2>4. f \in [1..Len(stack) -> T] /\ \A i \in 1..Len(stack) : f[i].first = stack[i].first
    BY <2>1, <2>2, <2>3
  <2> HIDE DEF f
  <2>5. f \in Seq(T) /\ \A g : Waiting(f, g) = Waiting(stack, g)
    BY ONLY <2>1, <2>4, StackMapped
  <2>6. stack' = f
    BY <1>1 DEF f
  <2>7. QED
    BY <2>5, <2>6 DEF Walks, T
<1>8. Owes'
  BY <1>1, <1>2, <1>4, <1>7, OwesLess
<1>9. QED
  BY <1>1, <1>5, <1>7, <1>8, Told DEF IInv

LEMMA RemoveAllListenersKeeps ==
  ASSUME IInv, RemoveAllListeners
  PROVE  IInv'
<1> DEFINE own(e) == [e EXCEPT !.array = Walked(always, e), !.detached = TRUE]
<1>1. /\ always' = <<>> /\ once' = <<>>
      /\ stack' = [i \in DOMAIN stack |-> own(stack[i])]
      /\ Update /\ UNCHANGED <<emits, asked, served>> /\ Use
  BY DEF RemoveAllListeners, ArrayOf, Walked
<1>2. Lists /\ Walks /\ Owes
  BY DEF IInv
<1>3. uses' \in 0..MaxUses
  BY <1>1, <1>2, UseCounted DEF Lists
<1>4. /\ <<>> \in Seq(Handlers) /\ IsInjective(<<>>) /\ ToSet(<<>>) = {}
  BY DEF IsInjective, ToSet
<1>5. Lists'
  BY <1>1, <1>2, <1>3, <1>4 DEF Lists, Update
<1>6. \A e \in Walking(always) : own(e) \in Walking(<<>>) /\ own(e).first = e.first
  <2>1. TAKE e \in Walking(always)
  <2>2. own(e) \in Walking(<<>>)
    BY <1>2, ArrayReplaced DEF Lists
  <2>3. own(e).first = e.first
    BY <1>2, EmissionFacts DEF Emission, Lists
  <2>4. QED
    BY <2>2, <2>3
<1> HIDE DEF own
<1>7. Walks' /\ \A g : Waiting(stack', g) = Waiting(stack, g)
  <2> DEFINE S == Walking(always)
             T == Walking(<<>>)
             f == [i \in DOMAIN stack |-> own(stack[i])]
  <2>1. stack \in Seq(S)
    BY <1>2 DEF Walks
  <2>2. \A e \in S : own(e) \in T /\ own(e).first = e.first
    BY <1>6
  <2> HIDE DEF S, T
  <2>3. \A i \in 1..Len(stack) : stack[i] \in S /\ f[i] = own(stack[i])
    BY <2>1
  <2>4. f \in [1..Len(stack) -> T] /\ \A i \in 1..Len(stack) : f[i].first = stack[i].first
    BY <2>1, <2>2, <2>3
  <2> HIDE DEF f
  <2>5. f \in Seq(T) /\ \A g : Waiting(f, g) = Waiting(stack, g)
    BY ONLY <2>1, <2>4, StackMapped
  <2>6. stack' = f
    BY <1>1 DEF f
  <2>7. QED
    BY <1>1, <2>5, <2>6 DEF Walks, T
<1>8. Owes'
  BY <1>1, <1>2, <1>4, <1>7, OwesLess
<1>9. QED
  BY <1>1, <1>5, <1>7, <1>8, Told DEF IInv
-----------------------------------------------------------------------------
LEMMA EmitKeeps ==
  ASSUME IInv, Emit
  PROVE  IInv'
<1> DEFINE e == NewEmission
<1>1. /\ emits < MaxEmits /\ emits' = emits + 1 /\ once' = <<>>
      /\ stack' = <<e>> \o stack
      /\ UNCHANGED <<always, had, uses, asked, served, stale>>
  BY DEF Emit
<1>2. Lists /\ Walks /\ Owes
  BY DEF IInv
<1>3. <<>> \in Seq(Handlers) /\ IsInjective(<<>>) /\ ToSet(<<>>) = {}
  BY DEF IsInjective, ToSet
<1>4. Lists'
  BY <1>1, <1>2, <1>3, BoundsAssumption DEF Lists
<1>5. e \in Walking(always) /\ e.first = once
  BY <1>2, EmissionBegins DEF Lists, NewEmission
<1> DEFINE S == Walking(always)
<1>6. stack \in Seq(S) /\ e \in S
  BY <1>2, <1>5 DEF Walks
<1> HIDE DEF e, S
<1>7. stack' \in Seq(S) /\ Len(stack') = Len(stack) + 1
  BY <1>1, <1>6, OnTop
<1>8. Walks'
  BY <1>1, <1>7 DEF Walks, S
<1>9. Owes'
  <2>1. ASSUME NEW g \in Handlers
        PROVE  Pending(stack', once', g) = Pending(stack, once, g)
    <3>1. Waiting(stack', g) = Waiting(stack, g) + In(e.first, g) /\ Waiting(stack, g) \in Nat
      BY <1>1, <1>6, WaitingOnTop, WaitingType
    <3>2. In(once', g) = 0 /\ In(once, g) \in Nat
      BY <1>1, <1>3 DEF In
    <3>3. QED
      BY <1>5, <3>1, <3>2, PendingIs
  <2>2. QED
    BY <1>1, <1>2, <2>1 DEF Owes
<1>10. stack' # <<>>
  BY <1>6, <1>7
<1>11. QED
  BY <1>4, <1>8, <1>9, <1>10, Told DEF IInv

LEMMA CallOnceKeeps ==
  ASSUME IInv, CallOnce
  PROVE  IInv'
<1> DEFINE S == Walking(always)
           e == Head(stack)
           h == Head(e.first)
           f == [e EXCEPT !.calling = h, !.first = Tail(e.first)]
           t == Tail(stack)
<1>1. /\ stack # <<>> /\ e.first # <<>> /\ stack' = <<f>> \o t
      /\ served' = [served EXCEPT ![h] = @ + 1]
      /\ UNCHANGED <<always, once, had, emits, uses, asked, stale>>
  BY DEF CallOnce, Looping, Becomes, lists
<1>2. Lists /\ Walks /\ Owes
  BY DEF IInv
<1>3. Lists'
  BY <1>1, <1>2 DEF Lists
<1>4. e \in S /\ t \in Seq(S) /\ stack = <<e>> \o t
  BY <1>1, <1>2, TopAndRest DEF Walks
<1>5. f \in S
  BY <1>1, <1>2, <1>4, OnceHandlerCalled DEF Lists
<1>6. /\ f.first = Tail(e.first) /\ e.first \in Seq(Handlers) /\ IsInjective(e.first)
      /\ e \in Emission
  <2>1. e \in Emission /\ e.first \in Seq(Handlers) /\ IsInjective(e.first)
    BY <1>2, <1>4, EmissionFacts DEF Lists, Walk
  <2>2. f.first = Tail(e.first)
    BY <2>1 DEF Emission
  <2>3. QED
    BY <2>1, <2>2
<1>7. /\ h \in Handlers /\ h \notin ToSet(f.first)
      /\ ToSet(e.first) = ToSet(f.first) \union {h}
  BY <1>1, <1>6, TailFacts
<1> HIDE DEF f, t, e, h, S
<1>8. stack' \in Seq(S) /\ Len(stack') = Len(t) + 1
  BY <1>1, <1>4, <1>5, OnTop
<1>9. Walks'
  BY <1>1, <1>8 DEF Walks, S
<1>10. Owes'
  <2>1. /\ asked \in [Handlers -> Nat] /\ served \in [Handlers -> Nat]
        /\ served' \in [Handlers -> Nat] /\ served'[h] = served[h] + 1
        /\ \A g \in Handlers : g # h => served'[g] = served[g]
    BY <1>1, <1>2, <1>7 DEF Owes
  <2>2. ASSUME NEW g \in Handlers
        PROVE  served'[g] + Pending(stack', once', g) <= asked'[g]
    <3>1. /\ Waiting(stack', g) = Waiting(t, g) + In(f.first, g)
          /\ Waiting(stack, g) = Waiting(t, g) + In(e.first, g)
          /\ Waiting(t, g) \in Nat
      BY <1>1, <1>4, <1>5, WaitingOnTop, WaitingType
    <3>2. /\ Pending(stack, once, g) = Waiting(stack, g) + In(once, g)
          /\ Pending(stack', once', g) = Waiting(stack', g) + In(once, g)
          /\ In(once, g) \in Nat
      BY <1>1, PendingIs DEF In
    <3>3. served[g] + Pending(stack, once, g) <= asked[g]
      BY <1>2 DEF Owes
    <3>4. CASE g = h
      <4>1. In(f.first, g) = 0 /\ In(e.first, g) = 1
        BY <1>7, <3>4 DEF In
      <4>2. QED
        BY <1>1, <2>1, <3>1, <3>2, <3>3, <3>4, <4>1
    <3>5. CASE g # h
      <4>1. In(f.first, g) = In(e.first, g) /\ In(f.first, g) \in Nat
        BY <1>7, <3>5 DEF In
      <4>2. QED
        BY <1>1, <2>1, <3>1, <3>2, <3>3, <3>5, <4>1
    <3>6. QED
      BY <3>4, <3>5
  <2>3. QED
    BY <1>1, <2>1, <2>2 DEF Owes
<1>11. stack' # <<>>
  BY <1>4, <1>8
<1>12. QED
  BY <1>3, <1>9, <1>10, <1>11, Told DEF IInv

(* A step of the innermost emission that leaves its first loop as it is.     *)
LEMMA TopReplaced ==
  ASSUME IInv, stack # <<>>, NEW f \in Walking(always), f.first = Head(stack).first,
         stack' = <<f>> \o Tail(stack),
         UNCHANGED <<always, once, had, emits, uses, asked, served, stale>>
  PROVE  IInv'
<1> DEFINE S == Walking(always)
           e == Head(stack)
           t == Tail(stack)
<1>1. Lists /\ Walks /\ Owes
  BY DEF IInv
<1>2. Lists'
  BY <1>1 DEF Lists
<1>3. e \in S /\ t \in Seq(S) /\ stack = <<e>> \o t
  BY <1>1, TopAndRest DEF Walks
<1>4. f \in S /\ f.first = e.first /\ stack' = <<f>> \o t
  OBVIOUS
<1> HIDE DEF S, e, t
<1>5. stack' \in Seq(S) /\ Len(stack') = Len(t) + 1
  BY <1>3, <1>4, OnTop
<1>6. Walks'
  BY <1>5 DEF Walks, S
<1>7. ASSUME NEW g PROVE Waiting(stack', g) = Waiting(stack, g)
  <2>1. /\ Waiting(<<f>> \o t, g) = Waiting(t, g) + In(f.first, g)
        /\ Waiting(<<e>> \o t, g) = Waiting(t, g) + In(e.first, g)
    BY <1>3, <1>4, WaitingOnTop
  <2>2. QED
    BY <1>3, <1>4, <2>1
<1>8. Owes'
  BY <1>1, <1>7, OwesLess
<1>9. stack' # <<>>
  BY <1>3, <1>5
<1>10. QED
  BY <1>2, <1>6, <1>8, <1>9, Told DEF IInv

LEMMA CallAlwaysKeeps ==
  ASSUME IInv, CallAlways
  PROVE  IInv'
<1> DEFINE e == Head(stack)
           h == Walked(always, e)[e.next]
           f == [e EXCEPT !.calling = h, !.next = @ + 1, !.called[h] = @ + 1]
<1>1. /\ stack # <<>> /\ e.next <= Len(Walked(always, e))
      /\ stack' = <<f>> \o Tail(stack)
      /\ UNCHANGED <<always, once, had, emits, uses, asked, served, stale>>
  BY DEF CallAlways, Looping, Becomes, lists, counts,
         ArrayOf, Walked
<1>2. Lists /\ Walks
  BY DEF IInv
<1>3. e \in Walking(always)
  BY <1>1, <1>2, TopAndRest DEF Walks
<1>4. e \in Emission
  BY <1>2, <1>3, EmissionFacts DEF Lists
<1>5. f \in Walking(always)
  BY <1>1, <1>2, <1>3, NextHandlerCalled DEF Lists
<1>6. f.first = e.first
  BY <1>4 DEF Emission
<1> HIDE DEF f
<1>7. QED
  BY <1>1, <1>5, <1>6, TopReplaced

LEMMA HandlerReturnsKeeps ==
  ASSUME IInv, HandlerReturns
  PROVE  IInv'
<1> DEFINE e == Head(stack)
           f == [e EXCEPT !.calling = NoHandler]
<1>1. /\ stack # <<>> /\ stack' = <<f>> \o Tail(stack)
      /\ UNCHANGED <<always, once, had, emits, uses, asked, served, stale>>
  BY DEF HandlerReturns, Becomes, lists, counts
<1>2. Lists /\ Walks
  BY DEF IInv
<1>3. e \in Walking(always)
  BY <1>1, <1>2, TopAndRest DEF Walks
<1>4. e \in Emission
  BY <1>2, <1>3, EmissionFacts DEF Lists
<1>5. f \in Walking(always)
  BY <1>2, <1>3, HandlerDone DEF Lists
<1>6. f.first = e.first
  BY <1>4 DEF Emission
<1> HIDE DEF f
<1>7. QED
  BY <1>1, <1>5, <1>6, TopReplaced

(* An emission ends: it returns, or is cut short.                            *)
LEMMA EmissionEnds ==
  ASSUME IInv, stack # <<>>, stack' = Tail(stack), UNCHANGED <<always, once, asked, served>>
  PROVE  Walks' /\ Owes'
<1> DEFINE S == Walking(always)
           e == Head(stack)
           t == Tail(stack)
<1>1. Lists /\ Walks /\ Owes
  BY DEF IInv
<1>2. e \in S /\ t \in Seq(S) /\ stack = <<e>> \o t
  BY <1>1, TopAndRest DEF Walks
<1>3. Walks'
  BY <1>2 DEF Walks
<1> HIDE DEF S, e
<1>4. Owes'
  <2>1. /\ asked \in [Handlers -> Nat] /\ served \in [Handlers -> Nat]
    BY <1>1 DEF Owes
  <2>2. ASSUME NEW g \in Handlers
        PROVE  served'[g] + Pending(stack', once', g) <= asked'[g]
    <3>1. /\ Waiting(stack, g) = Waiting(t, g) + In(e.first, g)
          /\ Waiting(t, g) \in Nat /\ In(e.first, g) \in Nat /\ In(once, g) \in Nat
      <4>1. Waiting(<<e>> \o t, g) = Waiting(t, g) + In(e.first, g)
        BY <1>2, WaitingOnTop
      <4>2. Waiting(t, g) \in Nat
        BY <1>2, WaitingType
      <4>3. In(e.first, g) \in Nat /\ In(once, g) \in Nat
        BY DEF In
      <4>4. QED
        BY <1>2, <4>1, <4>2, <4>3
    <3>2. /\ Pending(stack, once, g) = Waiting(stack, g) + In(once, g)
          /\ Pending(stack', once', g) = Waiting(t, g) + In(once, g)
      BY PendingIs
    <3>3. served[g] + Pending(stack, once, g) <= asked[g]
      BY <1>1 DEF Owes
    <3>4. QED
      BY <2>1, <3>1, <3>2, <3>3
  <2>3. QED
    BY <2>1, <2>2 DEF Owes
<1>5. QED
  BY <1>3, <1>4

LEMMA EmissionEndsKeeps ==
  ASSUME IInv, HandlerThrows \/ EmitReturns
  PROVE  IInv'
<1>1. /\ stack # <<>> /\ stack' = Tail(stack)
      /\ UNCHANGED <<always, once, emits, uses, asked, served>>
      /\ Update \/ (stale' = TRUE /\ had' = had)
  BY DEF HandlerThrows, EmitReturns, lists, counts
<1>2. Lists
  BY DEF IInv
<1>3. had' \in BOOLEAN /\ stale' \in BOOLEAN
  BY <1>1, <1>2 DEF Lists, Update
<1>4. Lists'
  BY <1>1, <1>2, <1>3 DEF Lists
<1>5. Walks' /\ Owes'
  BY <1>1, EmissionEnds
<1>6. QED
  BY <1>1, <1>4, <1>5, Told DEF IInv

LEMMA StepKeeps == IInv /\ [Next]_vars => IInv'
<1> SUFFICES ASSUME IInv, [Next]_vars PROVE IInv'
  OBVIOUS
<1>1. CASE UNCHANGED vars
  <2>1. UNCHANGED <<always, once, had, stack, emits, uses, asked, served, stale>>
    BY <1>1 DEF vars, lists, counts
  <2>2. Lists' /\ Walks' /\ Owes' /\ Announced'
    BY <2>1 DEF IInv, Lists, Walks, Owes, Announced
  <2>3. QED
    BY <2>2 DEF IInv
<1>2. QED
  BY <1>1, OnKeeps, OnceKeeps, OffKeeps, RemoveAllListenersKeeps, EmitKeeps, CallOnceKeeps,
     CallAlwaysKeeps, HandlerReturnsKeeps, EmissionEndsKeeps DEF Next

LEMMA InitHolds == Init => IInv
<1> SUFFICES ASSUME Init PROVE IInv
  OBVIOUS
<1>1. /\ always = <<>> /\ once = <<>> /\ had = FALSE /\ stack = <<>>
      /\ emits = 0 /\ uses = 0 /\ stale = FALSE
      /\ asked = [h \in Handlers |-> 0] /\ served = [h \in Handlers |-> 0]
  BY DEF Init
<1>2. <<>> \in Seq(Handlers) /\ IsInjective(<<>>) /\ ToSet(<<>>) = {}
  BY DEF IsInjective, ToSet
<1>3. Lists
  <2>1. emits \in 0..MaxEmits /\ uses \in 0..MaxUses
    BY <1>1, BoundsAssumption
  <2>2. QED
    BY ONLY <1>1, <1>2, <2>1 DEF Lists
<1>4. Walks
  BY <1>1 DEF Walks
<1>5. Owes
  <2>1. \A h : Depths(<<>>, h) = {}
    BY DEF Depths
  <2>2. \A h : Pending(<<>>, <<>>, h) = 0
    BY <1>2, <2>1, FS_EmptySet DEF Pending
  <2>3. QED
    BY <1>1, <2>2 DEF Owes
<1>6. QED
  BY <1>1, <1>3, <1>4, <1>5 DEF IInv, Announced

(* Whatever handlers do while they are called, the arrays, the emissions in  *)
(* progress and the calls that are owed to once() stay in step.              *)
THEOREM Invariance == Spec => []IInv
<1>1. QED
  BY InitHolds, StepKeeps, PTL DEF Spec

(* A handler is called at most once for each time that once() took it, also  *)
(* when it registers itself again, emits or throws while it is called.       *)
THEOREM HandlersAreCalledOnce == Spec => []OnceIsOnce
<1>1. IInv => OnceIsOnce
  <2>1. SUFFICES ASSUME IInv, NEW h \in Handlers PROVE served[h] <= asked[h]
    BY DEF OnceIsOnce
  <2>2. Walks /\ Owes
    BY <2>1 DEF IInv
  <2>3. Waiting(stack, h) \in Nat /\ In(once, h) \in Nat
    BY <2>2, WaitingType DEF Walks, In
  <2>4. QED
    BY <2>2, <2>3, PendingIs DEF Owes
<1>2. QED
  BY <1>1, Invariance, PTL

(* An emission during which no registered handler is taken off calls each    *)
(* persistent handler exactly once, though the array grows or is replaced    *)
(* while the loop walks along it.                                            *)
THEOREM EmissionsAreExact == Spec => []UndisturbedIsExact
<1>1. IInv => UndisturbedIsExact
  <2>1. SUFFICES ASSUME IInv, NEW e \in ToSet(stack), e.gone = {}
                 PROVE  /\ \A h \in Handlers : e.called[h] <= 1
                        /\ Complete(e) => \A h \in e.began : e.called[h] = 1
    BY DEF UndisturbedIsExact
  <2>2. Lists /\ e \in Walking(always)
    BY <2>1, SequenceFacts DEF IInv, Walks
  <2> DEFINE w == Walked(always, e)
  <2>3. Exact(w, e) /\ e \in Emission /\ w \in Seq(Handlers)
    BY <2>1, <2>2, EmissionFacts DEF Lists, Walk
  <2>4. ArrayOf(e) = w
    BY DEF ArrayOf, Walked
  <2> HIDE DEF w
  <2>5. \A h \in Handlers : e.called[h] = 0 \/ e.called[h] = 1
    BY <2>3 DEF Exact
  <2>6. ASSUME Complete(e), NEW h \in e.began PROVE e.called[h] = 1
    <3>1. h \in Handlers /\ h \in ToSet(w)
      BY <2>3 DEF Exact, Emission
    <3>2. e.next > Len(w) /\ e.next \in 1..(Len(w) + 1)
      BY <2>3, <2>4, <2>6 DEF Complete, Exact
    <3>3. PICK i \in 1..Len(w) : w[i] = h
      BY <2>3, <3>1, SequenceFacts
    <3>4. Passed(w, e.next, h)
      BY <2>3, <3>2, <3>3 DEF Passed
    <3>5. QED
      BY <2>3, <3>1, <3>4 DEF Exact
  <2>7. QED
    BY <2>5, <2>6
<1>2. QED
  BY <1>1, Invariance, PTL

(* The producer knows whether it is listened to, unless the last that        *)
(* happened was an off() or an exception.                                    *)
THEOREM ProducersAreTold == Spec => []Announced
<1>1. IInv => Announced
  BY DEF IInv
<1>2. QED
  BY <1>1, Invariance, PTL

(* No handler is twice in an array: indexOf() guards each registration.      *)
THEOREM TypeCorrect == Spec => []TypeOK
<1>1. IInv => TypeOK
  <2>1. SUFFICES ASSUME IInv PROVE TypeOK
    OBVIOUS
  <2>2. Lists /\ Walks /\ Owes
    BY <2>1 DEF IInv
  <2>3. stack \in Seq(Emission)
    <3> DEFINE S == Walking(always)
               T == Emission
    <3>1. S \subseteq T /\ stack \in Seq(S)
      BY <2>2 DEF Walking, Walks
    <3> HIDE DEF S, T
    <3>2. stack \in Seq(T)
      BY <3>1
    <3>3. QED
      BY <3>2 DEF T
  <2>4. QED
    BY <2>2, <2>3 DEF Lists, Owes, TypeOK
<1>2. QED
  BY <1>1, Invariance, PTL
=============================================================================
