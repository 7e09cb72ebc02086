--------------------------- MODULE LoopBreak_proofs ---------------------------
(***************************************************************************)
(* Proofs about the two halves of the loop break.                          *)
(*                                                                         *)
(* The cache of deliveries: the list and the map of LRU agree at all times,*)
(* for every capacity and every set of keys, and Seen and Record answer as *)
(* the window of Recency does.                                             *)
(*                                                                         *)
(* The texts: a copy of any text, of any length, is recognised when it is  *)
(* announced, and holds the text; and a pull request moves only what it    *)
(* names.                                                                  *)
(***************************************************************************)
EXTENDS LRU, Texts, FiniteSetTheorems, SequenceTheorems, TLAPS

\* No two keys were last recorded by the same call.
Distinct == \A j, k \in Keys : last[j] = last[k] /\ last[j] # 0 => j = k

IInv == TypeOK /\ Coherent /\ Ordered /\ Distinct

\* The string of a key determines it.
LEMMA StringInjective ==
  ASSUME NEW j \in Keys, NEW k \in Keys, KeyString(j) = KeyString(k)
  PROVE  j = k
BY DEF Keys, KeyString

\* The capacity in use is positive whatever was asked for.
LEMMA CapPositive == cap \in Nat \ {0}
BY CapacityAssumption DEF cap

\* A function on 1..n into S is a sequence of length n.
LEMMA FunctionIsSeq ==
  ASSUME NEW S, NEW n \in Nat, NEW f \in [1..n -> S]
  PROVE  f \in Seq(S) /\ Len(f) = n /\ DOMAIN f = 1..n
<1>1. f \in Seq(S)
  BY SeqDef
<1>2. Len(f) \in Nat /\ DOMAIN f = 1..Len(f)
  BY <1>1, LenProperties
<1>3. DOMAIN f = 1..n
  OBVIOUS
<1>4. Len(f) = n
  BY <1>2, <1>3
<1> QED BY <1>1, <1>3, <1>4

\* What type correctness says of the list, place by place.
LEMMA ListFacts ==
  ASSUME TypeOK
  PROVE  /\ Len(ll) \in 0..cap /\ DOMAIN ll = 1..Len(ll)
         /\ ll \in [1..Len(ll) -> Elements]
         /\ \A i \in 1..Len(ll) : ll[i] \in Listed /\ ll[i] \in Elements
                                  /\ value[ll[i]] \in Keys
<1>1. Len(ll) \in Nat /\ DOMAIN ll = 1..Len(ll) /\ ll \in [1..Len(ll) -> Elements]
  BY LenProperties DEF TypeOK
<1> QED BY <1>1, CapPositive DEF TypeOK, Listed

\* The map holds the string of a key exactly if the list holds the key.
LEMMA MapFollowsList ==
  ASSUME TypeOK, Coherent, NEW k \in Keys
  PROVE  KeyString(k) \in DOMAIN idx <=> \E i \in 1..Len(ll) : value[ll[i]] = k
<1>1. DOMAIN idx = {KeyString(value[el]) : el \in Listed}
  BY DEF Coherent
<1>2. Listed = {ll[i] : i \in 1..Len(ll)}
  BY ListFacts DEF Listed
<1>3. ASSUME KeyString(k) \in DOMAIN idx
      PROVE  \E i \in 1..Len(ll) : value[ll[i]] = k
  <2>1. PICK i \in 1..Len(ll) : KeyString(k) = KeyString(value[ll[i]])
    BY <1>1, <1>2, <1>3
  <2>2. value[ll[i]] = k
    BY <2>1, ListFacts, StringInjective
  <2> QED BY <2>2
<1>4. ASSUME NEW i \in 1..Len(ll), value[ll[i]] = k
      PROVE  KeyString(k) \in DOMAIN idx
  BY <1>1, <1>2, <1>4
<1> QED BY <1>3, <1>4
-----------------------------------------------------------------------------
(***************************************************************************)
(* The list after a call of Record, key by key: the key recorded is in     *)
(* front, those that were before it move back by one, the rest stays; if it*)
(* was not there, all move back and the last leaves a full list.           *)
(***************************************************************************)

Moved(k, p) ==
  /\ Len(ll') >= 1 /\ value'[ll'[1]] = k
  /\ \A i \in 2..Len(ll') :
       value'[ll'[i]] = IF i <= p THEN value[ll[i - 1]] ELSE value[ll[i]]
  /\ \/ p \in 1..Len(ll) /\ value[ll[p]] = k /\ Len(ll') = Len(ll)
     \/ /\ p = Len(ll) + 1 /\ \A i \in 1..Len(ll) : value[ll[i]] # k
        /\ Len(ll') = IF Len(ll) < cap THEN Len(ll) + 1 ELSE cap

\* Recording a key that is listed moves it to the front and keeps map and list in step.
LEMMA RefreshSound ==
  ASSUME IInv, NEW k \in Keys, Refresh(k)
  PROVE  /\ ll' \in Seq(Elements) /\ Len(ll') <= cap
         /\ Listed' \subseteq DOMAIN value' /\ \A el \in DOMAIN value' : value'[el] \in Keys
         /\ DOMAIN idx' \subseteq Strings /\ \A s \in DOMAIN idx' : idx'[s] \in Elements
         /\ Coherent'
         /\ \E p \in 1..(Len(ll) + 1) : Moved(k, p)
<1>1. PICK el : el = idx[KeyString(k)]
  OBVIOUS
<1>2. el \in Listed /\ value[el] \in Keys /\ value[el] = k
  <2>1. el \in Listed /\ KeyString(value[el]) = KeyString(k)
    BY <1>1 DEF Refresh, IInv, Coherent
  <2>2. value[el] \in Keys
    BY <2>1 DEF IInv, TypeOK
  <2> QED BY <2>1, <2>2, StringInjective
<1>3. PICK p : p = CHOOSE i \in DOMAIN ll : ll[i] = el
  OBVIOUS
<1>4. p \in DOMAIN ll /\ ll[p] = el
  BY <1>2, <1>3 DEF Listed
<1>5. /\ Len(ll) \in Nat /\ Len(ll) <= cap /\ DOMAIN ll = 1..Len(ll)
      /\ \A i \in 1..Len(ll) : ll[i] \in Elements
  BY ListFacts, CapPositive DEF IInv
<1>6. ll' = [i \in 1..Len(ll) |-> IF i = 1 THEN el ELSE IF i <= p THEN ll[i - 1] ELSE ll[i]]
  BY <1>1, <1>3, <1>5 DEF Refresh, Bumped
<1>7. ll' \in [1..Len(ll) -> Elements]
  BY <1>4, <1>5, <1>6
<1>8. ll' \in Seq(Elements) /\ Len(ll') = Len(ll) /\ DOMAIN ll' = 1..Len(ll)
  BY <1>5, <1>7, FunctionIsSeq
<1>9. Listed' = Listed
  <2>1. ASSUME NEW i \in DOMAIN ll PROVE ll[i] \in Listed'
    <3>1. CASE i = p
      BY <1>4, <1>5, <1>6, <1>8, <3>1 DEF Listed
    <3>2. CASE i < p
      <4>1. i + 1 \in DOMAIN ll' /\ ll'[i + 1] = ll[i]
        BY <1>4, <1>5, <1>6, <1>8, <3>2
      <4> QED BY <4>1 DEF Listed
    <3>3. CASE i > p
      <4>1. i \in DOMAIN ll' /\ ll'[i] = ll[i]
        BY <1>4, <1>5, <1>6, <1>8, <3>3
      <4> QED BY <4>1 DEF Listed
    <3> QED BY <1>4, <1>5, <3>1, <3>2, <3>3
  <2>2. ASSUME NEW i \in DOMAIN ll' PROVE ll'[i] \in Listed
    BY <1>2, <1>4, <1>5, <1>6, <1>8 DEF Listed
  <2> QED BY <2>1, <2>2 DEF Listed
<1>10. Moved(k, p)
  <2>1. value' = value /\ Len(ll') = Len(ll) /\ p \in 1..Len(ll) /\ ll'[1] = el
    BY <1>4, <1>5, <1>6, <1>8 DEF Refresh
  <2>2. \A i \in 2..Len(ll) : ll'[i] = IF i <= p THEN ll[i - 1] ELSE ll[i]
    BY <1>5, <1>6
  <2>3. Len(ll') >= 1 /\ value'[ll'[1]] = k
    BY <1>2, <1>5, <2>1
  <2>4. \A i \in 2..Len(ll') :
          value'[ll'[i]] = IF i <= p THEN value[ll[i - 1]] ELSE value[ll[i]]
    BY <2>1, <2>2
  <2>5. value[ll[p]] = k
    BY <1>2, <1>4
  <2> QED BY <2>1, <2>3, <2>4, <2>5 DEF Moved
<1>11. \A i, j \in DOMAIN ll' : i # j => value'[ll'[i]] # value'[ll'[j]]
  <2> DEFINE Was(i) == IF i = 1 THEN p ELSE IF i <= p THEN i - 1 ELSE i
  <2>1. \A i \in 1..Len(ll) : Was(i) \in 1..Len(ll) /\ ll'[i] = ll[Was(i)]
    BY <1>4, <1>5, <1>6
  <2>2. \A i, j \in 1..Len(ll) : i # j => Was(i) # Was(j)
    BY <1>4, <1>5
  <2> HIDE DEF Was
  <2> QED BY <1>5, <1>8, <2>1, <2>2 DEF IInv, Coherent, Refresh
<1>12. Coherent'
  BY <1>9, <1>11 DEF IInv, Coherent, Refresh
<1> QED BY <1>4, <1>5, <1>8, <1>9, <1>10, <1>12 DEF IInv, TypeOK, Refresh

\* Recording a new key puts it in front, evicts one at most, and keeps map and list in step.
LEMMA InsertSound ==
  ASSUME IInv, NEW k \in Keys, Insert(k)
  PROVE  /\ ll' \in Seq(Elements) /\ Len(ll') <= cap
         /\ Listed' \subseteq DOMAIN value' /\ \A el \in DOMAIN value' : value'[el] \in Keys
         /\ DOMAIN idx' \subseteq Strings /\ \A s \in DOMAIN idx' : idx'[s] \in Elements
         /\ Coherent'
         /\ \E p \in 1..(Len(ll) + 1) : Moved(k, p)
<1> DEFINE n == Len(ll)
           m == IF n < cap THEN n + 1 ELSE cap
           ks == KeyString(k)
<1>1. PICK el \in Elements \ Listed :
        /\ value' = [e \in Listed \cup {el} |-> IF e = el THEN k ELSE value[e]]
        /\ ll' = Kept(Pushed(el))
        /\ idx' = [s \in (DOMAIN idx \cup {ks}) \ Unmapped(Pushed(el)) |->
                     IF s = ks THEN el ELSE idx[s]]
  BY DEF Insert
<1>2. /\ n \in 0..cap /\ DOMAIN ll = 1..n /\ cap \in Nat \ {0}
      /\ \A i \in 1..n : ll[i] \in Listed /\ ll[i] \in Elements /\ value[ll[i]] \in Keys
      /\ Listed = {ll[i] : i \in 1..n}
  BY ListFacts, CapPositive DEF IInv, Listed
<1>n. n \in Int /\ cap \in Int /\ 0 <= n /\ n <= cap /\ 1 <= cap
  BY <1>2
<1>3. m \in 1..cap /\ m - 1 <= n
  BY <1>2
<1>4. ll' = [i \in 1..m |-> IF i = 1 THEN el ELSE ll[i - 1]]
  <2>1. {j \in 1..(n + 1) : j <= cap} = 1..m
    BY <1>2
  <2> QED BY <1>1, <1>2, <2>1 DEF Kept, Pushed
<1>5. ll' \in Seq(Elements) /\ Len(ll') = m /\ DOMAIN ll' = 1..m
  <2>1. \A i \in 1..m : i = 1 \/ i - 1 \in 1..n
    BY <1>n, <1>3
  <2>2. ll' \in [1..m -> Elements]
    BY <1>2, <1>4, <2>1
  <2> QED BY <1>3, <2>2, FunctionIsSeq
<1>6. /\ value'[el] = k
      /\ \A i \in 1..n : value'[ll[i]] = value[ll[i]]
  BY <1>1, <1>2
<1>7. \A i \in 1..n : value[ll[i]] # k
  BY MapFollowsList DEF Insert, IInv
<1>8. Listed' = {el} \cup {ll[i] : i \in 1..(m - 1)}
  <2>1. Listed' = {ll'[i] : i \in 1..m}
    BY <1>5 DEF Listed
  <2>2. ASSUME NEW i \in 1..m PROVE ll'[i] \in {el} \cup {ll[j] : j \in 1..(m - 1)}
    <3>1. CASE i = 1
      BY <1>4, <3>1
    <3>2. CASE i # 1
      <4>1. i - 1 \in 1..(m - 1) /\ ll'[i] = ll[i - 1]
        BY <1>3, <1>4, <3>2
      <4> QED BY <4>1
    <3> QED BY <3>1, <3>2
  <2>3. el \in Listed'
    BY <1>3, <1>4, <2>1
  <2>4. ASSUME NEW j \in 1..(m - 1) PROVE ll[j] \in Listed'
    <3>1. j + 1 \in 1..m /\ ll'[j + 1] = ll[j]
      BY <1>3, <1>4
    <3> QED BY <2>1, <3>1
  <2> QED BY <2>1, <2>2, <2>3, <2>4
<1>9. Unmapped(Pushed(el)) = IF n < cap THEN {} ELSE {KeyString(value[ll[cap]])}
  <2>1. DOMAIN Pushed(el) = 1..(n + 1)
    BY DEF Pushed
  <2>2. CASE n < cap
    BY <1>2, <2>1, <2>2 DEF Unmapped
  <2>3. CASE ~(n < cap)
    <3>1. n = cap
      BY <1>n, <2>3
    <3>2. {j \in DOMAIN Pushed(el) : j > cap} = {cap + 1}
      BY <1>n, <2>1, <3>1
    <3>3. Pushed(el)[cap + 1] = ll[cap]
      BY <1>2, <3>1 DEF Pushed
    <3>4. value'[ll[cap]] = value[ll[cap]]
      <4>1. cap \in 1..n
        BY <1>n, <3>1
      <4> QED BY <1>6, <4>1
    <3> QED BY <2>3, <3>2, <3>3, <3>4 DEF Unmapped
  <2> QED BY <2>2, <2>3
<1>10. DOMAIN idx' = (DOMAIN idx \cup {ks}) \ Unmapped(Pushed(el))
  BY <1>1
<1>11. /\ DOMAIN idx = {KeyString(value[ll[i]]) : i \in 1..n}
       /\ \A s \in DOMAIN idx : idx[s] \in Listed /\ KeyString(value[idx[s]]) = s
       /\ \A i, j \in 1..n : i # j => value[ll[i]] # value[ll[j]]
  <2>1. DOMAIN idx = {KeyString(value[e]) : e \in Listed}
    BY DEF IInv, Coherent
  <2>2. DOMAIN idx = {KeyString(value[ll[i]]) : i \in 1..n}
    BY <1>2, <2>1
  <2> QED BY <1>2, <2>2 DEF IInv, Coherent
<1>12. \A i, j \in 1..n : i # j => KeyString(value[ll[i]]) # KeyString(value[ll[j]])
  BY <1>2, <1>11, StringInjective
<1>13. \A i \in 1..n : KeyString(value[ll[i]]) # ks
  BY <1>2, <1>7, StringInjective
<1>14. DOMAIN idx' = {ks} \cup {KeyString(value[ll[i]]) : i \in 1..(m - 1)}
  <2>1. CASE n < cap
    <3>1. m - 1 = n
      BY <1>2, <2>1
    <3> QED BY <1>9, <1>10, <1>11, <2>1, <3>1
  <2>2. CASE ~(n < cap)
    <3>1. n = cap /\ m - 1 = cap - 1
      BY <1>n, <2>2
    <3>2. Unmapped(Pushed(el)) = {KeyString(value[ll[cap]])}
      BY <1>9, <2>2
    <3>3. ks # KeyString(value[ll[cap]])
      <4>1. cap \in 1..n
        BY <1>n, <3>1
      <4> QED BY <1>13, <4>1
    <3>4. \A i \in 1..(cap - 1) : i \in 1..n /\ KeyString(value[ll[i]]) # KeyString(value[ll[cap]])
      <4>1. \A i \in 1..(cap - 1) : i \in 1..n /\ i # cap
        BY <1>n, <3>1
      <4>2. cap \in 1..n
        BY <1>n, <3>1
      <4> QED BY <1>12, <4>1, <4>2
    <3>5. \A i \in 1..n : i \in 1..(cap - 1) \/ i = cap
      BY <1>2, <3>1
    <3> HIDE DEF m, n, ks
    <3> QED BY <1>10, <1>11, <3>1, <3>2, <3>3, <3>4, <3>5
  <2> QED BY <2>1, <2>2
<1>15. \A s \in DOMAIN idx' : idx'[s] = IF s = ks THEN el ELSE idx[s]
  BY <1>1
<1>16. \A i \in 1..(m - 1) : i \in 1..n /\ idx[KeyString(value[ll[i]])] = ll[i]
  <2> SUFFICES ASSUME NEW i \in 1..(m - 1)
               PROVE  i \in 1..n /\ idx[KeyString(value[ll[i]])] = ll[i]
    OBVIOUS
  <2>1. i \in 1..n
    <3> HIDE DEF m, n
    <3> QED BY <1>n, <1>3
  <2>2. PICK j \in 1..n : idx[KeyString(value[ll[i]])] = ll[j]
    <3> HIDE DEF m, n
    <3>1. KeyString(value[ll[i]]) \in DOMAIN idx
      BY <1>11, <2>1
    <3>2. idx[KeyString(value[ll[i]])] \in Listed
      BY <1>11, <3>1
    <3> QED BY <1>2, <3>2
  <2>3. KeyString(value[ll[j]]) = KeyString(value[ll[i]])
    BY <1>11, <2>1, <2>2
  <2>4. j = i
    BY <1>12, <2>1, <2>3
  <2> QED BY <2>1, <2>2, <2>4
<1> HIDE DEF m, n, ks
<1>17. Coherent'
  <2>1. DOMAIN idx' = {KeyString(value'[e]) : e \in Listed'}
    BY <1>6, <1>8, <1>14, <1>16 DEF ks
  <2>2. \A s \in DOMAIN idx' : idx'[s] \in Listed' /\ KeyString(value'[idx'[s]]) = s
    <3>1. ASSUME NEW s \in DOMAIN idx', s = ks
          PROVE  idx'[s] \in Listed' /\ KeyString(value'[idx'[s]]) = s
      BY <1>6, <1>8, <1>15, <3>1 DEF ks
    <3>2. ASSUME NEW s \in DOMAIN idx', s # ks
          PROVE  idx'[s] \in Listed' /\ KeyString(value'[idx'[s]]) = s
      <4>1. PICK i \in 1..(m - 1) : s = KeyString(value[ll[i]])
        BY <1>14, <3>2
      <4>2. idx'[s] = ll[i] /\ ll[i] \in Listed'
        BY <1>8, <1>15, <1>16, <3>2, <4>1
      <4> QED BY <1>6, <1>16, <4>1, <4>2
    <3> QED BY <3>1, <3>2
  <2>3. \A i, j \in DOMAIN ll' : i # j => value'[ll'[i]] # value'[ll'[j]]
    <3>1. \A i \in 1..m : i # 1 =>
            i - 1 \in 1..n /\ ll'[i] = ll[i - 1] /\ value'[ll'[i]] = value[ll[i - 1]]
      BY <1>2, <1>3, <1>4, <1>6
    <3>2. ll'[1] = el
      BY <1>3, <1>4
    <3>3. \A i, j \in 1..m : i # 1 /\ j # 1 /\ i # j => value'[ll'[i]] # value'[ll'[j]]
      <4>1. \A i, j \in 1..m : i # j => i - 1 # j - 1
        BY <1>3
      <4> QED BY <1>11, <3>1, <4>1
    <3> QED BY <1>5, <1>6, <1>7, <3>1, <3>2, <3>3
  <2> QED BY <2>1, <2>2, <2>3 DEF Coherent
<1>18. Moved(k, n + 1)
  <2>1. Len(ll') >= 1 /\ value'[ll'[1]] = k
    BY <1>3, <1>4, <1>5, <1>6
  <2>2. \A i \in 2..m : i <= n + 1 /\ i - 1 \in 1..n /\ ll'[i] = ll[i - 1]
    BY <1>2, <1>3, <1>4
  <2>3. Len(ll') = IF n < cap THEN n + 1 ELSE cap
    BY <1>5 DEF m
  <2> QED BY <1>5, <1>6, <1>7, <2>1, <2>2, <2>3 DEF Moved, n
<1>19. /\ Listed' \subseteq DOMAIN value'
       /\ \A e \in DOMAIN value' : value'[e] \in Keys
  <2>1. DOMAIN value' = Listed \cup {el}
    BY <1>1
  <2>2. Listed' \subseteq Listed \cup {el}
    BY <1>2, <1>8, <1>16
  <2> QED BY <1>1, <2>1, <2>2 DEF IInv, TypeOK
<1>20. DOMAIN idx' \subseteq Strings /\ \A s \in DOMAIN idx' : idx'[s] \in Elements
  <2>1. \A s \in DOMAIN idx' : s = ks \/ s \in DOMAIN idx
    BY <1>10
  <2> QED BY <1>1, <1>15, <2>1 DEF IInv, TypeOK, Strings, ks
<1>21. n + 1 \in 1..(Len(ll) + 1)
  BY <1>2 DEF n
<1> QED BY <1>3, <1>5, <1>17, <1>18, <1>19, <1>20, <1>21
-----------------------------------------------------------------------------
(***************************************************************************)
(* Recency.                                                                *)
(***************************************************************************)

\* The order of the list survives a call of Record.
LEMMA OrderKept ==
  ASSUME IInv, NEW k \in Keys, NEW p \in 1..(Len(ll) + 1), Moved(k, p),
         ll' \in Seq(Elements),
         clock' = clock + 1, last' = [last EXCEPT ![k] = clock + 1]
  PROVE  Ordered' /\ Distinct'
<1> DEFINE n == Len(ll)
           m == Len(ll')
           K(i) == value[ll[i]]
           N(i) == value'[ll'[i]]
<1>1. /\ n \in Int /\ 0 <= n /\ n <= cap /\ cap \in Int /\ 1 <= cap /\ DOMAIN ll = 1..n
      /\ \A i \in 1..n : K(i) \in Keys
  BY ListFacts, CapPositive DEF IInv
<1>2. m \in Nat /\ DOMAIN ll' = 1..m
  BY LenProperties
<1>3. /\ clock \in Nat
      /\ \A j \in Keys : last[j] \in Nat /\ last[j] <= clock
      /\ \A j \in Keys : last'[j] = IF j = k THEN clock + 1 ELSE last[j]
  BY DEF IInv, TypeOK
<1>4. /\ \A i, j \in 1..n : i < j => last[K(i)] > last[K(j)]
      /\ \A i \in 1..n : last[K(i)] # 0
      /\ \A j \in Keys : last[j] # 0 /\ (\A i \in 1..n : K(i) # j) =>
           n = cap /\ \A i \in 1..n : last[K(i)] > last[j]
      /\ \A i, j \in 1..n : i # j => K(i) # K(j)
  BY <1>1 DEF IInv, Ordered, Coherent
<1>5. /\ m >= 1 /\ N(1) = k
      /\ \A i \in 2..m : N(i) = IF i <= p THEN K(i - 1) ELSE K(i)
      /\ \/ p \in 1..n /\ K(p) = k /\ m = n
         \/ p = n + 1 /\ (\A i \in 1..n : K(i) # k) /\ m = IF n < cap THEN n + 1 ELSE cap
  BY DEF Moved
<1>p. p \in Int /\ 1 <= p /\ p <= n + 1
  BY <1>1
<1> DEFINE Was(i) == IF i <= p THEN i - 1 ELSE i
<1> HIDE DEF n, m, K, N
<1>q. \/ p <= n /\ m = n
      \/ p = n + 1 /\ n < cap /\ m = n + 1
      \/ p = n + 1 /\ n = cap /\ m = cap
  BY <1>1, <1>5, <1>p
<1>6. \A i \in 2..m : Was(i) \in 1..n /\ Was(i) # p /\ N(i) = K(Was(i))
  <2>1. \A i \in 2..m : N(i) = K(Was(i))
    BY <1>5
  <2>2. \A i \in 2..m : Was(i) \in 1..n /\ Was(i) # p
    BY <1>1, <1>2, <1>p, <1>q
  <2> QED BY <2>1, <2>2
<1>7. \A i, j \in 2..m : i < j => Was(i) < Was(j)
  BY <1>1, <1>2, <1>p
<1>8. \A i \in 2..m : N(i) # k
  BY <1>4, <1>5, <1>6
<1>9. \A i \in 1..m : N(i) \in Keys
  BY <1>1, <1>2, <1>5, <1>6
<1>10. \A i \in 2..m : last'[N(i)] = last[K(Was(i))]
  BY <1>2, <1>3, <1>6, <1>8, <1>9
<1>11. last'[N(1)] = clock + 1
  BY <1>3, <1>5
<1>12. ASSUME NEW i \in 1..m, NEW j \in 1..m, i < j
       PROVE  last'[N(i)] > last'[N(j)]
  <2>1. j \in 2..m
    BY <1>2, <1>12
  <2>2. CASE i = 1
    <3>1. last[K(Was(j))] <= clock
      BY <1>1, <1>3, <1>6, <2>1
    <3>2. last[K(Was(j))] \in Nat
      BY <1>1, <1>3, <1>6, <2>1
    <3> HIDE DEF Was
    <3> QED BY <1>3, <1>10, <1>11, <2>1, <2>2, <3>1, <3>2
  <2>3. CASE i # 1
    <3>1. i \in 2..m
      BY <1>2, <2>3
    <3>2. Was(i) \in 1..n /\ Was(j) \in 1..n /\ Was(i) < Was(j)
      BY <1>6, <1>7, <1>12, <2>1, <3>1
    <3> HIDE DEF Was
    <3> QED BY <1>4, <1>10, <2>1, <3>1, <3>2
  <2> QED BY <2>2, <2>3
<1>13. ASSUME NEW i \in 1..m PROVE last'[N(i)] # 0
  <2>1. CASE i = 1
    BY <1>3, <1>11, <2>1
  <2>2. CASE i # 1
    <3>1. i \in 2..m
      BY <1>2, <2>2
    <3> HIDE DEF Was
    <3> QED BY <1>4, <1>6, <1>10, <3>1
  <2> QED BY <2>1, <2>2
<1>14. ASSUME NEW j \in Keys, last'[j] # 0, \A i \in 1..m : N(i) # j
       PROVE  m = cap /\ \A i \in 1..m : last'[N(i)] > last'[j]
  <2>1. j # k /\ last'[j] = last[j] /\ last[j] # 0
    BY <1>2, <1>3, <1>5, <1>14
  <2>2. CASE \E i \in 1..n : K(i) = j
    <3>1. PICK i \in 1..n : K(i) = j
      BY <2>2
    <3>2. i # p
      BY <1>5, <2>1, <3>1 DEF n
    <3>3. CASE i > p
      <4>1. i \in 2..m /\ Was(i) = i
        BY <1>1, <1>2, <1>p, <1>q, <3>3
      <4>2. N(i) = j
        BY <1>6, <3>1, <4>1
      <4> QED BY <1>2, <1>14, <4>1, <4>2
    <3>4. CASE i < p /\ i < m
      <4>1. i + 1 \in 2..m /\ Was(i + 1) = i
        BY <1>1, <1>2, <1>p, <3>4
      <4>2. N(i + 1) = j
        BY <1>6, <3>1, <4>1
      <4> QED BY <1>2, <1>14, <4>1, <4>2
    <3>5. CASE i < p /\ ~(i < m)
      <4>1. i = n /\ n = cap /\ m = cap /\ p = n + 1
        BY <1>1, <1>2, <1>p, <1>q, <3>5
      <4>2. ASSUME NEW h \in 2..m PROVE Was(h) \in 1..n /\ Was(h) < i
        BY <1>1, <1>2, <4>1, <4>2
      <4>3. \A h \in 2..m : last'[N(h)] > last'[j]
        <5> HIDE DEF Was
        <5> QED BY <1>4, <1>10, <2>1, <3>1, <4>1, <4>2
      <4>4. last'[N(1)] > last'[j]
        BY <1>3, <1>11, <2>1
      <4> QED BY <1>2, <4>1, <4>3, <4>4
    <3> QED BY <1>1, <1>p, <3>2, <3>3, <3>4, <3>5
  <2>3. CASE \A i \in 1..n : K(i) # j
    <3>1. n = cap /\ \A i \in 1..n : last[K(i)] > last[j]
      BY <1>4, <2>1, <2>3
    <3>2. m = cap
      BY <1>1, <1>5, <3>1
    <3>3. \A i \in 2..m : last'[N(i)] > last'[j]
      <4> HIDE DEF Was
      <4> QED BY <1>6, <1>10, <2>1, <3>1
    <3>4. last'[N(1)] > last'[j]
      BY <1>3, <1>11, <2>1
    <3> QED BY <1>2, <3>2, <3>3, <3>4
  <2> QED BY <2>2, <2>3
<1>15. Ordered'
  BY <1>2, <1>12, <1>13, <1>14 DEF Ordered, N, m
<1>16. Distinct'
  BY <1>3 DEF IInv, Distinct
<1> QED BY <1>15, <1>16

\* The calls tell the keys recorded apart, so only finitely many are newer.
LEMMA NewerFinite ==
  ASSUME IInv, NEW k \in Keys
  PROVE  IsFiniteSet(Promise!Newer(k))
<1>1. PICK f : f = [j \in Promise!Newer(k) |-> last[j]]
  OBVIOUS
<1>2. clock \in Nat /\ \A j \in Keys : last[j] \in 0..clock
  BY DEF IInv, TypeOK
<1>3. \A j \in Promise!Newer(k) : j \in Keys /\ last[j] \in 1..clock
  BY <1>2 DEF Promise!Newer
<1>4. f \in Injection(Promise!Newer(k), 1..clock)
  <2>1. f \in [Promise!Newer(k) -> 1..clock]
    BY <1>1, <1>3
  <2>2. \A i, j \in Promise!Newer(k) : f[i] = f[j] => i = j
    BY <1>1, <1>2, <1>3 DEF IInv, Distinct
  <2> QED BY <2>1, <2>2 DEF Injection, IsInjective
<1>5. IsFiniteSet(1..clock)
  BY <1>2, FS_Interval
<1> QED BY <1>4, <1>5, FS_Injection

\* The instance's own copy of the operator.
LEMMA SameCardinality ==
  ASSUME NEW S
  PROVE  Promise!Cardinality(S) = Cardinality(S)
BY DEF Promise!Cardinality, Cardinality

\* The list holds a key exactly if fewer than cap keys are newer.
LEMMA ListIsWindow ==
  ASSUME IInv, NEW k \in Keys
  PROVE  KeyString(k) \in DOMAIN idx <=> Promise!Recent(k)
<1> DEFINE n == Len(ll)
           K(i) == value[ll[i]]
           newer == Promise!Newer(k)
<1>1. /\ n \in Nat /\ n <= cap /\ cap \in Nat /\ 1 <= cap /\ DOMAIN ll = 1..n
      /\ \A i \in 1..n : K(i) \in Keys
  BY ListFacts, CapPositive DEF IInv
<1>2. /\ \A i, j \in 1..n : i < j => last[K(i)] > last[K(j)]
      /\ \A i \in 1..n : last[K(i)] # 0
      /\ \A j \in Keys : last[j] # 0 /\ (\A i \in 1..n : K(i) # j) =>
           n = cap /\ \A i \in 1..n : last[K(i)] > last[j]
      /\ \A i, j \in 1..n : i # j => K(i) # K(j)
  BY <1>1 DEF IInv, Ordered, Coherent
<1>3. /\ \A j \in newer : j \in Keys /\ last[j] > last[k]
      /\ \A j \in Keys : last[j] > last[k] => j \in newer
  BY DEF Promise!Newer
<1>4. \A j \in Keys : last[j] \in Nat
  BY DEF IInv, TypeOK
<1>5. KeyString(k) \in DOMAIN idx <=> \E i \in 1..n : K(i) = k
  BY MapFollowsList DEF IInv
<1>6. Promise!Recent(k) <=> last[k] # 0 /\ Cardinality(newer) < cap
  <2>1. Promise!Window = cap
    BY DEF Promise!Window, cap
  <2>2. Promise!Cardinality(newer) = Cardinality(newer)
    BY SameCardinality
  <2> QED BY <2>1, <2>2 DEF Promise!Recent
<1>7. IsFiniteSet(newer) /\ Cardinality(newer) \in Nat
  BY NewerFinite, FS_CardinalityType
<1> HIDE DEF n, K, newer
<1>8. ASSUME NEW i \in 1..n, K(i) = k
      PROVE  last[k] # 0 /\ Cardinality(newer) < cap
  <2>1. PICK f : f = [j \in 1..(i - 1) |-> K(j)]
    OBVIOUS
  <2>2. \A j \in 1..(i - 1) : j \in 1..n /\ j < i
    BY <1>1
  <2>3. \A j \in 1..(i - 1) : K(j) \in newer
    BY <1>1, <1>2, <1>3, <1>8, <2>2
  <2>4. \A x \in newer : \E j \in 1..(i - 1) : K(j) = x
    <3> SUFFICES ASSUME NEW x \in newer PROVE \E j \in 1..(i - 1) : K(j) = x
      OBVIOUS
    <3>1. x \in Keys /\ last[x] > last[k] /\ last[x] # 0
      BY <1>3, <1>4
    <3>2. PICK j \in 1..n : K(j) = x
      BY <1>2, <1>4, <1>8, <3>1
    <3>3. j < i
      <4>1. j # i
        BY <1>4, <1>8, <3>1, <3>2
      <4>2. ~(i < j)
        BY <1>2, <1>4, <1>8, <3>1, <3>2
      <4> QED BY <1>1, <4>1, <4>2
    <3>4. j \in 1..(i - 1)
      BY <1>1, <3>3
    <3> QED BY <3>2, <3>4
  <2>5. f \in Surjection(1..(i - 1), newer)
    <3>1. f \in [1..(i - 1) -> newer]
      BY <2>1, <2>3
    <3>2. \A x \in newer : \E j \in 1..(i - 1) : f[j] = x
      BY <2>1, <2>4
    <3> QED BY <3>1, <3>2 DEF Surjection
  <2>6. i - 1 \in Nat /\ i - 1 < cap
    BY <1>1
  <2>7. Cardinality(newer) <= i - 1
    BY <2>5, <2>6, FS_SurjCardinalityBound DEF ExistsSurjection
  <2>8. Cardinality(newer) < cap
    BY <1>1, <1>7, <2>6, <2>7
  <2> QED BY <1>2, <1>8, <2>8
<1>9. ASSUME \A i \in 1..n : K(i) # k, last[k] # 0
      PROVE  ~(Cardinality(newer) < cap)
  <2>1. n = cap /\ \A i \in 1..n : last[K(i)] > last[k]
    BY <1>2, <1>9
  <2>2. PICK f : f = [j \in 1..n |-> K(j)]
    OBVIOUS
  <2>3. f \in Injection(1..n, newer)
    <3>1. f \in [1..n -> newer]
      BY <1>1, <1>3, <2>1, <2>2
    <3>2. \A i, j \in 1..n : f[i] = f[j] => i = j
      BY <1>2, <2>2
    <3> QED BY <3>1, <3>2 DEF Injection, IsInjective
  <2>4. Cardinality(1..n) <= Cardinality(newer)
    BY <1>7, <2>3, FS_Injection
  <2>5. Cardinality(1..n) = n
    <3>1. Cardinality(1..n) = IF 1 > n THEN 0 ELSE n - 1 + 1
      BY <1>1, FS_Interval
    <3> QED BY <1>1, <3>1
  <2> QED BY <1>1, <1>7, <2>1, <2>4, <2>5
<1> QED BY <1>5, <1>6, <1>8, <1>9
-----------------------------------------------------------------------------
(***************************************************************************)
(* The theorems.                                                           *)
(***************************************************************************)

\* The empty cache satisfies the invariant.
LEMMA InitSound ==
  ASSUME Init
  PROVE  IInv
<1>1. ll = <<>> /\ value = <<>> /\ idx = <<>> /\ clock = 0 /\ last = [k \in Keys |-> 0]
  BY DEF Init
<1>2. ll \in Seq(Elements) /\ Len(ll) = 0 /\ DOMAIN ll = {} /\ DOMAIN idx = {}
      /\ DOMAIN value = {}
  BY <1>1, EmptySeq
<1>3. Listed = {}
  BY <1>2 DEF Listed
<1>4. TypeOK
  BY <1>1, <1>2, <1>3, CapPositive, BoundAssumption DEF TypeOK
<1>5. Coherent
  BY <1>2, <1>3 DEF Coherent
<1>6. Ordered
  BY <1>1, <1>2 DEF Ordered
<1>7. Distinct
  BY <1>1 DEF Distinct
<1> QED BY <1>4, <1>5, <1>6, <1>7 DEF IInv

\* Recording keeps the invariant, whether the key is listed or not.
LEMMA RecordSound ==
  ASSUME IInv, NEW k \in Keys, Record(k)
  PROVE  IInv'
<1>1. /\ ll' \in Seq(Elements) /\ Len(ll') <= cap
      /\ Listed' \subseteq DOMAIN value' /\ \A el \in DOMAIN value' : value'[el] \in Keys
      /\ DOMAIN idx' \subseteq Strings /\ \A s \in DOMAIN idx' : idx'[s] \in Elements
      /\ Coherent'
      /\ \E p \in 1..(Len(ll) + 1) : Moved(k, p)
  BY RefreshSound, InsertSound DEF Record
<1>2. /\ clock' = clock + 1 /\ last' = [last EXCEPT ![k] = clock + 1]
      /\ clock \in 0..MaxRecords /\ clock < MaxRecords /\ last \in [Keys -> 0..clock]
  BY DEF Record, IInv, TypeOK
<1>3. Ordered' /\ Distinct'
  BY <1>1, <1>2, OrderKept
<1>4. clock' \in 0..MaxRecords /\ last' \in [Keys -> 0..clock']
  BY <1>2, BoundAssumption
<1> QED BY <1>1, <1>3, <1>4 DEF IInv, TypeOK

\* The invariant is inductive.
LEMMA NextSound ==
  ASSUME IInv, [Next]_vars
  PROVE  IInv'
<1>1. CASE UNCHANGED <<ll, value, idx, last, clock>>
  <2>1. Listed' = Listed
    BY <1>1 DEF Listed
  <2>2. TypeOK'
    BY <1>1, <2>1 DEF IInv, TypeOK
  <2>3. Coherent'
    BY <1>1, <2>1 DEF IInv, Coherent
  <2>4. Ordered' /\ Distinct'
    BY <1>1 DEF IInv, Ordered, Distinct
  <2> QED BY <2>2, <2>3, <2>4 DEF IInv
<1>2. ASSUME NEW k \in Keys, Record(k) PROVE IInv'
  BY <1>2, RecordSound
<1> QED BY <1>1, <1>2 DEF Next, Seen, vars

\* A call answers, and changes what is recent, as the window does.
LEMMA StepRefines ==
  ASSUME IInv, [Next]_vars
  PROVE  [Promise!RecencyNext]_<<last, clock, answer>>
<1>1. ASSUME NEW k \in Keys, Seen(k)
      PROVE  Promise!Looked(k)
  <2>1. (KeyString(k) \in DOMAIN idx) = Promise!Recent(k)
    BY ListIsWindow DEF Promise!Recent
  <2>2. answer' = [op |-> "seen", key |-> k, result |-> KeyString(k) \in DOMAIN idx]
    BY <1>1 DEF Seen, Returns
  <2>3. UNCHANGED <<last, clock>>
    BY <1>1 DEF Seen
  <2> QED BY <2>1, <2>2, <2>3 DEF Promise!Looked
<1>2. ASSUME NEW k \in Keys, Record(k)
      PROVE  Promise!Recorded(k)
  <2>1. answer' = [op |-> "record", key |-> k, result |-> ~Promise!Recent(k)]
    <3>1. CASE Refresh(k)
      BY <3>1, ListIsWindow DEF Refresh, Returns
    <3>2. CASE Insert(k)
      BY <3>2, ListIsWindow DEF Insert, Returns
    <3> QED BY <1>2, <3>1, <3>2 DEF Record
  <2> QED BY <1>2, <2>1 DEF Record, Promise!Recorded
<1>3. CASE UNCHANGED vars
  BY <1>3 DEF vars
<1>4. ASSUME NEW k \in Keys, Seen(k) \/ Record(k)
      PROVE  Promise!RecencyNext
  BY <1>1, <1>2, <1>4 DEF Promise!RecencyNext
<1> QED BY <1>3, <1>4 DEF Next

\* The inductive invariant of the cache.
THEOREM AlwaysIInv == Spec => []IInv
<1>1. Init => IInv
  BY InitSound
<1>2. IInv /\ [Next]_vars => IInv'
  BY NextSound
<1> QED BY <1>1, <1>2, PTL DEF Spec

\* The list never grows beyond the capacity, and all state keeps its type.
THEOREM Bounded == Spec => []TypeOK
<1>1. IInv => TypeOK
  BY DEF IInv
<1> QED BY <1>1, AlwaysIInv, PTL

\* List and map of the cache always agree: eviction leaks nothing.
THEOREM MapAndListAgree == Spec => []Coherent
<1>1. IInv => Coherent
  BY DEF IInv
<1> QED BY <1>1, AlwaysIInv, PTL

\* Eviction never takes a key while an older one stays.
THEOREM OldestLeavesFirst == Spec => []Ordered
<1>1. IInv => Ordered
  BY DEF IInv
<1> QED BY <1>1, AlwaysIInv, PTL

\* Seen and Record answer as the window over the most recent keys does: a key is
\* seen exactly if it is one of the last cap distinct keys recorded.
THEOREM LRUKeepsPromise == Spec => PromiseSpec
<1>1. Init => Promise!RecencyInit
  BY DEF Init, Promise!RecencyInit
<1>2. IInv /\ [Next]_vars => [Promise!RecencyNext]_<<last, clock, answer>>
  BY StepRefines
<1> QED BY <1>1, <1>2, AlwaysIInv, PTL DEF Spec, PromiseSpec, Promise!RecencySpec
-----------------------------------------------------------------------------
(***************************************************************************)
(* The library's search for the first or the last of a sequence.           *)
(***************************************************************************)

\* Naturals are well-ordered.
LEMMA Least ==
  ASSUME NEW T \in SUBSET Nat, T # {}
  PROVE  \E x \in T : \A y \in T : x <= y
  <1>1. PICK x \in T : \A y \in T : ~(<<y, x>> \in OpToRel(<, Nat))
    BY NatLessThanWellFounded, WFMin
  <1>2. \A y \in T : ~(y < x)
    BY <1>1 DEF OpToRel
  <1> QED BY <1>2

\* The least and the greatest of numbers up to N.
LEMMA Extremes ==
  ASSUME NEW N \in Nat, NEW T \in SUBSET (1..N), T # {}
  PROVE  /\ Min(T) \in T /\ \A y \in T : Min(T) <= y
         /\ Max(T) \in T /\ \A y \in T : y <= Max(T)
  <1>1. \E x \in T : \A y \in T : x <= y
    <2>1. T \in SUBSET Nat
      OBVIOUS
    <2> QED BY <2>1, Least
  <1>2. \E x \in T : \A y \in T : x >= y
    <2> DEFINE M == {N - y : y \in T}
    <2>1. M \in SUBSET Nat /\ M # {}
      <3>1. \A y \in T : N - y \in Nat
        OBVIOUS
      <3> QED BY <3>1
    <2>2. PICK m \in M : \A k \in M : m <= k
      BY <2>1, Least
    <2>3. PICK x \in T : m = N - x
      BY <2>2
    <2>4. \A y \in T : N - x <= N - y
      BY <2>2, <2>3
    <2> QED BY <2>3, <2>4
  <1>3. T \subseteq Int
    OBVIOUS
  <1>4. Min(T) \in T /\ \A y \in T : Min(T) <= y
    BY <1>1 DEF Min
  <1>5. Max(T) \in T /\ \A y \in T : Max(T) >= y
    BY <1>2 DEF Max
  <1>6. \A y \in T : y <= Max(T)
    BY <1>3, <1>5
  <1> QED BY <1>4, <1>5, <1>6

-----------------------------------------------------------------------------
(***************************************************************************)
(* The marker.                                                             *)
(***************************************************************************)

\* What a copy is made of: what users type, and the lines of the preface.
Token == Typed \cup {Quoted}

\* The last token of s that is not white space is its n-th; it has none if n is 0.
Ends(s, n) ==
  /\ n \in 0..Len(s) /\ (n # 0 => s[n] \notin White)
  /\ \A i \in (n + 1)..Len(s) : s[i] \in White

\* What c keeps of a text u that it was made from for a delivery: all up to its last
\* word, and below it only markers and white space, of which the last is the
\* delivery's if there is a marker for it.
Frames(u, c, src, id) ==
  \E n \in 0..Len(u), e \in 0..Len(c) :
    /\ Ends(u, n) /\ Ends(c, e) /\ n <= e
    /\ \A i \in 1..n : c[i] = u[i]
    /\ \A i \in (n + 1)..Len(c) : c[i] \in White \cup {PlaneRefMarker, Stamp(src, id)}
    /\ IF id \in ValidIDs THEN n < e /\ c[e] = Stamp(src, id)
       ELSE e = 0 \/ c[e].is # "marker"

\* What was copied: the preface, if there is one, and the text.
Original == (IF copied.mapped THEN <<>> ELSE Preface) \o text

TextsTypeOK ==
  /\ text \in Seq(Typed) /\ copy \in Seq(Token)
  /\ copied \in {Nothing, [as |-> "dismissed"]}
                  \cup [as : {"item", "comment", "issue", "stored"}, src : {"forge", "plane"},
                        id : ValidIDs \cup OtherIDs, mapped : BOOLEAN]

TextsInv == TextsTypeOK /\ (Copied => Frames(Original, copy, copied.src, copied.id))

\* The kinds of tokens.
LEMMA Tokens ==
  /\ \A t \in White : t \in Token /\ t.is # "marker"
  /\ PlaneRefMarker \in Typed /\ PlaneRefMarker \notin White /\ PlaneRefMarker.is # "marker"
  /\ Quoted \in Token /\ Quoted \notin White /\ Quoted.is # "marker"
  /\ NewLine \in White /\ Typed \subseteq Token
  /\ \A src \in {"forge", "plane"} : \A id \in ValidIDs : Stamp(src, id) \in Typed
  /\ \A src, id : Stamp(src, id) \notin White /\ Stamp(src, id).is = "marker"
                  /\ Stamp(src, id) # NoMarker
<1>1. /\ \A src, id : Stamp(src, id).is = "marker"
      /\ Blank.is = "blank" /\ NewLine.is = "newline" /\ Quoted.is = "quoted"
      /\ PlaneRefMarker.is = "plane_ref" /\ NoMarker.is = "none"
  BY DEF Blank, NewLine, Quoted, PlaneRefMarker, Stamp, NoMarker
<1>2. White \subseteq Typed /\ PlaneRefMarker \in Typed /\ NewLine \in White
  BY DEF Typed, White
<1>3. Typed \subseteq Token /\ Quoted \in Token
  BY DEF Token
<1>4. \A src \in {"forge", "plane"} : \A id \in ValidIDs : Stamp(src, id) \in Typed
  BY DEF Typed
<1>5. \A t \in White : t.is \in {"blank", "newline"}
  BY <1>1 DEF White
<1> QED BY <1>1, <1>2, <1>3, <1>4, <1>5

LEMMA EndsExists ==
  ASSUME NEW T, NEW s \in Seq(T)
  PROVE  \E n \in 0..Len(s) : Ends(s, n) /\ Trimmed(s) = SubSeq(s, 1, n)
<1> DEFINE I == {i \in 1..Len(s) : s[i] \notin White}
<1>1. Trimmed(s) = SubSeq(s, 1, IF I # {} THEN Max(I) ELSE 0)
  BY DEF Trimmed, SelectLastInSeq
<1>2. Len(s) \in Nat
  BY LenProperties
<1>3. CASE I = {}
  <2>1. Ends(s, 0)
    BY <1>2, <1>3 DEF Ends
  <2> QED BY <1>1, <1>2, <1>3, <2>1
<1>4. CASE I # {}
  <2>1. I \in SUBSET (1..Len(s))
    OBVIOUS
  <2>2. Max(I) \in I /\ \A i \in I : i <= Max(I)
    BY <1>2, <1>4, <2>1, Extremes
  <2>3. \A i \in (Max(I) + 1)..Len(s) : i \in 1..Len(s) /\ ~(i <= Max(I))
    BY <1>2, <2>2
  <2>4. Ends(s, Max(I)) /\ Max(I) \in 0..Len(s)
    BY <1>2, <2>2, <2>3 DEF Ends
  <2>5. Trimmed(s) = SubSeq(s, 1, Max(I))
    BY <1>1, <1>4
  <2> HIDE DEF I
  <2> QED BY <2>4, <2>5
<1> QED BY <1>3, <1>4

LEMMA EndsUnique ==
  ASSUME NEW T, NEW s \in Seq(T), NEW n, NEW m, Ends(s, n), Ends(s, m)
  PROVE  n = m
<1>1. Len(s) \in Nat
  BY LenProperties
<1>2. ~(n < m) /\ ~(m < n)
  BY <1>1 DEF Ends
<1> QED BY <1>1, <1>2 DEF Ends

\* The beginning of a sequence.
LEMMA Beginning ==
  ASSUME NEW T, NEW s \in Seq(T), NEW n \in 0..Len(s)
  PROVE  /\ SubSeq(s, 1, n) \in Seq(T) /\ Len(SubSeq(s, 1, n)) = n
         /\ \A i \in 1..n : SubSeq(s, 1, n)[i] = s[i]
<1>1. Len(s) \in Nat /\ n \in Nat
  BY LenProperties
<1>2. \A i \in 1..n : s[i] \in T
  BY <1>1, ElementOfSeq
<1>3. n - 1 + 1 = n /\ \A i \in Int : 1 + i - 1 = i
  BY <1>1
<1> QED BY <1>1, <1>2, <1>3, SubSeqProperties

\* Trimmed is the text up to its last word.
LEMMA TrimmedIs ==
  ASSUME NEW T, NEW s \in Seq(T), NEW n, Ends(s, n)
  PROVE  Trimmed(s) = SubSeq(s, 1, n)
BY EndsExists, EndsUnique

\* Extract finds the last word, if that is a marker.
LEMMA ExtractIs ==
  ASSUME NEW T, NEW s \in Seq(T), NEW n, Ends(s, n)
  PROVE  Extract(s) = IF n # 0 /\ s[n].is = "marker" THEN s[n] ELSE NoMarker
<1>1. n \in 0..Len(s)
  BY DEF Ends
<1>2. /\ Trimmed(s) = SubSeq(s, 1, n) /\ Len(SubSeq(s, 1, n)) = n
      /\ SubSeq(s, 1, n) \in Seq(T)
      /\ \A i \in 1..n : SubSeq(s, 1, n)[i] = s[i]
  BY <1>1, TrimmedIs, Beginning
<1>3. CASE n = 0
  <2>1. Trimmed(s) = <<>>
    BY <1>2, <1>3, EmptySeq
  <2> QED BY <1>3, <2>1 DEF Extract
<1>4. CASE n # 0
  <2>1. Trimmed(s) # <<>>
    BY <1>2, <1>4, EmptySeq
  <2>2. Len(s) \in Nat
    BY LenProperties
  <2>3. Last(Trimmed(s)) = s[n]
    BY <1>1, <1>2, <1>4, <2>2 DEF Last
  <2> QED BY <1>4, <2>1, <2>3 DEF Extract
<1> QED BY <1>3, <1>4

\* Strip takes off a marker and the white space around it.
LEMMA StripIs ==
  ASSUME NEW T, NEW s \in Seq(T), NEW n, Ends(s, n), Extract(s) # NoMarker
  PROVE  \E m \in 0..(n - 1) :
           /\ Strip(s) = SubSeq(s, 1, m)
           /\ \A i \in (m + 1)..(n - 1) : s[i] \in White
<1>1. n \in 1..Len(s) /\ Len(s) \in Nat
  BY ExtractIs, LenProperties DEF Ends
<1> DEFINE t == SubSeq(s, 1, n)
           f == SubSeq(s, 1, n - 1)
<1>2. /\ Trimmed(s) = t /\ t \in Seq(T) /\ Len(t) = n
      /\ \A i \in 1..n : t[i] = s[i]
  BY <1>1, TrimmedIs, Beginning
<1>3. /\ f \in Seq(T) /\ Len(f) = n - 1
      /\ \A i \in 1..(n - 1) : f[i] = s[i]
  <2>1. n - 1 \in 0..Len(s)
    BY <1>1
  <2> QED BY <2>1, Beginning
<1>4. Front(t) = f
  <2>1. Front(t) = SubSeq(t, 1, n - 1)
    BY <1>2 DEF Front
  <2>2. n - 1 \in 0..Len(t)
    BY <1>1, <1>2
  <2>3. /\ SubSeq(t, 1, n - 1) \in Seq(T) /\ Len(SubSeq(t, 1, n - 1)) = n - 1
        /\ \A i \in 1..(n - 1) : SubSeq(t, 1, n - 1)[i] = t[i]
    BY <1>2, <2>2, Beginning
  <2>4. \A i \in 1..(n - 1) : t[i] = f[i]
    BY <1>1, <1>2, <1>3
  <2> HIDE DEF t, f
  <2> QED BY <1>3, <2>1, <2>3, <2>4, SeqEqual
<1>5. PICK m \in 0..Len(f) : Ends(f, m) /\ Trimmed(f) = SubSeq(f, 1, m)
  BY <1>3, EndsExists
<1>6. m \in 0..(n - 1) /\ m \in 0..Len(s)
  BY <1>1, <1>3, <1>5
<1>7. SubSeq(f, 1, m) = SubSeq(s, 1, m)
  <2>1. /\ SubSeq(f, 1, m) \in Seq(T) /\ Len(SubSeq(f, 1, m)) = m
        /\ \A i \in 1..m : SubSeq(f, 1, m)[i] = f[i]
    BY <1>3, <1>5, Beginning
  <2>2. /\ SubSeq(s, 1, m) \in Seq(T) /\ Len(SubSeq(s, 1, m)) = m
        /\ \A i \in 1..m : SubSeq(s, 1, m)[i] = s[i]
    BY <1>6, Beginning
  <2>3. \A i \in 1..m : f[i] = s[i]
    BY <1>1, <1>3, <1>6
  <2> HIDE DEF f
  <2> QED BY <2>1, <2>2, <2>3, SeqEqual
<1>8. \A i \in (m + 1)..(n - 1) : s[i] \in White
  BY <1>1, <1>3, <1>5, <1>6 DEF Ends
<1>9. Strip(s) = SubSeq(s, 1, m)
  BY <1>2, <1>4, <1>5, <1>7 DEF Strip
<1> QED BY <1>6, <1>8, <1>9

\* The gap between a text and a marker is white.
LEMMA Gaps ==
  ASSUME NEW s
  PROVE  /\ Gap(s) \in Seq(White) /\ Gap(s) \in Seq(Token) /\ Len(Gap(s)) \in Nat
         /\ \A i \in 1..Len(Gap(s)) : Gap(s)[i] \in White
<1>1. NewLine \in White
  BY Tokens
<1>2. Gap(s) \in Seq(White)
  BY <1>1 DEF Gap
<1>3. White \subseteq Token
  BY Tokens
<1>4. Gap(s) \in Seq(Token)
  BY <1>2, <1>3, SeqMonotonic
<1>5. Len(Gap(s)) \in Nat /\ \A i \in 1..Len(Gap(s)) : Gap(s)[i] \in White
  BY <1>2, LenProperties, ElementOfSeq
<1> QED BY <1>2, <1>4, <1>5

\* A text with a marker at a distance below it.
LEMMA Below ==
  ASSUME NEW s \in Seq(Token), NEW t \in Token
  PROVE  LET c == s \o Gap(s) \o <<t>>
         IN /\ c \in Seq(Token) /\ Len(s) \in Nat /\ Len(c) \in Nat /\ Len(s) < Len(c)
            /\ c[Len(c)] = t
            /\ \A i \in 1..Len(s) : c[i] = s[i]
            /\ \A i \in (Len(s) + 1)..(Len(c) - 1) : c[i] \in White
<1> DEFINE g == s \o Gap(s)
           c == s \o Gap(s) \o <<t>>
<1>1. Len(s) \in Nat
  BY LenProperties
<1>2. /\ Gap(s) \in Seq(Token) /\ Len(Gap(s)) \in Nat
      /\ \A i \in 1..Len(Gap(s)) : Gap(s)[i] \in White
  BY Gaps
<1>3. /\ g \in Seq(Token) /\ Len(g) = Len(s) + Len(Gap(s))
      /\ \A i \in 1..(Len(s) + Len(Gap(s))) :
           g[i] = IF i <= Len(s) THEN s[i] ELSE Gap(s)[i - Len(s)]
  BY <1>2, ConcatProperties
<1>4. <<t>> \in Seq(Token) /\ Len(<<t>>) = 1 /\ <<t>>[1] = t
  OBVIOUS
<1> HIDE DEF g
<1>5. /\ g \o <<t>> \in Seq(Token) /\ Len(g \o <<t>>) = Len(g) + 1
      /\ \A i \in 1..(Len(g) + 1) :
           (g \o <<t>>)[i] = IF i <= Len(g) THEN g[i] ELSE <<t>>[i - Len(g)]
  BY <1>3, <1>4, ConcatProperties
<1>6. c = g \o <<t>>
  BY DEF g
<1> HIDE DEF c
<1>7. c \in Seq(Token) /\ Len(c) = Len(s) + Len(Gap(s)) + 1 /\ Len(s) < Len(c) /\ Len(c) \in Nat
  BY <1>1, <1>2, <1>3, <1>5, <1>6
<1>8. c[Len(c)] = t
  <2>1. Len(g) + 1 - Len(g) = 1 /\ Len(c) = Len(g) + 1 /\ ~(Len(c) <= Len(g)) /\ Len(c) \in 1..(Len(g) + 1)
    BY <1>1, <1>2, <1>3, <1>7
  <2> QED BY <1>4, <1>5, <1>6, <2>1
<1>9. \A i \in 1..Len(s) : c[i] = s[i]
  BY <1>1, <1>2, <1>3, <1>5, <1>6
<1>10. \A i \in (Len(s) + 1)..(Len(c) - 1) : c[i] \in White
  <2>1. SUFFICES ASSUME NEW i \in (Len(s) + 1)..(Len(c) - 1)
                 PROVE  c[i] \in White
    OBVIOUS
  <2>2. c[i] = g[i] /\ g[i] = Gap(s)[i - Len(s)] /\ i - Len(s) \in 1..Len(Gap(s))
    BY <1>1, <1>2, <1>3, <1>5, <1>6, <1>7
  <2> QED BY <1>2, <2>2
<1> QED BY <1>1, <1>7, <1>8, <1>9, <1>10 DEF c

\* Wrap frames what it is given, and what that was made from by putting white space and
\* a marker for Plane below.
LEMMA WrapFrames ==
  ASSUME NEW u \in Seq(Token), NEW s \in Seq(Token), Extract(s) = NoMarker,
         NEW src \in {"forge", "plane"}, NEW id,
         NEW n, Ends(u, n), n <= Len(s), \A i \in 1..n : s[i] = u[i],
         \A i \in (n + 1)..Len(s) : s[i] \in White \cup {PlaneRefMarker}
  PROVE  Wrap(s, src, id) \in Seq(Token) /\ Frames(u, Wrap(s, src, id), src, id)
<1>1. n \in 0..Len(u) /\ Len(u) \in Nat /\ Len(s) \in Nat
  BY LenProperties DEF Ends
<1>2. PICK e \in 0..Len(s) : Ends(s, e)
  BY EndsExists
<1>3. n <= e
  BY <1>1, <1>2 DEF Ends
<1>4. e = 0 \/ s[e].is # "marker"
  <2>1. Extract(s) = IF e # 0 /\ s[e].is = "marker" THEN s[e] ELSE NoMarker
    BY <1>2, ExtractIs
  <2>2. NoMarker.is # "marker"
    BY DEF NoMarker
  <2> QED BY <2>1, <2>2
<1>5. CASE id \notin ValidIDs
  <2>1. Wrap(s, src, id) = s
    BY <1>5 DEF Wrap
  <2> QED BY <1>1, <1>2, <1>3, <1>4, <1>5, <2>1 DEF Frames
<1>6. CASE id \in ValidIDs
  <2> DEFINE c == s \o Gap(s) \o <<Stamp(src, id)>>
  <2>1. Wrap(s, src, id) = c
    BY <1>6, Tokens DEF Wrap
  <2>2. Stamp(src, id) \in Token
    BY <1>6, Tokens
  <2>3. /\ c \in Seq(Token) /\ Len(s) \in Nat /\ Len(c) \in Nat /\ Len(s) < Len(c)
        /\ c[Len(c)] = Stamp(src, id)
        /\ \A i \in 1..Len(s) : c[i] = s[i]
        /\ \A i \in (Len(s) + 1)..(Len(c) - 1) : c[i] \in White
    BY <2>2, Below
  <2> HIDE DEF c
  <2>4. Ends(c, Len(c))
    BY <2>3, Tokens DEF Ends
  <2>5. n < Len(c) /\ \A i \in 1..n : c[i] = u[i]
    BY <1>1, <2>3
  <2>6. ASSUME NEW i \in (n + 1)..Len(c)
        PROVE  c[i] \in White \cup {PlaneRefMarker, Stamp(src, id)}
    <3>1. CASE i <= Len(s)
      BY <1>1, <2>3, <3>1
    <3>2. CASE i > Len(s) /\ i # Len(c)
      <4>1. i \in (Len(s) + 1)..(Len(c) - 1)
        BY <1>1, <2>3, <3>2
      <4> QED BY <2>3, <4>1
    <3>3. CASE i = Len(c)
      BY <2>3, <3>3
    <3>4. i \in Nat
      BY <1>1, <2>3
    <3> QED BY <1>1, <3>1, <3>2, <3>3, <3>4
  <2>7. Frames(u, c, src, id)
    <3>1. Len(c) \in 0..Len(c) /\ n <= Len(c)
      BY <2>3, <2>5, <1>1
    <3> QED BY <1>1, <1>6, <2>3, <2>4, <2>5, <2>6, <3>1 DEF Frames
  <2> QED BY <2>1, <2>3, <2>7
<1> QED BY <1>5, <1>6

\* A framed text is framed no less when the service changes the white space at its end.
LEMMA StoreFrames ==
  ASSUME NEW u \in Seq(Token), NEW c \in Seq(Token), NEW src, NEW id, Frames(u, c, src, id),
         NEW d \in {Trimmed(c), Append(c, NewLine)}
  PROVE  d \in Seq(Token) /\ Frames(u, d, src, id)
<1>1. PICK n \in 0..Len(u), e \in 0..Len(c) :
        /\ Ends(u, n) /\ Ends(c, e) /\ n <= e
        /\ \A i \in 1..n : c[i] = u[i]
        /\ \A i \in (n + 1)..Len(c) : c[i] \in White \cup {PlaneRefMarker, Stamp(src, id)}
        /\ IF id \in ValidIDs THEN n < e /\ c[e] = Stamp(src, id)
           ELSE e = 0 \/ c[e].is # "marker"
  BY DEF Frames
<1>2. Len(c) \in Nat /\ Len(u) \in Nat
  BY LenProperties
<1>3. NewLine \in White /\ NewLine \in Token
  BY Tokens
<1>4. /\ d \in Seq(Token) /\ Len(d) \in e..(Len(c) + 1)
      /\ \A i \in 1..Len(d) : IF i <= Len(c) THEN d[i] = c[i] ELSE d[i] = NewLine
  <2>1. CASE d = Trimmed(c)
    <3>1. d = SubSeq(c, 1, e)
      BY <1>1, <2>1, TrimmedIs
    <3>2. d \in Seq(Token) /\ Len(d) = e /\ \A i \in 1..e : d[i] = c[i]
      BY <3>1, Beginning
    <3> QED BY <1>1, <1>2, <3>2
  <2>2. CASE d = Append(c, NewLine)
    BY <1>2, <1>3, <2>2
  <2> QED BY <2>1, <2>2
<1>5. Len(d) \in Nat /\ e \in 0..Len(d)
  BY <1>2, <1>4
<1>6. Ends(d, e)
  BY <1>1, <1>2, <1>3, <1>4, <1>5 DEF Ends
<1>7. \A i \in 1..n : d[i] = u[i]
  <2>1. \A i \in 1..n : i \in 1..Len(d) /\ i <= Len(c)
    BY <1>1, <1>2, <1>5
  <2> QED BY <1>1, <1>4, <2>1
<1>8. \A i \in (n + 1)..Len(d) : d[i] \in White \cup {PlaneRefMarker, Stamp(src, id)}
  BY <1>1, <1>2, <1>3, <1>4, <1>5
<1>9. e # 0 => d[e] = c[e]
  BY <1>1, <1>2, <1>4, <1>5
<1>10. IF id \in ValidIDs THEN n < e /\ d[e] = Stamp(src, id)
       ELSE e = 0 \/ d[e].is # "marker"
  BY <1>1, <1>2, <1>9
<1> QED BY <1>1, <1>4, <1>5, <1>6, <1>7, <1>8, <1>10 DEF Frames

\* A text that starts as another does.
LEMMA StartsAs ==
  ASSUME NEW T, NEW u \in Seq(T), NEW c \in Seq(T),
         NEW n \in 0..Len(u), n <= Len(c), \A i \in 1..n : c[i] = u[i]
  PROVE  IsPrefix(SubSeq(u, 1, n), c)
<1>1. Len(u) \in Nat /\ Len(c) \in Nat /\ n \in 0..Len(c)
  BY LenProperties
<1>2. /\ SubSeq(u, 1, n) \in Seq(T) /\ Len(SubSeq(u, 1, n)) = n
      /\ \A i \in 1..n : SubSeq(u, 1, n)[i] = u[i]
  BY Beginning
<1>3. /\ SubSeq(c, 1, n) \in Seq(T) /\ Len(SubSeq(c, 1, n)) = n
      /\ \A i \in 1..n : SubSeq(c, 1, n)[i] = c[i]
  BY <1>1, Beginning
<1>4. SubSeq(u, 1, n) = SubSeq(c, 1, n)
  BY <1>2, <1>3, SeqEqual
<1>5. SubSeq(SubSeq(u, 1, n), 1, n) = SubSeq(u, 1, n)
  BY <1>2, SubSeqFull
<1> QED BY <1>2, <1>4, <1>5 DEF IsPrefix

\* What Extract and Strip make of a framed text.
LEMMA FramesShow ==
  ASSUME NEW u \in Seq(Token), NEW c \in Seq(Token), NEW src \in {"forge", "plane"}, NEW id,
         Frames(u, c, src, id)
  PROVE  /\ Extract(c) = IF id \in ValidIDs THEN Stamp(src, id) ELSE NoMarker
         /\ IsPrefix(Trimmed(u), c) /\ IsPrefix(Trimmed(u), Strip(c))
         /\ \A k \in (Len(Trimmed(u)) + 1)..Len(c) :
              c[k] \in White \cup {PlaneRefMarker, Stamp(src, id)}
<1>1. PICK n \in 0..Len(u), e \in 0..Len(c) :
        /\ Ends(u, n) /\ Ends(c, e) /\ n <= e
        /\ \A i \in 1..n : c[i] = u[i]
        /\ \A i \in (n + 1)..Len(c) : c[i] \in White \cup {PlaneRefMarker, Stamp(src, id)}
        /\ IF id \in ValidIDs THEN n < e /\ c[e] = Stamp(src, id)
           ELSE e = 0 \/ c[e].is # "marker"
  BY DEF Frames
<1>2. Len(c) \in Nat /\ Len(u) \in Nat
  BY LenProperties
<1>3. Trimmed(u) = SubSeq(u, 1, n) /\ Len(Trimmed(u)) = n
  BY <1>1, TrimmedIs, Beginning
<1>4. Extract(c) = IF id \in ValidIDs THEN Stamp(src, id) ELSE NoMarker
  <2>1. Extract(c) = IF e # 0 /\ c[e].is = "marker" THEN c[e] ELSE NoMarker
    BY <1>1, ExtractIs
  <2>2. n < e => e # 0
    BY <1>1, <1>2
  <2> QED BY <1>1, <2>1, <2>2, Tokens
<1>5. IsPrefix(Trimmed(u), c)
  <2>1. n <= Len(c)
    BY <1>1, <1>2
  <2> QED BY <1>1, <1>3, <2>1, StartsAs
<1>6. IsPrefix(Trimmed(u), Strip(c))
  <2>1. CASE Extract(c) = NoMarker
    BY <1>5, <2>1 DEF Strip
  <2>2. CASE Extract(c) # NoMarker
    <3>1. n < e
      BY <1>1, <1>4, <2>2
    <3>2. PICK m \in 0..(e - 1) :
            /\ Strip(c) = SubSeq(c, 1, m)
            /\ \A i \in (m + 1)..(e - 1) : c[i] \in White
      BY <1>1, <2>2, StripIs
    <3>3. n <= m
      <4>1. n # 0 => c[n] \notin White
        BY <1>1, <1>2 DEF Ends
      <4>2. ~(n \in (m + 1)..(e - 1))
        BY <1>2, <3>2, <4>1
      <4> QED BY <1>1, <1>2, <3>1, <3>2, <4>2
    <3>4. m \in 0..Len(c)
      BY <1>1, <1>2, <3>2
    <3>5. /\ Strip(c) \in Seq(Token) /\ Len(Strip(c)) = m
          /\ \A i \in 1..m : Strip(c)[i] = c[i]
      BY <3>2, <3>4, Beginning
    <3>6. n <= Len(Strip(c)) /\ \A i \in 1..n : Strip(c)[i] = u[i]
      <4>1. \A i \in 1..n : i \in 1..m
        BY <1>2, <3>3, <3>4
      <4> QED BY <1>1, <3>3, <3>5, <4>1
    <3> QED BY <1>1, <1>3, <3>5, <3>6, StartsAs
  <2> QED BY <2>1, <2>2
<1>7. \A k \in (Len(Trimmed(u)) + 1)..Len(c) :
        c[k] \in White \cup {PlaneRefMarker, Stamp(src, id)}
  BY <1>1, <1>3
<1> QED BY <1>4, <1>5, <1>6, <1>7

\* A preface is no marker, nor makes it one of the text below it.
LEMMA Prefaced ==
  ASSUME NEW s \in Seq(Token), Extract(s) = NoMarker
  PROVE  Preface \o s \in Seq(Token) /\ Extract(Preface \o s) = NoMarker
<1> DEFINE u == Preface \o s
<1>1. /\ Preface \in Seq(Token) /\ Len(Preface) = 5
      /\ Preface[3] = Quoted /\ Preface[4] = NewLine /\ Preface[5] = NewLine
  <2>1. Quoted \in Token /\ NewLine \in Token
    BY Tokens
  <2> QED BY <2>1 DEF Preface
<1>2. Len(s) \in Nat
  BY LenProperties
<1>3. /\ u \in Seq(Token) /\ Len(u) = 5 + Len(s)
      /\ \A i \in 1..(5 + Len(s)) : u[i] = IF i <= 5 THEN Preface[i] ELSE s[i - 5]
  <2>1. /\ Preface \o s \in Seq(Token) /\ Len(Preface \o s) = Len(Preface) + Len(s)
        /\ \A i \in 1..(Len(Preface) + Len(s)) :
             (Preface \o s)[i] = IF i <= Len(Preface) THEN Preface[i] ELSE s[i - Len(Preface)]
    BY <1>1, ConcatProperties
  <2> QED BY <1>1, <2>1
<1> HIDE DEF u
<1>4. PICK n \in 0..Len(s) : Ends(s, n)
  BY EndsExists
<1>5. Extract(s) = IF n # 0 /\ s[n].is = "marker" THEN s[n] ELSE NoMarker
  BY <1>4, ExtractIs
<1>6. n # 0 => s[n].is # "marker"
  <2>1. NoMarker.is # "marker"
    BY DEF NoMarker
  <2> QED BY <1>5, <2>1
<1>7. \A i \in (n + 6)..Len(u) : u[i] \in White
  <2>1. \A i \in (n + 6)..Len(u) : u[i] = s[i - 5] /\ i - 5 \in (n + 1)..Len(s)
    BY <1>2, <1>3, <1>4
  <2> QED BY <1>4, <2>1 DEF Ends
<1>8. CASE n # 0
  <2>1. u[n + 5] = s[n] /\ n + 5 \in 0..Len(u) /\ n + 5 # 0
    <3>1. n + 5 - 5 = n /\ n + 5 \in 1..(5 + Len(s)) /\ ~(n + 5 <= 5)
      BY <1>2, <1>4, <1>8
    <3> QED BY <1>2, <1>3, <1>4, <3>1
  <2>2. s[n] \notin White
    BY <1>4, <1>8 DEF Ends
  <2>3. \A i \in (n + 5 + 1)..Len(u) : u[i] \in White
    BY <1>2, <1>4, <1>7
  <2>4. Ends(u, n + 5)
    BY <2>1, <2>2, <2>3 DEF Ends
  <2>5. Extract(u) = IF n + 5 # 0 /\ u[n + 5].is = "marker" THEN u[n + 5] ELSE NoMarker
    BY <1>3, <2>4, ExtractIs
  <2> QED BY <1>3, <1>6, <1>8, <2>1, <2>5 DEF u
<1>9. CASE n = 0
  <2>1. u[3] = Quoted /\ u[4] = NewLine /\ u[5] = NewLine /\ 3 \in 0..Len(u)
    BY <1>1, <1>2, <1>3
  <2>2. \A i \in (3 + 1)..Len(u) : u[i] \in White
    <3>1. NewLine \in White
      BY Tokens
    <3>2. \A i \in (3 + 1)..Len(u) : i = 4 \/ i = 5 \/ i \in (n + 6)..Len(u)
      BY <1>2, <1>3, <1>9
    <3> QED BY <1>7, <2>1, <3>1, <3>2
  <2>3. Ends(u, 3)
    BY <2>1, <2>2, Tokens DEF Ends
  <2>4. Extract(u) = NoMarker
    BY <1>3, <2>1, <2>3, ExtractIs, Tokens
  <2> QED BY <1>3, <2>4 DEF u
<1> QED BY <1>8, <1>9

\* The renderers frame what they are given.
LEMMA CommentFrames ==
  ASSUME NEW s \in Seq(Token), Extract(s) = NoMarker,
         NEW src \in {"forge", "plane"}, NEW id, NEW mapped \in BOOLEAN
  PROVE  /\ RenderComment(s, src, id, mapped) \in Seq(Token)
         /\ Frames((IF mapped THEN <<>> ELSE Preface) \o s, RenderComment(s, src, id, mapped),
                   src, id)
<1> DEFINE u == (IF mapped THEN <<>> ELSE Preface) \o s
<1>1. u \in Seq(Token) /\ Extract(u) = NoMarker
  <2>1. CASE mapped
    <3>1. u = s
      BY <2>1, ConcatEmptySeq
    <3> QED BY <3>1
  <2>2. CASE ~mapped
    BY <2>2, Prefaced
  <2> QED BY <2>1, <2>2
<1>2. RenderComment(s, src, id, mapped) = Wrap(u, src, id)
  BY DEF RenderComment
<1> HIDE DEF u
<1>3. PICK n \in 0..Len(u) : Ends(u, n)
  BY <1>1, EndsExists
<1>4. n <= Len(u) /\ \A i \in (n + 1)..Len(u) : u[i] \in White \cup {PlaneRefMarker}
  BY <1>1, <1>3, LenProperties DEF Ends
<1>5. Wrap(u, src, id) \in Seq(Token) /\ Frames(u, Wrap(u, src, id), src, id)
  BY <1>1, <1>3, <1>4, WrapFrames
<1> QED BY <1>2, <1>5 DEF u

LEMMA ItemFrames ==
  ASSUME NEW s \in Seq(Token), NEW id
  PROVE  /\ RenderPlaneWorkItemDescription(s, id) \in Seq(Token)
         /\ Frames(s, RenderPlaneWorkItemDescription(s, id), "plane", id)
<1> DEFINE u == s \o Gap(s) \o <<PlaneRefMarker>>
<1>1. PlaneRefMarker \in Token /\ PlaneRefMarker \notin White /\ PlaneRefMarker.is # "marker"
  BY Tokens
<1>2. /\ u \in Seq(Token) /\ Len(s) \in Nat /\ Len(u) \in Nat /\ Len(s) < Len(u)
      /\ u[Len(u)] = PlaneRefMarker
      /\ \A i \in 1..Len(s) : u[i] = s[i]
      /\ \A i \in (Len(s) + 1)..(Len(u) - 1) : u[i] \in White
  BY <1>1, Below
<1>3. RenderPlaneWorkItemDescription(s, id) = Wrap(u, "plane", id)
  BY DEF RenderPlaneWorkItemDescription
<1> HIDE DEF u
<1>4. Ends(u, Len(u))
  BY <1>1, <1>2 DEF Ends
<1>5. Extract(u) = NoMarker
  BY <1>1, <1>2, <1>4, ExtractIs
<1>6. PICK n \in 0..Len(s) : Ends(s, n)
  BY EndsExists
<1>7. n <= Len(u) /\ \A i \in 1..n : u[i] = s[i]
  BY <1>2, <1>6
<1>8. \A i \in (n + 1)..Len(u) : u[i] \in White \cup {PlaneRefMarker}
  <2>1. \A i \in (n + 1)..Len(s) : s[i] \in White
    BY <1>6 DEF Ends
  <2>2. \A i \in (n + 1)..Len(u) :
          (i \in (n + 1)..Len(s) /\ i \in 1..Len(s)) \/ i \in (Len(s) + 1)..(Len(u) - 1) \/ i = Len(u)
    BY <1>2, <1>6
  <2> QED BY <1>2, <2>1, <2>2
<1>9. Wrap(u, "plane", id) \in Seq(Token) /\ Frames(s, Wrap(u, "plane", id), "plane", id)
  BY <1>2, <1>5, <1>6, <1>7, <1>8, WrapFrames
<1> QED BY <1>3, <1>9
-----------------------------------------------------------------------------
(***************************************************************************)
(* References to work items.                                               *)
(***************************************************************************)

PullOK ==
  pull = Nothing \/
  \E title \in Titles, body \in Bodies, branch \in Branches :
    pull = [as |-> "pull", title |-> title, body |-> body, branch |-> branch,
            found |-> ParsePRRef(title, body, branch)]

\* The pattern finds the first reference if there is one.
LEMMA BracketFinds ==
  ASSUME NEW s \in Seq(Reference)
  PROVE  (Heading(s) = {} /\ BracketMatch(s) = 0) \/ Heading(s) = {BracketMatch(s)}
<1> DEFINE I == {i \in 1..Len(s) : s[i].names = "same"}
           first == IF I # {} THEN Min(I) ELSE 0
<1>1. Len(s) \in Nat /\ DOMAIN s = 1..Len(s)
  BY LenProperties
<1>2. SelectInSeq(s, LAMBDA ref : ref.names = "same") = first
  BY DEF SelectInSeq
<1>3. BracketMatch(s) = IF first = 0 THEN 0 ELSE s[first].number
  BY <1>2 DEF BracketMatch
<1>4. Heading(s) = {s[k].number : k \in {j \in I : \A i \in 1..(j - 1) : i \notin I}}
  <2>1. \A j \in 1..Len(s) : \A i \in 1..(j - 1) : i \notin I <=> s[i].names # "same"
    BY <1>1
  <2>2. {j \in DOMAIN s : s[j].names = "same" /\ \A i \in 1..(j - 1) : s[i].names # "same"}
          = {j \in I : \A i \in 1..(j - 1) : i \notin I}
    BY <1>1, <2>1
  <2> QED BY <2>2 DEF Heading
<1>5. I \in SUBSET (1..Len(s))
  OBVIOUS
<1>6. I # {} => first \in I /\ \A i \in I : first <= i
  BY <1>1, <1>5, Extremes
<1>7. I = {} => first = 0
  OBVIOUS
<1> HIDE DEF I, first
<1>8. CASE I = {}
  BY <1>3, <1>4, <1>7, <1>8
<1>9. CASE I # {}
  <2>1. first \in 1..Len(s) /\ first \in Nat /\ first # 0 /\ \A i \in 1..(first - 1) : i \notin I
    <3>1. first \in 1..Len(s)
      BY <1>5, <1>6, <1>9
    <3>2. \A i \in 1..(first - 1) : ~(first <= i)
      BY <1>1, <3>1
    <3> QED BY <1>1, <1>6, <1>9, <3>1, <3>2
  <2>2. ASSUME NEW j \in I, \A i \in 1..(j - 1) : i \notin I
        PROVE  j = first
    <3>1. j \in 1..Len(s) /\ first <= j
      BY <1>5, <1>6, <2>2
    <3>2. first \notin 1..(j - 1)
      BY <1>6, <1>9, <2>2
    <3> QED BY <1>1, <2>1, <3>1, <3>2
  <2>3. {j \in I : \A i \in 1..(j - 1) : i \notin I} = {first}
    BY <1>6, <1>9, <2>1, <2>2
  <2> QED BY <1>3, <1>4, <2>1, <2>3
<1> QED BY <1>8, <1>9

\* The first usable of three candidates is taken.
LEMMA FirstOfThree ==
  ASSUME NEW a, NEW b, NEW c
  PROVE  FirstUsable(<<a, b, c>>) =
           IF Usable(a) THEN a ELSE IF Usable(b) THEN b ELSE IF Usable(c) THEN c ELSE 0
<1> DEFINE t == <<a, b, c>>
           I == {i \in 1..3 : Usable(t[i])}
           first == IF I # {} THEN Min(I) ELSE 0
<1>1. Len(t) = 3 /\ t[1] = a /\ t[2] = b /\ t[3] = c
  OBVIOUS
<1> HIDE DEF t
<1>2. SelectInSeq(t, Usable) = first
  BY <1>1 DEF SelectInSeq
<1>3. FirstUsable(t) = IF first = 0 THEN 0 ELSE t[first]
  BY <1>2 DEF FirstUsable
<1>4. I \in SUBSET (1..3)
  OBVIOUS
<1>5. I # {} => first \in I /\ \A i \in I : first <= i
  BY <1>4, Extremes
<1>6. I = {} => first = 0
  OBVIOUS
<1> HIDE DEF first
<1>7. first \in {0, 1, 2, 3}
  BY <1>4, <1>5, <1>6
<1>8. /\ 1 \in I <=> Usable(a)
      /\ 2 \in I <=> Usable(b)
      /\ 3 \in I <=> Usable(c)
  BY <1>1
<1> HIDE DEF I
<1>9. CASE Usable(a)
  <2>1. first = 1
    BY <1>4, <1>5, <1>7, <1>8, <1>9
  <2> QED BY <1>1, <1>3, <1>9, <2>1 DEF t
<1>10. CASE ~Usable(a) /\ Usable(b)
  <2>1. first = 2
    BY <1>4, <1>5, <1>7, <1>8, <1>10
  <2> QED BY <1>1, <1>3, <1>10, <2>1 DEF t
<1>11. CASE ~Usable(a) /\ ~Usable(b) /\ Usable(c)
  <2>1. first = 3
    BY <1>4, <1>5, <1>7, <1>8, <1>11
  <2> QED BY <1>1, <1>3, <1>11, <2>1 DEF t
<1>12. CASE ~Usable(a) /\ ~Usable(b) /\ ~Usable(c)
  <2>1. I = {}
    BY <1>4, <1>8, <1>12
  <2> QED BY <1>3, <1>6, <1>12, <2>1 DEF t
<1> QED BY <1>9, <1>10, <1>11, <1>12

\* What the search for a reference comes to, for any pull request.
LEMMA ParseNames ==
  ASSUME NEW title \in Seq(Reference), NEW body \in Seq(Reference), NEW branch \in Branch
  PROVE  LET found == ParsePRRef(title, body, branch)
             ofTitle == Heading(title) \cap 1..MaxInt
             ofBody == Heading(body) \cap 1..MaxInt
             ofBranch == OfBranch(branch) \cap 1..MaxInt
         IN /\ found = 0 <=> ofTitle \cup ofBody \cup ofBranch = {}
            /\ ofTitle # {} => found \in ofTitle
            /\ ofTitle = {} /\ ofBody # {} => found \in ofBody
            /\ ofTitle \cup ofBody = {} /\ ofBranch # {} => found \in ofBranch
<1> DEFINE found == ParsePRRef(title, body, branch)
           a == BracketMatch(title)
           b == BracketMatch(body)
           c == BranchMatch(branch)
           Use(n) == IF Usable(n) THEN {n} ELSE {}
<1>1. found = IF Usable(a) THEN a ELSE IF Usable(b) THEN b ELSE IF Usable(c) THEN c ELSE 0
  BY FirstOfThree DEF ParsePRRef
<1>2. \A n : Usable(n) <=> n \in 1..MaxInt
  BY DEF Usable
<1>3. 0 \notin 1..MaxInt
  BY NumbersAssumption
<1>4. (OfBranch(branch) = {} /\ c = 0) \/ OfBranch(branch) = {c}
  BY DEF BranchMatch, OfBranch
<1>5. /\ (Heading(title) = {} /\ a = 0) \/ Heading(title) = {a}
      /\ (Heading(body) = {} /\ b = 0) \/ Heading(body) = {b}
  BY BracketFinds
<1> HIDE DEF found, a, b, c
<1>6. /\ Heading(title) \cap 1..MaxInt = Use(a)
      /\ Heading(body) \cap 1..MaxInt = Use(b)
      /\ OfBranch(branch) \cap 1..MaxInt = Use(c)
  BY <1>2, <1>3, <1>4, <1>5
<1>7. /\ found = 0 <=> Use(a) \cup Use(b) \cup Use(c) = {}
      /\ Use(a) # {} => found \in Use(a)
      /\ Use(a) = {} /\ Use(b) # {} => found \in Use(b)
      /\ Use(a) \cup Use(b) = {} /\ Use(c) # {} => found \in Use(c)
  <2>1. ~Usable(0)
    BY <1>2, <1>3
  <2> QED BY <1>1, <2>1
<1> HIDE DEF Word
<1> QED BY <1>6, <1>7 DEF found
-----------------------------------------------------------------------------
(***************************************************************************)
(* The theorems about texts.                                               *)
(***************************************************************************)
LEMMA OriginalTyped == TextsTypeOK => text \in Seq(Token) /\ Original \in Seq(Token)
<1> SUFFICES ASSUME TextsTypeOK
             PROVE  text \in Seq(Token) /\ Original \in Seq(Token)
  OBVIOUS
<1>1. text \in Seq(Token)
  BY Tokens, SeqMonotonic DEF TextsTypeOK
<1>2. Preface \in Seq(Token) /\ <<>> \in Seq(Token)
  <2>1. Quoted \in Token /\ NewLine \in Token
    BY Tokens
  <2> QED BY <2>1 DEF Preface
<1> QED BY <1>1, <1>2, ConcatProperties DEF Original

LEMMA TextsInitSound == TextsInit => TextsInv /\ PullOK
BY EmptySeq DEF TextsInit, TextsInv, TextsTypeOK, Copied, PullOK, Nothing

LEMMA CopiesFramed ==
  ASSUME TextsInv, Extract(text) = NoMarker, NEW id \in ValidIDs \cup OtherIDs
  PROVE  /\ \A mapped \in BOOLEAN : CopyFromForge(id, mapped) => TextsInv'
         /\ CopyFromPlane(id) => TextsInv'
         /\ CopyItem(id) => TextsInv'
<1>1. text \in Seq(Token)
  BY OriginalTyped DEF TextsInv
<1>2. ASSUME NEW src \in {"forge", "plane"}, NEW mapped \in BOOLEAN, NEW as \in {"item", "comment"},
             copied' = [as |-> as, src |-> src, id |-> id, mapped |-> mapped],
             copy' = RenderComment(text, src, id, mapped), text' = text
      PROVE  TextsInv'
  <2>1. copy' \in Seq(Token) /\ Frames((IF mapped THEN <<>> ELSE Preface) \o text, copy', src, id)
    BY <1>1, <1>2, CommentFrames
  <2>2. copied'.src = src /\ copied'.id = id /\ copied'.mapped = mapped
    BY <1>2
  <2>3. Original' = (IF mapped THEN <<>> ELSE Preface) \o text
    BY <1>2, <2>2 DEF Original
  <2>4. TextsTypeOK'
    BY <1>2, <2>1 DEF TextsInv, TextsTypeOK
  <2> QED BY <2>1, <2>2, <2>3, <2>4 DEF TextsInv
<1>3. ASSUME NEW mapped \in BOOLEAN, CopyFromForge(id, mapped)
      PROVE  TextsInv'
  BY <1>2, <1>3 DEF CopyFromForge, RenderDescription
<1>4. ASSUME CopyFromPlane(id)
      PROVE  TextsInv'
  BY <1>2, <1>4 DEF CopyFromPlane
<1>5. ASSUME CopyItem(id)
      PROVE  TextsInv'
  <2>1. /\ copied' = [as |-> "issue", src |-> "plane", id |-> id, mapped |-> TRUE]
        /\ copy' = RenderPlaneWorkItemDescription(text, id) /\ text' = text
    BY <1>5 DEF CopyItem
  <2>2. copy' \in Seq(Token) /\ Frames(text, copy', "plane", id)
    BY <1>1, <2>1, ItemFrames
  <2>3. copied'.src = "plane" /\ copied'.id = id /\ copied'.mapped = TRUE
    BY <2>1
  <2>4. Original' = text
    BY <1>1, <2>1, <2>3, ConcatEmptySeq DEF Original
  <2>5. TextsTypeOK'
    BY <2>1, <2>2 DEF TextsInv, TextsTypeOK
  <2> QED BY <2>2, <2>3, <2>4, <2>5 DEF TextsInv
<1> QED BY <1>3, <1>4, <1>5

LEMMA TextsNextSound == TextsInv /\ [TextsNext]_textVars => TextsInv'
<1> SUFFICES ASSUME TextsInv, [TextsNext]_textVars
             PROVE  TextsInv'
  OBVIOUS
<1>1. ASSUME NEW token \in Typed, Write(token)
      PROVE  TextsInv'
  <2>1. text' \in Seq(Typed) /\ UNCHANGED <<copied, copy>> /\ copied = Nothing
    BY <1>1 DEF Write, TextsInv, TextsTypeOK
  <2>2. ~Copied'
    BY <2>1 DEF Copied, Nothing
  <2> QED BY <2>1, <2>2 DEF TextsInv, TextsTypeOK
<1>2. ASSUME Dismiss
      PROVE  TextsInv'
  <2>1. UNCHANGED <<text, copy>> /\ copied' = [as |-> "dismissed"]
    BY <1>2 DEF Dismiss
  <2>2. ~Copied'
    BY <2>1 DEF Copied
  <2> QED BY <2>1, <2>2 DEF TextsInv, TextsTypeOK
<1>3. ASSUME NEW id \in ValidIDs \cup OtherIDs,
             (\E mapped \in BOOLEAN : CopyFromForge(id, mapped)) \/ CopyFromPlane(id) \/ CopyItem(id)
      PROVE  TextsInv'
  <2>1. Extract(text) = NoMarker
    BY <1>3 DEF CopyFromForge, CopyFromPlane, CopyItem
  <2> QED BY <1>3, <2>1, CopiesFramed
<1>4. ASSUME Store
      PROVE  TextsInv'
  <2>1. /\ copied.as \in {"item", "comment", "issue"} /\ text' = text
        /\ copied' = [copied EXCEPT !.as = "stored"]
        /\ copy' \in {Trimmed(copy), Append(copy, NewLine)}
    BY <1>4 DEF Store
  <2>2. copied \in [as : {"item", "comment", "issue", "stored"}, src : {"forge", "plane"},
                    id : ValidIDs \cup OtherIDs, mapped : BOOLEAN]
    BY <2>1 DEF TextsInv, TextsTypeOK, Nothing
  <2>3. /\ copied'.src = copied.src /\ copied'.id = copied.id /\ copied'.mapped = copied.mapped
        /\ copied' \in [as : {"item", "comment", "issue", "stored"}, src : {"forge", "plane"},
                        id : ValidIDs \cup OtherIDs, mapped : BOOLEAN]
    BY <2>1, <2>2
  <2>4. Original' = Original
    BY <2>1, <2>3 DEF Original
  <2>5. Copied
    BY <2>1 DEF Copied
  <2>6. /\ Original \in Seq(Token) /\ copy \in Seq(Token)
        /\ Frames(Original, copy, copied.src, copied.id)
    BY <2>5, OriginalTyped DEF TextsInv, TextsTypeOK
  <2>7. copy' \in Seq(Token) /\ Frames(Original, copy', copied.src, copied.id)
    BY <2>1, <2>6, StoreFrames
  <2> QED BY <2>1, <2>3, <2>4, <2>7 DEF TextsInv, TextsTypeOK
<1>5. ASSUME Forget
      PROVE  TextsInv'
  BY <1>5, EmptySeq DEF Forget, TextsInv, TextsTypeOK, Copied, Nothing
<1>6. ASSUME UNCHANGED <<text, copied, copy>>
      PROVE  TextsInv'
  BY <1>6 DEF TextsInv, TextsTypeOK, Copied, Original
<1>7. ASSUME Pull
      PROVE  TextsInv'
  BY <1>6, <1>7 DEF Pull
<1>8. CASE UNCHANGED textVars
  BY <1>6, <1>8 DEF textVars
<1> QED BY <1>1, <1>2, <1>3, <1>4, <1>5, <1>7, <1>8 DEF TextsNext

LEMMA PullNextSound == PullOK /\ [TextsNext]_textVars => PullOK'
<1> SUFFICES ASSUME PullOK, [TextsNext]_textVars
             PROVE  PullOK'
  OBVIOUS
<1>1. CASE Pull
  BY <1>1 DEF Pull, PullOK
<1>2. CASE Forget
  BY <1>2 DEF Forget, PullOK
<1>3. CASE UNCHANGED pull
  BY <1>3 DEF PullOK
<1> QED BY <1>1, <1>2, <1>3 DEF TextsNext, textVars, Write, Dismiss, CopyFromForge, CopyFromPlane,
             CopyItem, Store

LEMMA TextsSound == TextsSpec => [](TextsInv /\ PullOK)
BY TextsInitSound, TextsNextSound, PullNextSound, PTL DEF TextsSpec

\* The invariant's frame is what the two properties need.
LEMMA FramedTexts == TextsInv => EchoRecognised /\ TextKept
<1> SUFFICES ASSUME TextsInv, Copied
             PROVE  EchoRecognised /\ TextKept
  BY DEF EchoRecognised, TextKept
<1>1. copied \in [as : {"item", "comment", "issue", "stored"}, src : {"forge", "plane"},
                  id : ValidIDs \cup OtherIDs, mapped : BOOLEAN]
  BY DEF TextsInv, TextsTypeOK, Copied, Nothing
<1>2. copied.src \in {"forge", "plane"}
  BY <1>1
<1>3. /\ Original \in Seq(Token) /\ copy \in Seq(Token)
      /\ Frames(Original, copy, copied.src, copied.id)
  BY OriginalTyped DEF TextsInv, TextsTypeOK
<1>4. /\ Extract(copy) = IF copied.id \in ValidIDs THEN Stamp(copied.src, copied.id) ELSE NoMarker
      /\ IsPrefix(Trimmed(Original), copy) /\ IsPrefix(Trimmed(Original), Strip(copy))
      /\ \A k \in (Len(Trimmed(Original)) + 1)..Len(copy) :
           copy[k] \in White \cup {PlaneRefMarker, Stamp(copied.src, copied.id)}
  BY <1>2, <1>3, FramesShow
<1>5. EchoRecognised
  BY <1>4 DEF EchoRecognised
<1>6. TextKept
  BY <1>4 DEF TextKept, Original
<1> QED BY <1>5, <1>6

\* Whatever a user writes, a copy of it is known for the bridge's own when the other
\* side announces it, and for the delivery's it was made for.
THEOREM EchoesAreRecognised == TextsSpec => []EchoRecognised
BY TextsSound, FramedTexts, PTL

\* A copy holds the text it was made from, and so does what Strip leaves of it.
THEOREM TextsAreKept == TextsSpec => []TextKept
BY TextsSound, FramedTexts, PTL

\* A pull request moves the item its title, else its body, else its branch says, and
\* moves none only if none of the three says a number of use.
THEOREM PullsMoveWhatTheyName == TextsSpec => []PullNamesItem
<1>1. PullOK => PullNamesItem
  <2> SUFFICES ASSUME PullOK, pull # Nothing
               PROVE  PullNamesItem
    BY DEF PullNamesItem
  <2>1. PICK title \in Titles, body \in Bodies, branch \in Branches :
          pull = [as |-> "pull", title |-> title, body |-> body, branch |-> branch,
                  found |-> ParsePRRef(title, body, branch)]
    BY DEF PullOK
  <2>2. title \in Seq(Reference) /\ body \in Seq(Reference) /\ branch \in Branch
    BY TextBoundsAssumption
  <2>3. /\ pull.title = title /\ pull.body = body /\ pull.branch = branch
        /\ pull.found = ParsePRRef(title, body, branch)
    BY <2>1
  <2> QED BY <2>2, <2>3, ParseNames DEF PullNamesItem
<1> QED BY <1>1, TextsSound, PTL
=============================================================================
