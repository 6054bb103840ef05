--------------------------- MODULE OutputPath_proofs ---------------------------
(***************************************************************************)
(* Proofs about the output directories, for every output directory, every  *)
(* package, every file system, every size of package_path and any number   *)
(* of refused mkdir() calls.                                               *)
(***************************************************************************)
EXTENDS OutputPath, SequenceTheorems, SetInduction

Path == Seq(Char)
Loc == Seq(Path)
WalkState == [at : Loc, comp : Path]
Begin(from) == [at |-> from, comp |-> <<>>]   \* a walk's first state

-----------------------------------------------------------------------------
(***************************************************************************)
(* Reading a path.                                                         *)
(***************************************************************************)

(* A beginning of a sequence. *)
LEMMA Beginning ==
  ASSUME NEW S, NEW s \in Seq(S), NEW n \in 0..Len(s)
  PROVE  /\ SubSeq(s, 1, n) \in Seq(S)
         /\ Len(SubSeq(s, 1, n)) = n
         /\ \A j \in 1..n : SubSeq(s, 1, n)[j] = s[j]
<1>1. Len(s) \in Nat /\ \A j \in 1..n : s[j] \in S
  OBVIOUS
<1>2. n \in Nat /\ 1 \in Int /\ n - 1 + 1 = n
  BY <1>1
<1>3. /\ SubSeq(s, 1, n) \in Seq(S)
      /\ Len(SubSeq(s, 1, n)) = IF 1 <= n THEN n - 1 + 1 ELSE 0
      /\ \A j \in 1..n - 1 + 1 : SubSeq(s, 1, n)[j] = s[1 + j - 1]
  BY <1>1, <1>2, SubSeqProperties
<1>4. \A j \in 1..n : 1 + j - 1 = j
  BY <1>2
<1>. QED
  BY <1>2, <1>3, <1>4

(* A sequence without its last element. *)
LEMMA FrontFacts ==
  ASSUME NEW S, NEW s \in Seq(S), s # <<>>
  PROVE  /\ Front(s) \in Seq(S) /\ Len(Front(s)) = Len(s) - 1
         /\ \A j \in 1..Len(s) - 1 : Front(s)[j] = s[j]
<1>1. Len(s) \in Nat /\ Len(s) # 0
  OBVIOUS
<1>2. Len(s) - 1 \in 0..Len(s)
  BY <1>1
<1>. QED
  BY <1>2, Beginning DEF Front

(* Where a component leads is a location. *)
LEMMA EnterType ==
  ASSUME NEW at \in Loc, NEW comp \in Path
  PROVE  /\ Enter(at, comp) \in Loc
         /\ at # <<>> => Front(at) \in Loc /\ Len(Front(at)) = Len(at) - 1
<1>1. Append(at, comp) \in Loc
  BY DEF Loc
<1>2. at # <<>> => Front(at) \in Loc /\ Len(Front(at)) = Len(at) - 1
  BY FrontFacts DEF Loc
<1>3. CASE comp = <<".">>
  BY <1>2, <1>3 DEF Enter
<1>4. CASE comp = <<".", ".">>
  <2>1. comp # <<".">>
    BY <1>4
  <2>. QED
    BY <1>2, <1>4, <2>1 DEF Enter
<1>5. CASE comp # <<".">> /\ comp # <<".", ".">>
  BY <1>1, <1>2, <1>5 DEF Enter
<1>. QED
  BY <1>3, <1>4, <1>5

(* Reading on keeps the type. *)
LEMMA ReadOnType ==
  ASSUME NEW w \in WalkState, NEW c \in Char
  PROVE  /\ Arrive(w) \in Loc
         /\ ReadOn(w, c) \in WalkState
<1>1. w.at \in Loc /\ w.comp \in Path
  BY DEF WalkState
<1>2. Arrive(w) \in Loc
  BY <1>1, EnterType DEF Arrive
<1>3. <<>> \in Path /\ Append(w.comp, c) \in Path
  BY <1>1 DEF Path
<1>. QED
  BY <1>1, <1>2, <1>3 DEF ReadOn, WalkState

(* The recursion of Walk has a solution. *)
LEMMA WalkExists ==
  ASSUME NEW from \in Loc, NEW path \in Path
  PROVE  \E w \in [0..Len(path) -> WalkState] :
           \A k \in 0..Len(path) :
             w[k] = IF k = 0 THEN [at |-> from, comp |-> <<>>]
                    ELSE ReadOn(w[k-1], path[k])
<1>. DEFINE L == Len(path)
            Turn(w, k) == IF k = 0 THEN [at |-> from, comp |-> <<>>]
                          ELSE ReadOn(w[k-1], path[k])
            Solves(w, N) == \A k \in 0..N : w[k] = Turn(w, k)
            Solved == {N \in 0..L : \E w \in [0..N -> WalkState] : Solves(w, N)}
<1>1. L \in Nat /\ \A k \in 1..L : path[k] \in Char
  BY DEF Path
<1>2. 0 \in Solved
  <2>1. [at |-> from, comp |-> <<>>] \in WalkState
    BY DEF WalkState, Path
  <2>2. [k \in 0..0 |-> [at |-> from, comp |-> <<>>]] \in [0..0 -> WalkState]
    BY <2>1
  <2>3. Solves([k \in 0..0 |-> [at |-> from, comp |-> <<>>]], 0)
    <3>1. \A k \in 0..0 : k = 0
      OBVIOUS
    <3>. QED
      BY <3>1
  <2>4. \E w \in [0..0 -> WalkState] : Solves(w, 0)
    <3>. HIDE DEF Solves
    <3>. QED
      BY <2>2, <2>3
  <2>. QED
    BY <1>1, <2>4
<1>3. ASSUME NEW N \in 0..L, N < L, N \in Solved
      PROVE  N + 1 \in Solved
  <2>1. PICK w \in [0..N -> WalkState] : Solves(w, N)
    BY <1>3
  <2>. DEFINE new == ReadOn(w[N], path[N + 1])
              v == [k \in 0..N + 1 |-> IF k = N + 1 THEN new ELSE w[k]]
  <2>2. N \in Nat /\ N + 1 \in 0..L /\ N + 1 \in 1..L
    BY <1>1, <1>3
  <2>3. new \in WalkState
    BY <1>1, <2>1, <2>2, ReadOnType
  <2>. HIDE DEF new
  <2>4. v \in [0..N + 1 -> WalkState]
    BY <2>1, <2>2, <2>3
  <2>5. v[N + 1] = new /\ \A k \in 0..N : v[k] = w[k]
    BY <2>2
  <2>. HIDE DEF v
  <2>6. Solves(v, N + 1)
    <3>. SUFFICES ASSUME NEW k \in 0..N + 1 PROVE v[k] = Turn(v, k)
      OBVIOUS
    <3>1. CASE k = N + 1
      <4>1. v[k - 1] = w[N] /\ k # 0
        BY <2>2, <2>5, <3>1
      <4>. QED
        BY <2>5, <3>1, <4>1 DEF new
    <3>2. CASE k = 0
      BY <2>1, <2>2, <2>5, <3>2
    <3>3. CASE k \in 1..N
      <4>1. v[k - 1] = w[k - 1] /\ v[k] = w[k] /\ k # 0
        BY <2>2, <2>5, <3>3
      <4>. QED
        BY <2>1, <2>2, <3>3, <4>1
    <3>. QED
      BY <2>2, <3>1, <3>2, <3>3
  <2>. QED
    BY <2>2, <2>4, <2>6
<1>4. L \in Solved
  <2>. HIDE DEF Solved
  <2>1. 0..L \subseteq Solved
    BY <1>1, <1>2, <1>3, InductionUpTo
  <2>. QED
    BY <1>1, <2>1
<1>. QED
  BY <1>4

(* Walk satisfies the recursion it is written as. *)
LEMMA WalkReads ==
  ASSUME NEW from \in Loc, NEW path \in Path
  PROVE  /\ Walk(from, path)[0] = [at |-> from, comp |-> <<>>]
         /\ \A k \in 1..Len(path) :
              Walk(from, path)[k] = ReadOn(Walk(from, path)[k-1], path[k])
         /\ \A k \in 0..Len(path) : Walk(from, path)[k] \in WalkState
<1>. DEFINE L == Len(path)
            w == Walk(from, path)
<1>1. PICK v \in [0..L -> WalkState] :
         \A k \in 0..L : v[k] = IF k = 0 THEN [at |-> from, comp |-> <<>>]
                                ELSE ReadOn(v[k-1], path[k])
  BY WalkExists
<1>2. v = [k \in 0..L |-> IF k = 0 THEN [at |-> from, comp |-> <<>>]
                          ELSE ReadOn(v[k-1], path[k])]
  BY <1>1
<1>3. w = [k \in 0..L |-> IF k = 0 THEN [at |-> from, comp |-> <<>>]
                          ELSE ReadOn(w[k-1], path[k])]
  BY <1>2 DEF Walk
<1>. HIDE DEF w
<1>4. L \in Nat /\ \A k \in 1..L : path[k] \in Char
  BY DEF Path
<1>5. \A k \in 0..L : w[k] = IF k = 0 THEN [at |-> from, comp |-> <<>>]
                             ELSE ReadOn(w[k-1], path[k])
  BY <1>3, Zenon
<1>6. w[0] = [at |-> from, comp |-> <<>>]
  BY <1>4, <1>5
<1>7. \A k \in 1..L : w[k] = ReadOn(w[k-1], path[k])
  <2>1. \A k \in 1..L : k \in 0..L /\ k # 0
    BY <1>4
  <2>. QED
    BY <1>5, <2>1
<1>8. \A k \in 0..L : w[k] \in WalkState
  <2>. DEFINE Typed == {k \in 0..L : w[k] \in WalkState}
  <2>1. 0 \in Typed
    <3>1. [at |-> from, comp |-> <<>>] \in WalkState
      BY DEF WalkState, Path
    <3>. QED
      BY <1>4, <1>6, <3>1
  <2>2. ASSUME NEW k \in 0..L, k < L, k \in Typed PROVE k + 1 \in Typed
    <3>1. k + 1 \in 1..L /\ k + 1 - 1 = k
      BY <1>4, <2>2
    <3>2. w[k + 1] = ReadOn(w[k], path[k + 1])
      BY <1>7, <3>1
    <3>3. w[k + 1] \in WalkState
      BY <1>4, <2>2, <3>1, <3>2, ReadOnType
    <3>. QED
      BY <3>1, <3>3
  <2>3. 0..L \subseteq Typed
    <3>. HIDE DEF Typed
    <3>. QED
      BY <1>4, <2>1, <2>2, InductionUpTo
  <2>. QED
    BY <2>3
<1>. QED
  BY <1>6, <1>7, <1>8 DEF w

(* Where a walk is after as many characters as two paths have in common. *)
LEMMA WalksAgree ==
  ASSUME NEW from \in Loc, NEW p \in Path, NEW q \in Path, NEW n \in Nat,
         n <= Len(p), n <= Len(q), \A k \in 1..n : p[k] = q[k]
  PROVE  \A k \in 0..n : Walk(from, p)[k] = Walk(from, q)[k]
<1>. DEFINE v == Walk(from, p)
            w == Walk(from, q)
            Same == {k \in 0..n : v[k] = w[k]}
<1>1. /\ v[0] = w[0]
      /\ \A k \in 1..n : v[k] = ReadOn(v[k-1], p[k]) /\ w[k] = ReadOn(w[k-1], q[k])
  <2>1. Len(p) \in Nat /\ Len(q) \in Nat
    BY DEF Path
  <2>2. \A k \in 1..n : k \in 1..Len(p) /\ k \in 1..Len(q)
    BY <2>1
  <2>. QED
    BY <2>2, WalkReads
<1>. HIDE DEF v, w
<1>2. 0 \in Same
  BY <1>1
<1>3. ASSUME NEW k \in 0..n, k < n, k \in Same PROVE k + 1 \in Same
  <2>1. k + 1 \in 1..n /\ k + 1 - 1 = k
    BY <1>3
  <2>. QED
    BY <1>1, <1>3, <2>1
<1>4. 0..n \subseteq Same
  <2>. HIDE DEF Same
  <2>. QED
    BY <1>2, <1>3, InductionUpTo
<1>. QED
  BY <1>4 DEF v, w

(* A walk goes on from a slash as one that starts there. *)
LEMMA WalkGoesOn ==
  ASSUME NEW from \in Loc, NEW p \in Path, NEW home \in Loc, NEW t \in Path,
         NEW b \in Nat, b + Len(t) <= Len(p),
         \A k \in 1..Len(t) : p[b + k] = t[k],
         Walk(from, p)[b] = Begin(home)
  PROVE  \A k \in 0..Len(t) : Walk(from, p)[b + k] = Walk(home, t)[k]
<1>. DEFINE n == Len(t)
            v == Walk(from, p)
            w == Walk(home, t)
            Same == {k \in 0..n : v[b + k] = w[k]}
<1>1. /\ w[0] = [at |-> home, comp |-> <<>>]
      /\ \A k \in 1..n : /\ v[b + k] = ReadOn(v[b + k - 1], p[b + k])
                         /\ w[k] = ReadOn(w[k-1], t[k])
  <2>1. Len(p) \in Nat /\ Len(t) \in Nat
    BY DEF Path
  <2>2. \A k \in 1..n : b + k \in 1..Len(p) /\ k \in 1..Len(t)
    BY <2>1
  <2>3. /\ w[0] = [at |-> home, comp |-> <<>>]
        /\ \A k \in 1..Len(t) : w[k] = ReadOn(w[k-1], t[k])
    BY WalkReads
  <2>4. \A k \in 1..Len(p) : v[k] = ReadOn(v[k-1], p[k])
    BY WalkReads
  <2>. HIDE DEF v, w
  <2>. QED
    BY <2>2, <2>3, <2>4
<1>. HIDE DEF w
<1>2. 0 \in Same
  <2>1. b + 0 = b
    OBVIOUS
  <2>. QED
    BY <1>1, <2>1 DEF Begin
<1>. HIDE DEF v
<1>3. ASSUME NEW k \in 0..n, k < n, k \in Same PROVE k + 1 \in Same
  <2>1. k + 1 \in 1..n /\ k + 1 - 1 = k /\ b + (k + 1) - 1 = b + k
    BY <1>3
  <2>2. v[b + (k + 1)] = ReadOn(v[b + k], t[k + 1])
    BY <1>1, <2>1
  <2>3. w[k + 1] = ReadOn(w[k], t[k + 1])
    BY <1>1, <2>1
  <2>. QED
    BY <1>3, <2>1, <2>2, <2>3
<1>4. 0..n \subseteq Same
  <2>. HIDE DEF Same
  <2>1. n \in Nat
    BY DEF Path
  <2>. QED
    BY <1>2, <1>3, <2>1, InductionUpTo
<1>. QED
  BY <1>4 DEF v, w

(* One component more, below a directory. *)
LEMMA AppendBelow ==
  ASSUME NEW home \in Loc, NEW at \in Loc, NEW comp \in Path
  PROVE  /\ home \o at \in Loc /\ Append(at, comp) \in Loc /\ Append(at, comp) # <<>>
         /\ Append(home \o at, comp) = home \o Append(at, comp)
<1>1. home \o at \in Seq(Path) /\ <<comp>> \in Seq(Path)
  BY DEF Loc
<1>2. (home \o at) \o <<comp>> = home \o (at \o <<comp>>)
  <2>1. home \in Seq(Path) /\ at \in Seq(Path)
    BY DEF Loc
  <2>. QED
    BY <1>1, <2>1, ConcatAssociative
<1>3. Append(home \o at, comp) = (home \o at) \o <<comp>>
  BY <1>1, AppendIsConcat
<1>4. Append(at, comp) = at \o <<comp>>
  BY AppendIsConcat DEF Loc
<1>. QED
  BY <1>1, <1>2, <1>3, <1>4 DEF Loc

(* A component without a dot leads one level down. *)
LEMMA EnterDotless ==
  ASSUME NEW at \in Loc, NEW comp \in Path, comp # <<>>, comp[1] # "."
  PROVE  Enter(at, comp) = Append(at, comp)
<1>1. comp # <<".">> /\ comp # <<".", ".">>
  OBVIOUS
<1>. QED
  BY <1>1 DEF Enter

(* Below a directory, a text without dots leads where it leads from the
   root, in that directory; and somewhere below it when it does not begin
   with a slash. *)
LEMMA WalkBelow ==
  ASSUME NEW home \in Loc, NEW t \in Path, NEW n \in 0..Len(t),
         \A k \in 1..n : t[k] # "."
  PROVE  \A k \in 0..n :
           LET r == Walk(<<>>, t)[k]
               w == Walk(home, t)[k]
           IN /\ r \in WalkState
              /\ w.at = home \o r.at /\ w.comp = r.comp
              /\ r.comp # <<>> => r.comp[1] # "."
              /\ Arrive(w) = home \o Arrive(r)
              /\ k > 0 /\ t[1] # "/" => Arrive(r) # <<>>
<1>. DEFINE r == Walk(<<>>, t)
            w == Walk(home, t)
            Below(k) == /\ w[k].at = home \o r[k].at /\ w[k].comp = r[k].comp
                        /\ r[k].comp # <<>> => r[k].comp[1] # "."
                        /\ k > 0 /\ t[1] # "/" => r[k].at # <<>> \/ r[k].comp # <<>>
            There == {k \in 0..n : Below(k)}
<1>1. /\ <<>> \in Loc /\ Len(t) \in Nat /\ n \in Nat
      /\ \A k \in 1..n : k \in 1..Len(t) /\ t[k] \in Char
  BY DEF Loc, Path
<1>2. /\ r[0] = [at |-> <<>>, comp |-> <<>>] /\ w[0] = [at |-> home, comp |-> <<>>]
      /\ \A k \in 1..n : r[k] = ReadOn(r[k-1], t[k]) /\ w[k] = ReadOn(w[k-1], t[k])
      /\ \A k \in 0..n : r[k] \in WalkState /\ w[k] \in WalkState
  BY <1>1, WalkReads
<1>. HIDE DEF r, w
<1>3. \A k \in 0..n : /\ r[k].at \in Loc /\ r[k].comp \in Path
                      /\ w[k].at \in Loc /\ w[k].comp \in Path
  BY <1>2 DEF WalkState
<1>4. ASSUME NEW k \in 0..n, Below(k)
      PROVE  /\ Arrive(w[k]) = home \o Arrive(r[k])
             /\ r[k].at # <<>> \/ r[k].comp # <<>> => Arrive(r[k]) # <<>>
  <2>. DEFINE at == r[k].at
              comp == r[k].comp
  <2>1. at \in Loc /\ comp \in Path
    BY <1>3
  <2>2. CASE comp = <<>>
    BY <1>4, <2>2 DEF Arrive
  <2>3. CASE comp # <<>>
    <3>1. Enter(at, comp) = Append(at, comp)
      BY <1>4, <2>1, <2>3, EnterDotless
    <3>2. /\ home \o at \in Loc /\ Append(at, comp) # <<>>
          /\ Append(home \o at, comp) = home \o Append(at, comp)
      BY <2>1, AppendBelow
    <3>3. Enter(home \o at, comp) = Append(home \o at, comp)
      BY <1>4, <2>1, <2>3, <3>2, EnterDotless
    <3>5. w[k].at = home \o at /\ w[k].comp = comp
      BY <1>4
    <3>. HIDE DEF at, comp
    <3>6. Arrive(w[k]) = Enter(home \o at, comp)
      BY <2>3, <3>5 DEF Arrive
    <3>7. Arrive(r[k]) = Enter(at, comp)
      BY <2>3 DEF Arrive, at, comp
    <3>. QED
      BY <3>1, <3>2, <3>3, <3>6, <3>7
  <2>. QED
    BY <2>2, <2>3
<1>5. 0 \in There
  <2>1. home \o <<>> = home
    BY DEF Loc
  <2>2. /\ r[0].at = <<>> /\ r[0].comp = <<>>
        /\ w[0].at = home /\ w[0].comp = <<>>
    BY <1>2
  <2>3. Below(0)
    BY <2>1, <2>2
  <2>. QED
    BY <1>1, <2>3
<1>6. ASSUME NEW k \in 0..n, k < n, k \in There PROVE k + 1 \in There
  <2>1. /\ k + 1 \in 1..n /\ k + 1 \in 0..n /\ k + 1 - 1 = k
        /\ t[k + 1] # "." /\ t[k + 1] \in Char
    BY <1>1, <1>6
  <2>2. r[k + 1] = ReadOn(r[k], t[k + 1]) /\ w[k + 1] = ReadOn(w[k], t[k + 1])
    BY <1>2, <2>1
  <2>3. Below(k)
    BY <1>6
  <2>4. CASE t[k + 1] = "/"
    <3>1. /\ r[k + 1].at = Arrive(r[k]) /\ r[k + 1].comp = <<>>
          /\ w[k + 1].at = Arrive(w[k]) /\ w[k + 1].comp = <<>>
      BY <2>2, <2>4 DEF ReadOn
    <3>2. k + 1 > 0 /\ t[1] # "/" => k > 0
      BY <1>6, <2>4
    <3>. QED
      BY <1>4, <2>1, <2>3, <3>1, <3>2
  <2>5. CASE t[k + 1] # "/"
    <3>1. /\ r[k + 1].at = r[k].at /\ r[k + 1].comp = Append(r[k].comp, t[k + 1])
          /\ w[k + 1].at = w[k].at /\ w[k + 1].comp = Append(w[k].comp, t[k + 1])
      BY <2>2, <2>5 DEF ReadOn
    <3>2. /\ Append(r[k].comp, t[k + 1]) # <<>>
          /\ Append(r[k].comp, t[k + 1])[1] # "."
      <4>1. r[k].comp \in Seq(Char)
        BY <1>3 DEF Path
      <4>2. CASE r[k].comp = <<>>
        BY <2>1, <4>2
      <4>3. CASE r[k].comp # <<>>
        <5>1. 1 \in 1..Len(r[k].comp)
          BY <4>1, <4>3
        <5>2. Append(r[k].comp, t[k + 1])[1] = r[k].comp[1]
          BY <2>1, <4>1, <5>1, AppendProperties
        <5>3. Append(r[k].comp, t[k + 1]) # <<>>
          BY <2>1, <4>1, AppendProperties
        <5>. QED
          BY <2>3, <4>3, <5>2, <5>3
      <4>. QED
        BY <4>2, <4>3
    <3>. QED
      BY <2>1, <2>3, <3>1, <3>2
  <2>. QED
    BY <2>4, <2>5
<1>7. 0..n \subseteq There
  <2>. HIDE DEF There
  <2>. QED
    BY <1>1, <1>5, <1>6, InductionUpTo
<1>8. \A k \in 0..n : Below(k)
  BY <1>7
<1>. HIDE DEF Below
<1>9. ASSUME NEW k \in 0..n
      PROVE  /\ r[k] \in WalkState
             /\ w[k].at = home \o r[k].at /\ w[k].comp = r[k].comp
             /\ r[k].comp # <<>> => r[k].comp[1] # "."
             /\ Arrive(w[k]) = home \o Arrive(r[k])
             /\ k > 0 /\ t[1] # "/" => Arrive(r[k]) # <<>>
  BY <1>2, <1>4, <1>8 DEF Below
<1>. QED
  BY <1>9 DEF r, w

(* The directories a location is in, and the location itself. *)
Ancestors(d) == {SubSeq(d, 1, k) : k \in 0..Len(d)}

(* What is above a directory is above one in it. *)
LEMMA AncestorsGrow ==
  ASSUME NEW at \in Loc, NEW comp \in Path
  PROVE  /\ at \in Ancestors(at)
         /\ Ancestors(Append(at, comp)) = Ancestors(at) \cup {Append(at, comp)}
<1>. DEFINE up == Append(at, comp)
            L == Len(at)
<1>1. /\ at \in Seq(Path) /\ up \in Seq(Path) /\ L \in Nat
      /\ Len(up) = L + 1 /\ \A j \in 1..L : up[j] = at[j]
  BY AppendProperties DEF Loc
<1>2. SubSeq(at, 1, L) = at /\ SubSeq(up, 1, L + 1) = up
  BY <1>1, SubSeqFull
<1>. HIDE DEF up
<1>3. ASSUME NEW k \in 0..L PROVE SubSeq(up, 1, k) = SubSeq(at, 1, k)
  <2>1. k \in 0..Len(up) /\ k \in 0..Len(at) /\ \A j \in 1..k : j \in 1..L
    BY <1>1
  <2>2. /\ SubSeq(up, 1, k) \in Seq(Path) /\ SubSeq(at, 1, k) \in Seq(Path)
        /\ Len(SubSeq(up, 1, k)) = k /\ Len(SubSeq(at, 1, k)) = k
        /\ \A j \in 1..k : SubSeq(up, 1, k)[j] = up[j] /\ SubSeq(at, 1, k)[j] = at[j]
    BY <1>1, <2>1, Beginning
  <2>. QED
    BY <1>1, <2>1, <2>2, SeqEqual
<1>4. \A k : k \in 0..Len(up) <=> k \in 0..L \/ k = L + 1
  BY <1>1
<1>5. L \in 0..L
  BY <1>1
<1>6. at \in Ancestors(at)
  BY <1>2, <1>5 DEF Ancestors
<1>7. Ancestors(up) = Ancestors(at) \cup {up}
  BY <1>1, <1>2, <1>3, <1>4 DEF Ancestors
<1>. QED
  BY <1>6, <1>7 DEF up

(* A path without dots only ever leads down. *)
LEMMA WalkDown ==
  ASSUME NEW from \in Loc, NEW p \in Path, NEW n \in 0..Len(p),
         \A k \in 1..n : p[k] # "."
  PROVE  \A k \in 0..n : Walk(from, p)[k].at \in Ancestors(Arrive(Walk(from, p)[n]))
<1>. DEFINE w == Walk(from, p)
            Above(k) == \A j \in 0..k : w[j].at \in Ancestors(w[k].at)
            Down == {k \in 0..n : Above(k)}
<1>1. /\ Len(p) \in Nat /\ n \in Nat /\ \A k \in 1..n : k \in 1..Len(p)
      /\ w[0] = [at |-> from, comp |-> <<>>]
      /\ \A k \in 1..n : w[k] = ReadOn(w[k-1], p[k])
      /\ \A k \in 0..n : w[k] \in WalkState
  <2>1. Len(p) \in Nat /\ n \in Nat /\ \A k \in 1..n : k \in 1..Len(p)
    BY DEF Path
  <2>. QED
    BY <2>1, WalkReads
<1>2. \A k \in 0..n : w[k].comp # <<>> => w[k].comp[1] # "."
  <2>1. \A k \in 0..n : /\ w[k].comp = Walk(<<>>, p)[k].comp
                        /\ Walk(<<>>, p)[k].comp # <<>>
                             => Walk(<<>>, p)[k].comp[1] # "."
    BY WalkBelow
  <2>. QED
    BY <2>1
<1>. HIDE DEF w
<1>3. ASSUME NEW k \in 0..n
      PROVE  /\ w[k].at \in Loc /\ Arrive(w[k]) \in Loc
             /\ w[k].at \in Ancestors(w[k].at) /\ Arrive(w[k]) \in Ancestors(Arrive(w[k]))
             /\ Ancestors(w[k].at) \subseteq Ancestors(Arrive(w[k]))
  <2>. DEFINE at == w[k].at
              comp == w[k].comp
  <2>1. at \in Loc /\ comp \in Path
    BY <1>1 DEF WalkState
  <2>2. CASE comp = <<>>
    <3>1. Arrive(w[k]) = at
      BY <2>2 DEF Arrive
    <3>. QED
      BY <2>1, <3>1, AncestorsGrow
  <2>3. CASE comp # <<>>
    <3>1. Enter(at, comp) = Append(at, comp)
      BY <1>2, <2>1, <2>3, EnterDotless
    <3>2. Arrive(w[k]) = Append(at, comp)
      BY <2>3, <3>1 DEF Arrive
    <3>. QED
      BY <2>1, <3>2, AncestorsGrow, AppendBelow
  <2>. QED
    BY <2>2, <2>3
<1>4. 0 \in Down
  <2>1. w[0].at \in Ancestors(w[0].at)
    BY <1>1, <1>3
  <2>2. \A j \in 0..0 : j = 0
    OBVIOUS
  <2>. QED
    BY <1>1, <2>1, <2>2
<1>5. ASSUME NEW k \in 0..n, k < n, k \in Down PROVE k + 1 \in Down
  <2>1. /\ k + 1 \in 1..n /\ k + 1 \in 0..n /\ k + 1 - 1 = k
        /\ \A j \in 0..k + 1 : j \in 0..k \/ j = k + 1
    BY <1>1, <1>5
  <2>2. w[k + 1] = ReadOn(w[k], p[k + 1])
    BY <1>1, <2>1
  <2>3. CASE p[k + 1] = "/"
    <3>1. w[k + 1].at = Arrive(w[k])
      BY <2>2, <2>3 DEF ReadOn
    <3>2. \A j \in 0..k : w[j].at \in Ancestors(w[k + 1].at)
      BY <1>3, <1>5, <3>1
    <3>. QED
      BY <1>3, <2>1, <3>1, <3>2
  <2>4. CASE p[k + 1] # "/"
    <3>1. w[k + 1].at = w[k].at
      BY <2>2, <2>4 DEF ReadOn
    <3>. QED
      BY <1>3, <1>5, <2>1, <3>1
  <2>. QED
    BY <2>3, <2>4
<1>6. 0..n \subseteq Down
  <2>. HIDE DEF Down
  <2>. QED
    BY <1>1, <1>4, <1>5, InductionUpTo
<1>7. n \in Down
  <2>. HIDE DEF Down
  <2>. QED
    BY <1>1, <1>6
<1>8. \A k \in 0..n : w[k].at \in Ancestors(Arrive(w[n]))
  BY <1>1, <1>3, <1>7
<1>. QED
  BY <1>8 DEF w

(* The directories in which a text looks its components up are there when
   the one it starts from is, and every one before a slash. *)
LEMMA SlashesSuffice ==
  ASSUME NEW from \in Loc, NEW p \in Path, NEW n \in 0..Len(p), NEW D,
         from \in D,
         \A k \in 1..n : p[k] = "/" => Walk(from, p)[k].at \in D
  PROVE  \A k \in 0..n : Walk(from, p)[k].at \in D
<1>. DEFINE w == Walk(from, p)
            There == {k \in 0..n : w[k].at \in D}
<1>1. /\ Len(p) \in Nat /\ n \in Nat
      /\ w[0].at = from
      /\ \A k \in 1..n : w[k] = ReadOn(w[k-1], p[k])
  <2>1. Len(p) \in Nat /\ n \in Nat /\ \A k \in 1..n : k \in 1..Len(p)
    BY DEF Path
  <2>2. /\ w[0] = [at |-> from, comp |-> <<>>]
        /\ \A k \in 1..Len(p) : w[k] = ReadOn(w[k-1], p[k])
    BY WalkReads
  <2>. HIDE DEF w
  <2>. QED
    BY <2>1, <2>2
<1>2. \A k \in 1..n : p[k] = "/" => w[k].at \in D
  OBVIOUS
<1>. HIDE DEF w
<1>3. 0 \in There
  BY <1>1
<1>4. ASSUME NEW k \in 0..n, k < n, k \in There PROVE k + 1 \in There
  <2>1. k + 1 \in 1..n /\ k + 1 \in 0..n /\ k + 1 - 1 = k
    BY <1>1, <1>4
  <2>2. w[k + 1] = ReadOn(w[k], p[k + 1])
    BY <1>1, <2>1
  <2>. QED
    BY <1>2, <1>4, <2>1, <2>2 DEF ReadOn
<1>5. 0..n \subseteq There
  <2>. HIDE DEF There
  <2>. QED
    BY <1>1, <1>3, <1>4, InductionUpTo
<1>. QED
  BY <1>5 DEF w

(* Where a text starts from is there. *)
LEMMA FromIsThere ==
  ASSUME NEW p
  PROVE  From(p) \in Loc /\ From(p) \in {<<>>, Cwd}
BY CwdAssumption DEF From, Loc, Path

(* A text whose directories are there leads to a directory, or to a place
   in one. *)
LEMMA LeadsTo ==
  ASSUME FileSystem(dirs), NEW p \in Path, Leads(p)
  PROVE  \/ Location(p) \in dirs
         \/ \E a \in dirs, c \in Path : Location(p) = Append(a, c)
<1>. DEFINE w == Walk(From(p), p)
            L == Len(p)
            Near == dirs \cup {Append(a, c) : a \in dirs, c \in Path}
            Good == {k \in 0..L : w[k].at \in Near /\ (w[k].comp # <<>> => w[k].at \in dirs)}
<1>1. /\ L \in Nat
      /\ w[0] = [at |-> From(p), comp |-> <<>>]
      /\ \A k \in 1..L : w[k] = ReadOn(w[k-1], p[k])
      /\ \A k \in 0..L : w[k] \in WalkState
  <2>1. L \in Nat
    BY DEF Path
  <2>. QED
    BY <2>1, WalkReads, FromIsThere
<1>2. \A k \in 1..L : p[k] # "/" => w[k-1].at \in dirs
  BY DEF Leads
<1>3. From(p) \in dirs
  BY FromIsThere DEF FileSystem
<1>4. Location(p) = Arrive(w[L])
  BY DEF Location
<1>. HIDE DEF w
<1>5. ASSUME NEW k \in 0..L, k \in Good PROVE Arrive(w[k]) \in Near
  <2>. DEFINE at == w[k].at
              comp == w[k].comp
  <2>1. at \in Loc /\ comp \in Path /\ at \in Near
    BY <1>1, <1>5 DEF WalkState
  <2>2. CASE comp = <<>>
    BY <2>1, <2>2 DEF Arrive
  <2>3. CASE comp # <<>>
    <3>1. at \in dirs
      BY <1>5, <2>3
    <3>2. at # <<>> => Front(at) \in dirs
      <4>1. at # <<>> => Len(at) - 1 \in 0..Len(at)
        BY <2>1 DEF Loc
      <4>. QED
        BY <3>1, <4>1 DEF FileSystem, Front
    <3>3. Enter(at, comp) \in {at, Append(at, comp)} \/ (at # <<>> /\ Enter(at, comp) = Front(at))
      <4>1. CASE comp = <<".">>
        BY <4>1 DEF Enter
      <4>2. CASE comp = <<".", ".">>
        <5>1. comp # <<".">>
          BY <4>2
        <5>. QED
          BY <4>2, <5>1 DEF Enter
      <4>3. CASE comp # <<".">> /\ comp # <<".", ".">>
        BY <4>3 DEF Enter
      <4>. QED
        BY <4>1, <4>2, <4>3
    <3>4. Arrive(w[k]) = Enter(at, comp)
      BY <2>3 DEF Arrive
    <3>. HIDE DEF at, comp
    <3>. QED
      BY <2>1, <3>1, <3>2, <3>3, <3>4
  <2>. QED
    BY <2>2, <2>3
<1>6. 0 \in Good
  BY <1>1, <1>3
<1>7. ASSUME NEW k \in 0..L, k < L, k \in Good PROVE k + 1 \in Good
  <2>1. k + 1 \in 1..L /\ k + 1 \in 0..L /\ k + 1 - 1 = k
    BY <1>1, <1>7
  <2>2. w[k + 1] = ReadOn(w[k], p[k + 1])
    BY <1>1, <2>1
  <2>3. CASE p[k + 1] = "/"
    <3>1. w[k + 1].at = Arrive(w[k]) /\ w[k + 1].comp = <<>>
      BY <2>2, <2>3 DEF ReadOn
    <3>2. Arrive(w[k]) \in Near
      <4>. HIDE DEF Near, Good
      <4>. QED
        BY <1>5, <1>7
    <3>. HIDE DEF Near
    <3>. QED
      BY <2>1, <3>1, <3>2
  <2>4. CASE p[k + 1] # "/"
    <3>1. w[k + 1].at = w[k].at /\ w[k].at \in dirs
      BY <1>2, <2>1, <2>2, <2>4 DEF ReadOn
    <3>. QED
      BY <2>1, <3>1
  <2>. QED
    BY <2>3, <2>4
<1>8. L \in Good
  <2>. HIDE DEF Good
  <2>1. 0..L \subseteq Good
    BY <1>1, <1>6, <1>7, InductionUpTo
  <2>. QED
    BY <1>1, <2>1
<1>9. Arrive(w[L]) \in Near
  <2>. HIDE DEF Good, Near
  <2>. QED
    BY <1>1, <1>5, <1>8
<1>. QED
  BY <1>4, <1>9

-----------------------------------------------------------------------------
(***************************************************************************)
(* mkdir() and the types.                                                  *)
(***************************************************************************)

(* A directory more, in one that is there. *)
LEMMA FileSystemGrows ==
  ASSUME NEW fs, FileSystem(fs), NEW a \in fs, NEW c \in Path
  PROVE  FileSystem(fs \cup {Append(a, c)})
<1>. DEFINE new == Append(a, c)
<1>1. a \in Loc /\ fs \subseteq Loc /\ {<<>>, Cwd} \subseteq fs
  BY DEF FileSystem, Loc, Path
<1>2. new \in Loc
  BY <1>1, AppendBelow
<1>3. \A d \in fs : \A k \in 0..Len(d) : SubSeq(d, 1, k) \in fs
  BY DEF FileSystem
<1>4. Ancestors(new) \subseteq fs \cup {new}
  <2>1. Ancestors(a) \subseteq fs
    BY <1>3 DEF Ancestors
  <2>. QED
    BY <1>1, <2>1, AncestorsGrow
<1>5. \A k \in 0..Len(new) : SubSeq(new, 1, k) \in fs \cup {new}
  BY <1>4 DEF Ancestors
<1>. HIDE DEF new
<1>6. \A d \in fs \cup {new} : \A k \in 0..Len(d) : SubSeq(d, 1, k) \in fs \cup {new}
  BY <1>3, <1>5
<1>7. fs \cup {new} \subseteq Seq(Seq(Char))
  BY <1>1, <1>2 DEF Loc, Path
<1>8. FileSystem(fs \cup {new})
  BY <1>1, <1>6, <1>7 DEF FileSystem
<1>. QED
  BY <1>8 DEF new

(* What mkdir() does: nothing, or the directory it was called for, in one
   that is there; and it is there afterwards where nothing stood against
   it. *)
LEMMA MkdirKeeps ==
  ASSUME FileSystem(dirs), refusals \in 0..MaxRefusals, spoilt \in BOOLEAN,
         NEW p \in Path, Mkdir(p)
  PROVE  /\ FileSystem(dirs')
         /\ dirs \subseteq dirs' /\ dirs' \subseteq dirs \cup {Location(p)}
         /\ refusals' \in 0..MaxRefusals /\ spoilt' \in BOOLEAN
         /\ ~spoilt' => ~spoilt
         /\ ~spoilt' /\ Leads(p) /\ Writable(Front(Location(p))) => Location(p) \in dirs'
<1>. DEFINE at == Location(p)
            makes == Leads(p) /\ at \notin dirs /\ Writable(Front(at))
<1>1. \/ /\ dirs' = IF makes THEN dirs \cup {at} ELSE dirs
         /\ UNCHANGED <<refusals, spoilt>>
      \/ /\ makes /\ refusals < MaxRefusals
         /\ refusals' = refusals + 1 /\ spoilt' = TRUE /\ UNCHANGED dirs
  BY DEF Mkdir
<1>2. makes => FileSystem(dirs \cup {at})
  <2>. SUFFICES ASSUME makes PROVE FileSystem(dirs \cup {at})
    OBVIOUS
  <2>1. PICK a \in dirs, c \in Path : at = Append(a, c)
    BY LeadsTo
  <2>. QED
    BY <2>1, FileSystemGrows
<1>. HIDE DEF at
<1>3. CASE /\ dirs' = IF makes THEN dirs \cup {at} ELSE dirs
           /\ UNCHANGED <<refusals, spoilt>>
  <2>1. FileSystem(dirs')
    BY <1>2, <1>3
  <2>2. Leads(p) /\ Writable(Front(at)) => at \in dirs'
    BY <1>3
  <2>. QED
    BY <1>3, <2>1, <2>2 DEF at
<1>4. CASE /\ makes /\ refusals < MaxRefusals
           /\ refusals' = refusals + 1 /\ spoilt' = TRUE /\ UNCHANGED dirs
  <2>1. refusals' \in 0..MaxRefusals
    BY <1>4, MaxRefusalsAssumption
  <2>. QED
    BY <1>4, <2>1
<1>. QED
  BY <1>1, <1>3, <1>4

(* The text of a path, and what is left of it. *)
LEMMA CutType ==
  ASSUME NEW p \in Path
  PROVE  /\ Cut(p) \in Path /\ Len(Cut(p)) < PathSize /\ Len(Cut(p)) <= Len(p)
         /\ \A k \in 1..Len(Cut(p)) : Cut(p)[k] = p[k]
         /\ IF Len(p) < PathSize THEN Cut(p) = p ELSE Len(Cut(p)) = PathSize - 1
<1>1. Len(p) \in Nat /\ PathSize \in Nat \ {0}
  BY PathSizeAssumption DEF Path
<1>2. CASE Len(p) > PathSize - 1
  <2>1. PathSize - 1 \in 0..Len(p) /\ ~ (Len(p) < PathSize)
    BY <1>1, <1>2
  <2>2. Cut(p) = SubSeq(p, 1, PathSize - 1)
    BY <1>2 DEF Cut
  <2>3. /\ Cut(p) \in Path /\ Len(Cut(p)) = PathSize - 1
        /\ \A k \in 1..PathSize - 1 : Cut(p)[k] = p[k]
    BY <2>1, <2>2, Beginning DEF Path
  <2>. QED
    BY <1>1, <1>2, <2>1, <2>3
<1>3. CASE Len(p) <= PathSize - 1
  <2>1. Cut(p) = p
    BY <1>1, <1>3 DEF Cut
  <2>. QED
    BY <1>1, <1>3, <2>1
<1>. QED
  BY <1>1, <1>2, <1>3

(* Where the package's characters begin in the text of a path. *)
Base == IF output_dir = <<".">> THEN 0 ELSE Len(output_dir) + 1

(* The text is output_dir, a slash and the package, or the package. *)
LEMMA TextIs ==
  ASSUME output_dir \in OutputDirs, NEW p \in Path
  PROVE  /\ PathText(p) \in Path /\ Base \in Nat /\ Len(PathText(p)) = Base + Len(p)
         /\ Base > 0 => /\ Base = Len(output_dir) + 1 /\ Len(output_dir) > 0
                        /\ output_dir # <<".">> /\ PathText(p)[Base] = "/"
                        /\ \A k \in 1..Len(output_dir) : PathText(p)[k] = output_dir[k]
         /\ Base = 0 => output_dir = <<".">>
         /\ \A k \in 1..Len(p) : PathText(p)[Base + k] = p[k]
<1>. DEFINE dir == output_dir \o <<"/">>
            N == Len(output_dir)
<1>1. output_dir \in Path /\ output_dir # <<>> /\ p \in Seq(Char) /\ "/" \in Char
  BY OutputDirsAssumption, CharAssumption DEF Path
<1>2. /\ N \in Nat /\ N > 0 /\ Len(p) \in Nat
      /\ dir \in Seq(Char) /\ Len(dir) = N + 1 /\ dir[N + 1] = "/"
      /\ \A k \in 1..N : dir[k] = output_dir[k]
  BY <1>1 DEF Path
<1>3. CASE output_dir = <<".">>
  <2>1. Base = 0 /\ PathText(p) = p
    BY <1>3 DEF Base, PathText
  <2>2. \A k \in 1..Len(p) : 0 + k = k
    BY <1>2
  <2>. QED
    BY <1>1, <1>2, <1>3, <2>1, <2>2 DEF Path
<1>4. CASE output_dir # <<".">>
  <2>1. Base = N + 1 /\ PathText(p) = dir \o p
    BY <1>4 DEF Base, PathText
  <2>. HIDE DEF dir
  <2>2. /\ dir \o p \in Seq(Char) /\ Len(dir \o p) = N + 1 + Len(p)
        /\ \A k \in 1..N + 1 : (dir \o p)[k] = dir[k]
        /\ \A k \in 1..Len(p) : (dir \o p)[N + 1 + k] = p[k]
    <3>1. /\ dir \o p \in Seq(Char) /\ Len(dir \o p) = Len(dir) + Len(p)
          /\ \A k \in 1..Len(dir) + Len(p) :
               (dir \o p)[k] = IF k <= Len(dir) THEN dir[k] ELSE p[k - Len(dir)]
      BY <1>1, <1>2, ConcatProperties
    <3>2. \A k \in 1..N + 1 : k \in 1..N + 1 + Len(p) /\ k <= N + 1
      BY <1>2
    <3>3. \A k \in 1..Len(p) : /\ N + 1 + k \in 1..N + 1 + Len(p)
                               /\ ~ (N + 1 + k <= N + 1) /\ N + 1 + k - (N + 1) = k
      BY <1>2
    <3>. QED
      BY <1>2, <3>1, <3>2, <3>3
  <2>3. N + 1 \in 1..N + 1 /\ \A k \in 1..N : k \in 1..N + 1
    BY <1>2
  <2>. QED
    BY <1>1, <1>2, <1>4, <2>1, <2>2, <2>3 DEF Path
<1>. QED
  BY <1>3, <1>4

-----------------------------------------------------------------------------
(***************************************************************************)
(* Types, and the shape of package_path.                                   *)
(***************************************************************************)

(* The values of the constants have the types of the variables. *)
LEMMA InitTypeOK == Init => TypeOK /\ Shape /\ NoResultYet
<1>. SUFFICES ASSUME Init PROVE TypeOK /\ Shape /\ NoResultYet
  OBVIOUS
<1>1. FileSystem(dirs)
  BY FileSystemsAssumption DEF Init
<1>2. package_path = <<>> /\ calls = 0 /\ refusals = 0
  BY DEF Init
<1>3. package_path \in Seq(Char) /\ Len(package_path) < PathSize
  BY <1>2, PathSizeAssumption
<1>4. calls \in 0..MaxCalls /\ refusals \in 0..MaxRefusals
  BY <1>2, MaxCallsAssumption, MaxRefusalsAssumption
<1>. QED
  BY <1>1, <1>3, <1>4 DEF Init, TypeOK, Shape, InCall, NoResultYet

(* One dot becomes a slash. *)
LEMMA TurnDot ==
  ASSUME TypeOK, NEW d \in Dots, NEW q, q = ReplaceAt(package_path, d, "/")
  PROVE  /\ q \in Path /\ Len(q) = Len(package_path)
         /\ \A k \in 1..Len(q) : q[k] = IF k = d THEN "/" ELSE package_path[k]
         /\ {k \in 1..Len(q) : q[k] = "."} = Dots \ {d}
<1>1. d \in 1..Len(package_path) /\ "/" \in Char /\ package_path \in Seq(Char)
  BY CharAssumption DEF TypeOK, Dots
<1>2. /\ q \in Seq(Char) /\ Len(q) = Len(package_path)
      /\ \A k \in 1..Len(package_path) : q[k] = IF k = d THEN "/" ELSE package_path[k]
  BY <1>1, ExceptSeq DEF ReplaceAt
<1>. QED
  BY <1>2 DEF Dots, Path

(* The paths that mkdir() is called for. *)
LEMMA PathTypes ==
  ASSUME TypeOK
  PROVE  /\ output_dir \in Path /\ output_dir # <<>> /\ package_path \in Path
         /\ \A d \in Dots : /\ SubSeq(package_path, 1, d - 1) \in Path
                           /\ d - 1 \in 0..Len(package_path)
                           /\ Len(SubSeq(package_path, 1, d - 1)) = d - 1
                           /\ \A k \in 1..d - 1 :
                                SubSeq(package_path, 1, d - 1)[k] = package_path[k]
<1>1. output_dir \in Path /\ output_dir # <<>> /\ package_path \in Seq(Char)
  BY OutputDirsAssumption DEF TypeOK, Path
<1>2. Len(package_path) \in Nat
  BY <1>1
<1>3. \A d \in Dots : d - 1 \in 0..Len(package_path)
  BY <1>2 DEF Dots
<1>. QED
  BY <1>1, <1>3, Beginning DEF Path

(* generate() makes its directory, or does not. *)
LEMMA MakeOutputDirType ==
  ASSUME TypeOK, MakeOutputDir
  PROVE  TypeOK'
<1>1. output_dir \in Path /\ FileSystem(dirs) /\ refusals \in 0..MaxRefusals
      /\ spoilt \in BOOLEAN /\ Mkdir(output_dir)
  BY PathTypes DEF TypeOK, MakeOutputDir
<1>2. FileSystem(dirs') /\ dirs \subseteq dirs' /\ refusals' \in 0..MaxRefusals
      /\ spoilt' \in BOOLEAN
  BY <1>1, MkdirKeeps
<1>. QED
  BY <1>2 DEF TypeOK, MakeOutputDir

(* The package of a call and the text of its path. *)
LEMMA StartCallType ==
  ASSUME TypeOK, StartCall
  PROVE  /\ TypeOK' /\ package' \in Path /\ PathText(package') \in Path
         /\ package_path' = Cut(PathText(package'))
<1>1. package' \in Packages /\ class' \in Classes /\ package' \in Path
      /\ package_path' = Cut(PathText(package'))
  BY PackagesAssumption DEF StartCall, Path
<1>2. PathText(package') \in Path
  BY <1>1, TextIs DEF TypeOK
<1>3. package_path' \in Path /\ Len(package_path') < PathSize
  <2>1. \A t \in Path : Cut(t) \in Path /\ Len(Cut(t)) < PathSize
    BY CutType
  <2>. QED
    BY <1>1, <1>2, <2>1
<1>4. calls' \in 0..MaxCalls
  <2>1. calls \in 0..MaxCalls /\ calls < MaxCalls /\ calls' = calls + 1
    BY DEF TypeOK, StartCall
  <2>. QED
    BY <2>1, MaxCallsAssumption
<1>. QED
  BY <1>1, <1>2, <1>3, <1>4 DEF TypeOK, StartCall, Path

(* The directory before a dot. *)
LEMMA MakeParentType ==
  ASSUME TypeOK, MakeParent
  PROVE  TypeOK'
<1>1. PICK d \in Dots : /\ \A e \in Dots : d <= e
                        /\ Mkdir(SubSeq(package_path, 1, d - 1))
                        /\ package_path' = ReplaceAt(package_path, d, "/")
  BY DEF MakeParent
<1>2. SubSeq(package_path, 1, d - 1) \in Path
  BY PathTypes
<1>3. FileSystem(dirs') /\ dirs \subseteq dirs' /\ refusals' \in 0..MaxRefusals
      /\ spoilt' \in BOOLEAN
  BY <1>1, <1>2, MkdirKeeps DEF TypeOK
<1>4. package_path' \in Path /\ Len(package_path') = Len(package_path)
  BY <1>1, TurnDot
<1>. QED
  BY <1>3, <1>4 DEF TypeOK, MakeParent, Path

(* The directory of the package. *)
LEMMA MakePackageDirType ==
  ASSUME TypeOK, MakePackageDir
  PROVE  TypeOK'
<1>1. package_path \in Path /\ FileSystem(dirs) /\ refusals \in 0..MaxRefusals
      /\ spoilt \in BOOLEAN /\ Mkdir(package_path)
  BY PathTypes DEF TypeOK, MakePackageDir
<1>2. FileSystem(dirs') /\ dirs \subseteq dirs' /\ refusals' \in 0..MaxRefusals
      /\ spoilt' \in BOOLEAN
  BY <1>1, MkdirKeeps
<1>. QED
  BY <1>2 DEF TypeOK, MakePackageDir

(* file_path is package_path, a slash and the name of the file; FileDir is
   where package_path leads, unless it is empty. *)
LEMMA FilePathIs ==
  ASSUME TypeOK, class \in Classes
  PROVE  LET N == Len(package_path)
         IN /\ file_path \in Path /\ N \in Nat /\ Len(file_path) = N + 2
            /\ \A k \in 1..N : file_path[k] = package_path[k]
            /\ file_path[N + 1] = "/" /\ file_path[N + 2] # "/" /\ file_path # <<>>
            /\ FileDir = Arrive(Walk(From(file_path), file_path)[N])
            /\ package_path # <<>> => /\ From(file_path) = From(package_path)
                                     /\ FileDir = Location(package_path)
<1>. DEFINE N == Len(package_path)
            tail == <<"/", class>>
            w == Walk(From(file_path), file_path)
<1>1. /\ package_path \in Seq(Char) /\ N \in Nat
      /\ "/" \in Char /\ class \in Char /\ class # "/"
  <2>1. package_path \in Seq(Char)
    BY DEF TypeOK
  <2>2. "/" \in Char /\ class \in Char /\ class # "/"
    BY CharAssumption
  <2>. QED
    BY <2>1, <2>2
<1>2. tail \in Seq(Char) /\ Len(tail) = 2 /\ tail[1] = "/" /\ tail[2] = class
  BY <1>1
<1>3. /\ file_path \in Seq(Char) /\ Len(file_path) = N + 2
      /\ \A k \in 1..N : file_path[k] = package_path[k]
      /\ file_path[N + 1] = "/" /\ file_path[N + 2] = class
  <2>. HIDE DEF tail
  <2>1. file_path = package_path \o tail
    BY DEF file_path, tail
  <2>2. /\ file_path \in Seq(Char) /\ Len(file_path) = N + Len(tail)
        /\ \A k \in 1..N + Len(tail) :
             file_path[k] = IF k <= N THEN package_path[k] ELSE tail[k - N]
    BY <1>1, <1>2, <2>1, ConcatProperties
  <2>3. /\ N + 1 \in 1..N + 2 /\ ~ (N + 1 <= N) /\ N + 1 - N = 1
        /\ N + 2 \in 1..N + 2 /\ ~ (N + 2 <= N) /\ N + 2 - N = 2
        /\ \A k \in 1..N : k \in 1..N + 2 /\ k <= N
    BY <1>1
  <2>. QED
    BY <1>2, <2>2, <2>3
<1>4. file_path # <<>> /\ file_path \in Path
  BY <1>1, <1>3 DEF Path
<1>5. FileDir = Arrive(w[N])
  <2>1. N + 1 \in 1..Len(file_path) /\ N + 1 - 1 = N
    BY <1>1, <1>3
  <2>2. w[N + 1] = ReadOn(w[N], file_path[N + 1])
    <3>1. From(file_path) \in Loc
      BY FromIsThere
    <3>2. \A f \in Loc, q \in Path : \A k \in 1..Len(q) :
            Walk(f, q)[k] = ReadOn(Walk(f, q)[k-1], q[k])
      BY WalkReads
    <3>3. \A k \in 1..Len(file_path) : w[k] = ReadOn(w[k-1], file_path[k])
      BY <1>4, <3>1, <3>2
    <3>4. w[N + 1] = ReadOn(w[N + 1 - 1], file_path[N + 1])
      BY <2>1, <3>3
    <3>. QED
      BY <2>1, <3>4
  <2>. HIDE DEF w
  <2>3. FileDir = w[N + 1].at
    BY DEF FileDir, w
  <2>. QED
    BY <1>3, <2>2, <2>3 DEF ReadOn
<1>6. ASSUME package_path # <<>>
      PROVE  From(file_path) = From(package_path) /\ FileDir = Location(package_path)
  <2>1. 1 \in 1..N
    BY <1>1, <1>6
  <2>2. Head(file_path) = Head(package_path)
    BY <1>1, <1>3, <1>4, <1>6, <2>1
  <2>3. From(file_path) = From(package_path)
    BY <1>4, <1>6, <2>2 DEF From
  <2>4. w[N] = Walk(From(package_path), package_path)[N]
    <3>1. N \in 0..N /\ N <= Len(file_path) /\ N <= Len(package_path)
      BY <1>1, <1>3
    <3>2. package_path \in Path
      BY <1>1 DEF Path
    <3>. QED
      BY <1>1, <1>3, <1>4, <2>3, <3>1, <3>2, FromIsThere, WalksAgree
  <2>. QED
    BY <1>5, <2>3, <2>4 DEF Location
<1>. QED
  BY <1>1, <1>3, <1>4, <1>5, <1>6

(* A file is in a directory that is there. *)
LEMMA OpenFileType ==
  ASSUME TypeOK, Shape, OpenFile
  PROVE  TypeOK'
<1>1. class \in Classes /\ Leads(file_path)
  BY DEF Shape, InCall, OpenFile
<1>. DEFINE N == Len(package_path)
<1>2. N \in Nat /\ Len(file_path) = N + 2 /\ file_path[N + 2] # "/"
  BY <1>1, FilePathIs
<1>3. N + 2 \in 1..Len(file_path) /\ N + 2 - 1 = N + 1
  BY <1>2
<1>4. FileDir \in dirs
  BY <1>1, <1>2, <1>3 DEF Leads, FileDir
<1>5. /\ files' = files \cup {[dir |-> FileDir, class |-> class]}
      /\ UNCHANGED <<output_dir, dirs, root_writable, package, class, package_path,
                     calls, refusals, spoilt>>
      /\ ret' = 0 /\ pc' = "idle"
  BY DEF OpenFile
<1>6. \A f \in files' : f.dir \in dirs' /\ f.class \in Classes
  <2>1. \A f \in files : f.dir \in dirs /\ f.class \in Classes
    BY DEF TypeOK
  <2>. QED
    BY <1>1, <1>4, <1>5, <2>1
<1>. QED
  BY <1>5, <1>6 DEF TypeOK

(* Every step keeps the types. *)
LEMMA NextTypeOK == TypeOK /\ Shape /\ [Next]_vars => TypeOK'
<1>. SUFFICES ASSUME TypeOK, Shape, [Next]_vars PROVE TypeOK'
  OBVIOUS
<1>1. CASE UNCHANGED vars
  BY <1>1 DEF vars, TypeOK
<1>2. CASE OpenFails
  BY <1>2 DEF TypeOK, OpenFails
<1>. QED
  BY <1>1, <1>2, MakeOutputDirType, StartCallType, MakeParentType,
     MakePackageDirType, OpenFileType DEF Next

(* package_path keeps its shape: the first of its dots becomes a slash, and
   no other character changes. *)
LEMMA ShapeStep == TypeOK /\ Shape /\ [Next]_vars => Shape'
<1>. SUFFICES ASSUME TypeOK, Shape, [Next]_vars PROVE Shape'
  OBVIOUS
<1>1. CASE StartCall
  <2>1. /\ package' \in Packages /\ class' \in Classes /\ pc' = "path"
        /\ output_dir' = output_dir
    BY <1>1 DEF StartCall
  <2>2. PathText(package') \in Path /\ package_path' = Cut(PathText(package'))
    BY <1>1, StartCallType
  <2>3. \A t \in Path : \A k \in 1..Len(Cut(t)) : Cut(t)[k] = t[k]
    BY CutType
  <2>4. PathText(package)' = PathText(package')
    BY <2>1 DEF PathText
  <2>5. Cut(PathText(package))' = Cut(PathText(package'))
    BY <2>4 DEF Cut
  <2>6. \A k \in 1..Len(package_path') : package_path'[k] = PathText(package)'[k]
    BY <2>2, <2>3, <2>4
  <2>. QED
    BY <2>1, <2>2, <2>5, <2>6 DEF Shape
<1>2. CASE MakeParent
  <2>1. PICK d \in Dots : /\ \A e \in Dots : d <= e
                          /\ package_path' = ReplaceAt(package_path, d, "/")
    BY <1>2 DEF MakeParent
  <2>2. InCall /\ pc' = "path" /\ UNCHANGED <<output_dir, package, class>>
    BY <1>2 DEF MakeParent, InCall
  <2>3. /\ Len(package_path') = Len(package_path)
        /\ \A k \in 1..Len(package_path') :
             package_path'[k] = IF k = d THEN "/" ELSE package_path[k]
        /\ {k \in 1..Len(package_path') : package_path'[k] = "."} = Dots \ {d}
    BY <2>1, TurnDot
  <2>4. Dots' = Dots \ {d}
    BY <2>3 DEF Dots
  <2>5. \A e \in Dots' : d < e
    <3>1. \A e \in Dots : e \in Int
      BY DEF Dots
    <3>. QED
      BY <2>1, <2>4, <3>1
  <2>6. PathText(package)' = PathText(package)
        /\ Cut(PathText(package))' = Cut(PathText(package))
    BY <2>2 DEF PathText, Cut
  <2>7. ASSUME NEW k \in 1..Len(package_path')
        PROVE  \/ package_path'[k] = PathText(package)'[k]
               \/ /\ package_path'[k] = "/" /\ PathText(package)'[k] = "."
                  /\ \A e \in Dots' : k < e
    <3>1. \/ package_path[k] = PathText(package)[k]
          \/ /\ package_path[k] = "/" /\ PathText(package)[k] = "."
             /\ \A e \in Dots : k < e
      BY <2>2, <2>3 DEF Shape
    <3>2. CASE k = d
      <4>1. package_path[k] = "."
        BY <3>2 DEF Dots
      <4>2. PathText(package)[k] = "." /\ package_path'[k] = "/"
        BY <2>3, <3>1, <3>2, <4>1
      <4>. QED
        BY <2>5, <2>6, <3>2, <4>2
    <3>3. CASE k # d
      BY <2>3, <2>4, <2>6, <3>1, <3>3
    <3>. QED
      BY <3>2, <3>3
  <2>8. package' \in Packages /\ class' \in Classes
        /\ Len(package_path') = Len(Cut(PathText(package)))'
    BY <2>2, <2>3, <2>6 DEF Shape
  <2>. QED
    BY <2>2, <2>7, <2>8 DEF Shape
<1>3. CASE MakePackageDir
  <2>1. InCall /\ Dots = {} /\ UNCHANGED <<output_dir, package, class, package_path>>
    BY <1>3 DEF MakePackageDir, InCall
  <2>2. Dots' = Dots /\ PathText(package)' = PathText(package)
        /\ Cut(PathText(package))' = Cut(PathText(package))
    BY <2>1 DEF Dots, PathText, Cut
  <2>. QED
    BY <2>1, <2>2 DEF Shape
<1>4. CASE MakeOutputDir \/ OpenFile \/ OpenFails
  BY <1>4 DEF MakeOutputDir, OpenFile, OpenFails, Shape, InCall
<1>5. CASE UNCHANGED vars
  <2>1. UNCHANGED <<output_dir, package, class, package_path, pc>>
    BY <1>5 DEF vars
  <2>2. Dots' = Dots /\ PathText(package)' = PathText(package)
        /\ Cut(PathText(package))' = Cut(PathText(package))
    BY <2>1 DEF Dots, PathText, Cut
  <2>. QED
    BY <2>1, <2>2 DEF Shape, InCall
<1>. QED
  BY <1>1, <1>2, <1>3, <1>4, <1>5 DEF Next

(* TypeOK: package_path keeps a byte for its terminator, no mkdir() makes a
   directory that is in none, and no file is in a directory that is not
   there (src/src/java_record.c:515-533). *)
THEOREM PathsTypeOK == Spec => []TypeOK
<1>1. Init => TypeOK /\ Shape
  BY InitTypeOK
<1>2. TypeOK /\ Shape /\ [Next]_vars => TypeOK' /\ Shape'
  BY NextTypeOK, ShapeStep
<1>. QED
  BY <1>1, <1>2, PTL DEF Spec

-----------------------------------------------------------------------------
(***************************************************************************)
(* Where package_path leads.                                               *)
(***************************************************************************)

(* Up to the package, a text that begins as package_path does leads to the
   output directory. *)
LEMMA WalkHome ==
  ASSUME output_dir \in OutputDirs, NEW q \in Path, Base <= Len(q),
         Base = 0 /\ q # <<>> => Head(q) # "/",
         Base > 0 => /\ q[Base] = "/"
                     /\ \A k \in 1..Len(output_dir) : q[k] = output_dir[k]
  PROVE  Home \in Loc /\ Walk(From(q), q)[Base] = Begin(Home)
<1>. DEFINE N == Len(output_dir)
            v == Walk(From(output_dir), output_dir)
            w == Walk(From(q), q)
<1>1. output_dir \in Path /\ output_dir # <<>> /\ N \in Nat /\ N > 0 /\ Len(q) \in Nat
  BY OutputDirsAssumption DEF Path
<1>2. From(q) \in Loc /\ From(output_dir) \in Loc
  BY FromIsThere
<1>3. /\ v[0] = [at |-> From(output_dir), comp |-> <<>>]
      /\ \A k \in 1..N : v[k] = ReadOn(v[k-1], output_dir[k])
      /\ \A k \in 0..N : v[k] \in WalkState
  BY <1>1, <1>2, WalkReads
<1>4. /\ w[0] = [at |-> From(q), comp |-> <<>>]
      /\ \A k \in 1..Len(q) : w[k] = ReadOn(w[k-1], q[k])
  BY <1>1, <1>2, WalkReads
<1>5. Home = Arrive(v[N])
  BY DEF Home, Location
<1>6. N \in 0..N
  BY <1>1
<1>7. Home \in Loc
  <2>1. v[N] \in WalkState
    BY <1>3, <1>6
  <2>2. \A s \in WalkState : Arrive(s) \in Loc
    BY CharAssumption, ReadOnType
  <2>. QED
    BY <1>5, <2>1, <2>2
<1>8. CASE Base = 0
  <2>1. output_dir = <<".">>
    BY <1>1, <1>8 DEF Base
  <2>2. N = 1 /\ output_dir[1] = "." /\ Head(output_dir) = "."
    BY <2>1
  <2>3. From(output_dir) = Cwd /\ From(q) = Cwd
    BY <1>8, <2>2 DEF From
  <2>4. v[1] = ReadOn(v[0], ".")
    BY <1>3, <2>2
  <2>5. v[1] = [at |-> Cwd, comp |-> <<".">>]
    <3>1. Append(<<>>, ".") = <<".">>
      OBVIOUS
    <3>. QED
      BY <1>3, <2>3, <2>4, <3>1 DEF ReadOn
  <2>6. Home = Cwd
    BY <1>5, <2>2, <2>5 DEF Arrive, Enter
  <2>. QED
    BY <1>4, <1>7, <1>8, <2>3, <2>6 DEF Begin
<1>9. CASE Base > 0
  <2>1. Base = N + 1 /\ Base \in 1..Len(q) /\ Base - 1 = N
    BY <1>1, <1>9 DEF Base
  <2>2. q # <<>> /\ q[1] = output_dir[1] /\ \A k \in 1..N : q[k] = output_dir[k]
    BY <1>1, <1>9, <2>1
  <2>3. From(q) = From(output_dir)
    BY <1>1, <2>2 DEF From
  <2>4. w[N] = v[N]
    <3>1. N <= Len(q) /\ N <= Len(output_dir)
      BY <1>1, <2>1
    <3>2. \A k \in 0..N : Walk(From(q), q)[k] = Walk(From(q), output_dir)[k]
      BY <1>1, <1>2, <2>2, <3>1, WalksAgree
    <3>. QED
      BY <1>6, <2>3, <3>2
  <2>. HIDE DEF v, w
  <2>5. w[Base] = ReadOn(w[N], "/")
    BY <1>4, <1>9, <2>1
  <2>6. w[Base] = Begin(Home)
    BY <1>5, <2>4, <2>5 DEF ReadOn, Begin
  <2>. QED
    BY <1>7, <2>6 DEF w
<1>10. Base \in Nat
  BY <1>1 DEF Base
<1>. QED
  BY <1>8, <1>9, <1>10

(* Beyond it, a text without dots leads where the same text leads from the
   root, below the output directory. *)
LEMMA WalkInside ==
  ASSUME output_dir \in OutputDirs, NEW q \in Path, Base <= Len(q),
         Base = 0 /\ q # <<>> => Head(q) # "/",
         Base > 0 => /\ q[Base] = "/"
                     /\ \A k \in 1..Len(output_dir) : q[k] = output_dir[k],
         NEW t \in Path, Len(t) = Len(q) - Base,
         \A k \in 1..Len(t) : t[k] = q[Base + k] /\ t[k] # "."
  PROVE  /\ Home \in Loc
         /\ \A k \in 0..Len(t) : Arrive(Walk(<<>>, t)[k]) \in Loc
         /\ Location(q) = Home \o Arrive(Walk(<<>>, t)[Len(t)])
         /\ t # <<>> /\ t[1] # "/" => Arrive(Walk(<<>>, t)[Len(t)]) # <<>>
<1>. DEFINE n == Len(t)
            w == Walk(From(q), q)
            r == Walk(<<>>, t)
<1>1. /\ Home \in Loc /\ From(q) \in Loc
      /\ w[Base] = Begin(Home)
  BY WalkHome, FromIsThere
<1>2. n \in Nat /\ Len(q) \in Nat /\ Base \in Nat /\ Base + n = Len(q) /\ n \in 0..n
  BY OutputDirsAssumption DEF Path, Base
<1>3. \A k \in 0..n : w[Base + k] = Walk(Home, t)[k]
  <2>1. \A f, h \in Loc, b \in Nat :
          /\ b + n <= Len(q) /\ \A k \in 1..n : q[b + k] = t[k]
          /\ Walk(f, q)[b] = Begin(h)
          => \A k \in 0..n : Walk(f, q)[b + k] = Walk(h, t)[k]
    BY WalkGoesOn
  <2>2. Base + n <= Len(q) /\ \A k \in 1..n : q[Base + k] = t[k]
    BY <1>2
  <2>. QED
    BY <1>1, <1>2, <2>1, <2>2
<1>4. \A k \in 0..n : /\ r[k] \in WalkState
                      /\ Arrive(Walk(Home, t)[k]) = Home \o Arrive(r[k])
                      /\ k > 0 /\ t[1] # "/" => Arrive(r[k]) # <<>>
  BY <1>1, <1>2, WalkBelow
<1>5. \A k \in 0..n : Arrive(r[k]) \in Loc
  <2>1. \A s \in WalkState : Arrive(s) \in Loc
    BY CharAssumption, ReadOnType
  <2>. QED
    BY <1>4, <2>1
<1>6. Location(q) = Arrive(w[Len(q)])
  BY DEF Location
<1>. HIDE DEF w, r
<1>7. Location(q) = Home \o Arrive(r[n])
  BY <1>2, <1>3, <1>4, <1>6
<1>8. t # <<>> => n > 0
  BY <1>2 DEF Path
<1>. QED
  BY <1>1, <1>2, <1>4, <1>5, <1>7, <1>8 DEF r

(* A location below another one. *)
LEMMA Below ==
  ASSUME NEW home \in Loc, NEW a \in Loc
  PROVE  /\ home \o a \in Loc /\ IsPrefix(home, home \o a) /\ IsPrefix(home, home)
         /\ a # <<>> => /\ home \o a # home /\ home \o a # <<>>
                        /\ Front(home \o a) = <<>> => home = <<>>
<1>. DEFINE H == Len(home)
            L == Len(a)
            d == home \o a
<1>1. home \in Seq(Path) /\ a \in Seq(Path) /\ H \in Nat /\ L \in Nat
      /\ (a # <<>> => L > 0)
  BY DEF Loc
<1>2. /\ d \in Seq(Path) /\ Len(d) = H + L
      /\ \A k \in 1..H + L : d[k] = IF k <= H THEN home[k] ELSE a[k - H]
  BY <1>1, ConcatProperties
<1>. HIDE DEF d
<1>3. SubSeq(home, 1, H) = home
  BY <1>1, SubSeqFull
<1>4. SubSeq(d, 1, H) = home
  <2>1. H \in 0..Len(d) /\ \A j \in 1..H : j \in 1..H + L /\ j <= H
    BY <1>1, <1>2
  <2>2. /\ SubSeq(d, 1, H) \in Seq(Path) /\ Len(SubSeq(d, 1, H)) = H
        /\ \A j \in 1..H : SubSeq(d, 1, H)[j] = d[j]
    BY <1>2, <2>1, Beginning
  <2>3. \A j \in 1..H : SubSeq(d, 1, H)[j] = home[j]
    BY <1>2, <2>1, <2>2
  <2>. QED
    BY <1>1, <2>2, <2>3, SeqEqual
<1>5. IsPrefix(home, d) /\ IsPrefix(home, home)
  BY <1>1, <1>2, <1>3, <1>4 DEF IsPrefix
<1>6. ASSUME a # <<>>
      PROVE  /\ d # home /\ d # <<>>
             /\ Front(d) = <<>> => home = <<>>
  <2>1. L > 0 /\ Len(d) # H /\ Len(d) # 0 /\ d # <<>>
    BY <1>1, <1>2, <1>6
  <2>2. Len(Front(d)) = Len(d) - 1
    BY <1>2, <2>1, FrontFacts
  <2>3. Front(d) = <<>> => H = 0
    BY <1>1, <1>2, <2>1, <2>2
  <2>. QED
    BY <1>1, <2>1, <2>3
<1>. QED
  BY <1>2, <1>5, <1>6 DEF Loc, d

(* What package_path is made of in a call that generates into a plain
   directory: the directory, a slash and at least one character of the
   package, neither a dot nor a slash; or, cut, no more than the directory
   and its slash.  Beyond the directory a slash is where a dot was. *)
LEMMA PathShape ==
  ASSUME TypeOK, Shape, InCall, Plain
  PROVE  /\ package_path \in Path /\ package_path # <<>> /\ Base \in Nat
         /\ package \in Path /\ package # <<>>
         /\ \A d \in Dots : d > Base + 1
         /\ Base > 0 => /\ Base = Len(output_dir) + 1
                        /\ Len(output_dir) <= Len(package_path)
                        /\ \A k \in 1..Len(output_dir) :
                             package_path[k] = output_dir[k] /\ package_path[k] # "."
         /\ Base > 0 /\ Base <= Len(package_path) => package_path[Base] = "/"
         /\ Base < Len(package_path) => package_path[Base + 1] \notin {"/", "."}
         /\ Base > Len(package_path) => package_path = output_dir
         /\ Base = 0 => Head(package_path) # "/"
         /\ \A k \in 1..Len(package_path) :
              package_path[k] = "/" => k <= Base \/ \A d \in Dots : k < d
         /\ Fits => Len(package_path) = Base + Len(package)
<1>. DEFINE N == Len(output_dir)
            L == Len(package_path)
            P == Len(package)
            text == PathText(package)
<1>1. /\ package_path \in Path /\ output_dir \in OutputDirs /\ output_dir \in Path
      /\ package \in Path /\ package # <<>> /\ package[1] # "."
      /\ \A k \in 1..P : package[k] # "/"
      /\ L \in Nat /\ N \in Nat /\ N > 0 /\ N < PathSize /\ PathSize \in Nat
      /\ P \in Nat /\ P > 0
  <2>1. package_path \in Path /\ package \in Packages /\ output_dir \in OutputDirs
    BY DEF TypeOK, Shape, Path
  <2>2. output_dir \in Path /\ output_dir # <<>> /\ package \in Path /\ package # <<>>
        /\ Head(package) # "." /\ ~Contains(package, "/")
    BY <2>1, OutputDirsAssumption, PackagesAssumption DEF Path
  <2>3. \A k \in 1..P : package[k] # "/"
    BY <2>2 DEF Contains
  <2>4. N \in Nat /\ N > 0 /\ L \in Nat /\ P \in Nat /\ P > 0 /\ package[1] # "."
    BY <2>1, <2>2 DEF Path
  <2>. QED
    BY <2>1, <2>2, <2>3, <2>4, PathSizeAssumption DEF Plain
<1>2. /\ text \in Path /\ Base \in Nat /\ Len(text) = Base + P
      /\ Base > 0 => /\ Base = N + 1 /\ output_dir # <<".">> /\ text[Base] = "/"
                     /\ \A k \in 1..N : text[k] = output_dir[k]
      /\ \A k \in 1..P : text[Base + k] = package[k]
  BY <1>1, TextIs
<1>3. /\ L <= Len(text)
      /\ L = Len(text) \/ L = PathSize - 1
      /\ Fits => L = Len(text)
  <2>1. L = Len(Cut(text))
    BY DEF Shape
  <2>2. Len(Cut(text)) <= Len(text)
        /\ IF Len(text) < PathSize THEN Cut(text) = text ELSE Len(Cut(text)) = PathSize - 1
    BY <1>2, CutType
  <2>. QED
    BY <2>1, <2>2 DEF Fits
<1>4. \A k \in 1..L : \/ package_path[k] = text[k]
                      \/ /\ package_path[k] = "/" /\ text[k] = "."
                         /\ \A d \in Dots : k < d
  BY DEF Shape
<1>. HIDE DEF text
<1>5. package_path # <<>>
  BY <1>1, <1>2, <1>3
<1>6. ASSUME Base > 0
      PROVE  /\ N <= L
             /\ \A k \in 1..N : package_path[k] = output_dir[k] /\ package_path[k] # "."
  <2>1. N <= L
    BY <1>1, <1>2, <1>3, <1>6
  <2>2. \A k \in 1..N : output_dir[k] # "."
    BY <1>2, <1>6 DEF Plain, Contains
  <2>3. \A k \in 1..N : k \in 1..L /\ text[k] = output_dir[k]
    BY <1>1, <1>2, <1>6, <2>1
  <2>. QED
    BY <1>4, <2>1, <2>2, <2>3
<1>7. Base > 0 /\ Base <= L => package_path[Base] = "/"
  <2>1. Base > 0 /\ Base <= L => Base \in 1..L
    BY <1>1, <1>2
  <2>. QED
    BY <1>2, <1>4, <2>1
<1>8. Base < L => package_path[Base + 1] \notin {"/", "."}
  <2>1. 1 \in 1..P /\ (Base < L => Base + 1 \in 1..L)
    BY <1>1, <1>2
  <2>. QED
    BY <1>1, <1>2, <1>4, <2>1
<1>9. ASSUME NEW d \in Dots PROVE d > Base + 1
  <2>1. d \in 1..L /\ package_path[d] = "."
    BY DEF Dots
  <2>2. CASE Base > 0 /\ d <= N
    BY <1>6, <2>1, <2>2
  <2>3. CASE d = Base
    BY <1>1, <1>2, <1>7, <2>1, <2>3
  <2>4. CASE d = Base + 1
    BY <1>1, <1>2, <1>8, <2>1, <2>4
  <2>. QED
    BY <1>1, <1>2, <2>1, <2>2, <2>3, <2>4
<1>10. ASSUME NEW k \in 1..L, package_path[k] = "/", k > Base
       PROVE  \A d \in Dots : k < d
  <2>1. PICK j \in 1..P : k = Base + j
    <3>. HIDE DEF P, L
    <3>1. L \in Nat /\ Base \in Nat /\ P \in Nat /\ L <= Base + P
      BY <1>1, <1>2, <1>3
    <3>2. k - Base \in 1..P /\ k = Base + (k - Base)
      BY <1>10, <3>1
    <3>. QED
      BY <3>2
  <2>2. text[k] # "/"
    <3>1. text[Base + j] = package[j] /\ package[j] # "/"
      BY <1>1, <1>2
    <3>. QED
      BY <2>1, <3>1
  <2>. QED
    BY <1>4, <1>10, <2>2
<1>11. ASSUME Base > L PROVE package_path = output_dir
  <2>1. Base > 0 /\ L = N
    BY <1>1, <1>2, <1>6, <1>11
  <2>2. \A k \in 1..N : package_path[k] = output_dir[k]
    BY <1>6, <2>1
  <2>. QED
    BY <1>1, <2>1, <2>2, SeqEqual DEF Path
<1>12. Base = 0 => Head(package_path) # "/"
  <2>1. L > 0 /\ Head(package_path) = package_path[1]
    BY <1>1, <1>5 DEF Path
  <2>. QED
    BY <1>1, <1>8, <2>1
<1>13. \A k \in 1..L : package_path[k] = "/" => k <= Base \/ \A d \in Dots : k < d
  <2>1. \A k \in 1..L : k <= Base \/ k > Base
    BY <1>1, <1>2
  <2>. QED
    BY <1>10, <2>1
<1>. QED
  BY <1>1, <1>2, <1>3, <1>5, <1>6, <1>7, <1>8, <1>9, <1>11, <1>12, <1>13

(* A beginning of package_path without dots beyond the directory leads into
   the directory, and below it when it has a character of the package. *)
LEMMA PathLeads ==
  ASSUME TypeOK, Shape, InCall, Plain,
         NEW p \in Path, Len(p) <= Len(package_path),
         \A k \in 1..Len(p) : p[k] = package_path[k],
         \A d \in Dots : Len(p) < d,
         p = package_path \/ Len(p) > Base
  PROVE  /\ Home \in Loc
         /\ \E a \in Loc : Location(p) = Home \o a /\ (Len(p) > Base => a # <<>>)
         /\ Base <= Len(p) => Walk(From(p), p)[Base] = Begin(Home)
<1>1. /\ output_dir \in OutputDirs /\ output_dir \in Path /\ output_dir # <<>>
      /\ package_path \in Path /\ package_path # <<>> /\ Base \in Nat
      /\ Len(p) \in Nat /\ Len(package_path) \in Nat
  <2>1. output_dir \in OutputDirs
    BY DEF TypeOK
  <2>2. output_dir \in Path /\ output_dir # <<>> /\ package_path \in Path
    BY PathTypes
  <2>3. package_path # <<>> /\ Base \in Nat
    BY PathShape
  <2>4. Len(p) \in Nat /\ Len(package_path) \in Nat
    BY <2>2 DEF Path
  <2>. QED
    BY <2>1, <2>2, <2>3, <2>4
<1>2. Home \in Loc
  <2>1. \A s \in WalkState : Arrive(s) \in Loc
    BY CharAssumption, ReadOnType
  <2>2. Len(output_dir) \in 0..Len(output_dir)
    BY <1>1 DEF Path
  <2>3. Walk(From(output_dir), output_dir)[Len(output_dir)] \in WalkState
    BY <1>1, <2>2, FromIsThere, WalkReads
  <2>. QED
    BY <2>1, <2>3 DEF Home, Location
<1>3. CASE Len(p) < Base
  <2>1. p = package_path /\ Base > Len(package_path)
    BY <1>1, <1>3
  <2>2. package_path = output_dir
    BY <2>1, PathShape
  <2>3. Location(p) = Home
    BY <2>1, <2>2 DEF Home
  <2>4. Home \o <<>> = Home /\ <<>> \in Loc
    BY <1>2 DEF Loc
  <2>5. ~ (Len(p) > Base) /\ ~ (Base <= Len(p))
    BY <1>1, <1>3
  <2>. QED
    BY <1>2, <2>3, <2>4, <2>5
<1>4. CASE Base <= Len(p)
  <2>. DEFINE n == Len(p) - Base
              t == [k \in 1..n |-> p[Base + k]]
  <2>1. Base = 0 /\ p # <<>> => Head(p) # "/"
    <3>1. ASSUME p # <<>> PROVE Head(p) = Head(package_path)
      <4>1. 1 \in 1..Len(p)
        BY <1>1, <3>1 DEF Path
      <4>2. p[1] = package_path[1]
        BY <4>1
      <4>. QED
        BY <1>1, <3>1, <4>2 DEF Path
    <3>2. Base = 0 => Head(package_path) # "/"
      BY PathShape
    <3>. QED
      BY <3>1, <3>2
  <2>2. Base > 0 => /\ p[Base] = "/"
                    /\ \A k \in 1..Len(output_dir) : p[k] = output_dir[k]
    <3>. SUFFICES ASSUME Base > 0
                  PROVE  /\ p[Base] = "/"
                         /\ \A k \in 1..Len(output_dir) : p[k] = output_dir[k]
      OBVIOUS
    <3>1. /\ Base = Len(output_dir) + 1
          /\ \A k \in 1..Len(output_dir) : package_path[k] = output_dir[k]
          /\ Base <= Len(package_path) => package_path[Base] = "/"
      BY PathShape
    <3>2. Base \in 1..Len(p) /\ Base <= Len(package_path)
      BY <1>1, <1>4
    <3>3. \A k \in 1..Len(output_dir) : k \in 1..Len(p)
      BY <1>1, <1>4, <3>1 DEF Path
    <3>. QED
      BY <3>1, <3>2, <3>3
  <2>3. /\ n \in Nat /\ t \in Path /\ Len(t) = n
        /\ \A k \in 1..n : Base + k \in 1..Len(p) /\ t[k] = p[Base + k]
    <3>1. n \in Nat /\ \A k \in 1..n : Base + k \in 1..Len(p)
      BY <1>1, <1>4
    <3>2. \A k \in 1..Len(p) : p[k] \in Char
      BY DEF Path
    <3>. QED
      BY <3>1, <3>2 DEF Path
  <2>. HIDE DEF t
  <2>4. \A k \in 1..n : t[k] # "."
    <3>. SUFFICES ASSUME NEW k \in 1..n PROVE t[k] # "."
      OBVIOUS
    <3>1. Base + k \in 1..Len(p) /\ t[k] = package_path[Base + k]
      BY <2>3
    <3>2. Base + k \in 1..Len(package_path) /\ Base + k \notin Dots
      <4>1. ASSUME Base + k \in Dots PROVE FALSE
        <5>1. Len(p) < Base + k
          BY <4>1
        <5>. QED
          BY <1>1, <3>1, <5>1
      <4>. QED
        BY <1>1, <3>1, <4>1
    <3>. QED
      BY <3>1, <3>2 DEF Dots
  <2>5. Walk(From(p), p)[Base] = Begin(Home)
    BY <1>1, <1>4, <2>1, <2>2, WalkHome
  <2>6. /\ \A k \in 0..n : Arrive(Walk(<<>>, t)[k]) \in Loc
        /\ Location(p) = Home \o Arrive(Walk(<<>>, t)[n])
        /\ t # <<>> /\ t[1] # "/" => Arrive(Walk(<<>>, t)[n]) # <<>>
    <3>1. Len(t) = Len(p) - Base /\ \A k \in 1..Len(t) : t[k] = p[Base + k] /\ t[k] # "."
      BY <2>3, <2>4
    <3>2. /\ \A k \in 0..Len(t) : Arrive(Walk(<<>>, t)[k]) \in Loc
          /\ Location(p) = Home \o Arrive(Walk(<<>>, t)[Len(t)])
          /\ t # <<>> /\ t[1] # "/" => Arrive(Walk(<<>>, t)[Len(t)]) # <<>>
      BY <1>1, <1>4, <2>1, <2>2, <2>3, <3>1, WalkInside
    <3>. QED
      BY <2>3, <3>2
  <2>7. n \in 0..n /\ (Len(p) > Base => t # <<>> /\ t[1] # "/")
    <3>1. n \in 0..n
      BY <2>3
    <3>2. ASSUME Len(p) > Base PROVE t # <<>> /\ t[1] # "/"
      <4>1. 1 \in 1..n /\ Base < Len(package_path) /\ Base + 1 \in 1..Len(p)
        BY <1>1, <3>2
      <4>2. t[1] = package_path[Base + 1]
        BY <2>3, <4>1
      <4>3. t # <<>>
        BY <2>3, <4>1
      <4>. QED
        BY <4>1, <4>2, <4>3, PathShape
    <3>. QED
      BY <3>1, <3>2
  <2>. HIDE DEF n
  <2>. QED
    BY <1>2, <2>5, <2>6, <2>7
<1>. QED
  BY <1>1, <1>3, <1>4

(* So does what is before the first dot. *)
LEMMA ParentPath ==
  ASSUME TypeOK, Shape, InCall, Plain,
         NEW d \in Dots, \A e \in Dots : d <= e,
         NEW p, p = SubSeq(package_path, 1, d - 1)
  PROVE  /\ p \in Path /\ Len(p) = d - 1 /\ p # <<>> /\ d \in 1..Len(package_path)
         /\ Len(p) > Base /\ Len(p) <= Len(package_path)
         /\ \A k \in 1..Len(p) : p[k] = package_path[k]
         /\ \A e \in Dots : Len(p) < e
<1>1. /\ p \in Path /\ Len(p) = d - 1 /\ d - 1 \in 0..Len(package_path)
      /\ \A k \in 1..d - 1 : p[k] = package_path[k]
  BY PathTypes
<1>2. Base \in Nat /\ d > Base + 1 /\ package_path \in Path
  BY PathShape
<1>3. Len(package_path) \in Nat
  BY <1>2 DEF Path
<1>4. d \in 1..Len(package_path) /\ \A e \in Dots : e \in Int
  BY DEF Dots
<1>5. Len(p) > Base /\ Len(p) <= Len(package_path) /\ \A e \in Dots : Len(p) < e
  BY <1>1, <1>2, <1>3, <1>4
<1>6. p # <<>>
  BY <1>1, <1>2, <1>5
<1>. QED
  BY <1>1, <1>4, <1>5, <1>6

(* And so does the path that fopen() is called for. *)
LEMMA FileDirInside ==
  ASSUME TypeOK, Shape, InCall, Plain, Dots = {}
  PROVE  /\ Home \in Loc /\ FileDir = Location(package_path)
         /\ \E a \in Loc : /\ Location(package_path) = Home \o a
                           /\ Len(package_path) > Base => a # <<>>
<1>1. package_path \in Path /\ package_path # <<>>
  BY PathShape
<1>2. FileDir = Location(package_path)
  BY <1>1, FilePathIs DEF Shape
<1>3. Len(package_path) <= Len(package_path)
  BY <1>1 DEF Path
<1>. QED
  BY <1>1, <1>2, <1>3, PathLeads

(* No step puts anything outside a plain output directory. *)
LEMMA StepInside ==
  ASSUME TypeOK, Shape, [Next]_vars, Plain
  PROVE  /\ \A d \in dirs' \ dirs : IsPrefix(Home, d)
         /\ \A f \in files' \ files : IsPrefix(Home, f.dir)
<1>. DEFINE Inside == /\ \A d \in dirs' \ dirs : IsPrefix(Home, d)
                      /\ \A f \in files' \ files : IsPrefix(Home, f.dir)
<1>1. ASSUME NEW p \in Path, Mkdir(p), UNCHANGED files, IsPrefix(Home, Location(p))
      PROVE  Inside
  <2>1. dirs' \subseteq dirs \cup {Location(p)}
    BY <1>1, MkdirKeeps DEF TypeOK
  <2>. QED
    BY <1>1, <2>1
<1>2. CASE MakeOutputDir
  <2>1. output_dir \in Path /\ Mkdir(output_dir) /\ UNCHANGED files
    BY <1>2, PathTypes DEF MakeOutputDir
  <2>2. IsPrefix(Home, Location(output_dir))
    BY DEF IsPrefix, Home
  <2>. QED
    BY <1>1, <2>1, <2>2
<1>3. CASE MakeParent
  <2>1. PICK d \in Dots : /\ \A e \in Dots : d <= e
                          /\ Mkdir(SubSeq(package_path, 1, d - 1))
    BY <1>3 DEF MakeParent
  <2>2. InCall /\ UNCHANGED files
    BY <1>3 DEF MakeParent, InCall
  <2>. DEFINE p == SubSeq(package_path, 1, d - 1)
  <2>3. /\ p \in Path /\ Len(p) > Base /\ Len(p) <= Len(package_path)
        /\ \A k \in 1..Len(p) : p[k] = package_path[k]
        /\ \A e \in Dots : Len(p) < e
    BY <2>1, <2>2, ParentPath
  <2>. HIDE DEF p
  <2>4. Home \in Loc /\ \E a \in Loc : Location(p) = Home \o a
    BY <2>2, <2>3, PathLeads
  <2>5. IsPrefix(Home, Location(p))
    BY <2>4, Below
  <2>6. Mkdir(p)
    BY <2>1 DEF p
  <2>. QED
    BY <1>1, <2>2, <2>3, <2>5, <2>6
<1>4. CASE MakePackageDir
  <2>1. InCall /\ Dots = {} /\ Mkdir(package_path) /\ UNCHANGED files
    BY <1>4 DEF MakePackageDir, InCall
  <2>2. package_path \in Path /\ Home \in Loc
        /\ \E a \in Loc : Location(package_path) = Home \o a
    BY <2>1, PathTypes, FileDirInside
  <2>3. IsPrefix(Home, Location(package_path))
    BY <2>2, Below
  <2>. QED
    BY <1>1, <2>1, <2>2, <2>3
<1>5. CASE OpenFile
  <2>1. InCall /\ Dots = {} /\ UNCHANGED dirs
        /\ files' = files \cup {[dir |-> FileDir, class |-> class]}
    BY <1>5 DEF OpenFile, InCall, Shape
  <2>2. Home \in Loc /\ \E a \in Loc : FileDir = Home \o a
    BY <2>1, FileDirInside
  <2>3. IsPrefix(Home, FileDir)
    BY <2>2, Below
  <2>. QED
    BY <2>1, <2>3
<1>6. CASE StartCall \/ OpenFails \/ UNCHANGED vars
  <2>1. UNCHANGED <<dirs, files>>
    BY <1>6 DEF StartCall, OpenFails, vars
  <2>. QED
    BY <2>1
<1>. QED
  BY <1>2, <1>3, <1>4, <1>5, <1>6 DEF Next

(* StaysInside: generating into a plain output directory never touches
   anything that is not below it, even where the path was cut or a mkdir()
   was refused (src/src/java_record.c:515-528). *)
THEOREM PathsStayInside == Spec => StaysInside
<1>1. Init => TypeOK /\ Shape
  BY InitTypeOK
<1>2. TypeOK /\ Shape /\ [Next]_vars => TypeOK' /\ Shape'
  BY NextTypeOK, ShapeStep
<1>3. TypeOK /\ Shape /\ [Next]_vars =>
        [Plain => /\ \A d \in dirs' \ dirs : IsPrefix(Home, d)
                  /\ \A f \in files' \ files : IsPrefix(Home, f.dir)]_vars
  BY StepInside
<1>. QED
  BY <1>1, <1>2, <1>3, PTL DEF Spec, StaysInside

-----------------------------------------------------------------------------
(***************************************************************************)
(* Where the file of a call is.                                            *)
(***************************************************************************)

(* When all of its dots have been turned, package_path leads to the
   directory of the package. *)
LEMMA PathIsPackageDir ==
  ASSUME TypeOK, Shape, InCall, Plain, Fits, Dots = {}
  PROVE  Location(package_path) = PackageDir
<1>. DEFINE q == package_path
            P == Len(package)
            t == ReplaceAll(package, ".", "/")
<1>1. /\ q \in Path /\ q # <<>> /\ Base \in Nat /\ package \in Path
      /\ Len(q) = Base + P /\ output_dir \in OutputDirs /\ package \in Packages
      /\ Base = 0 => Head(q) # "/"
      /\ Base > 0 => \A k \in 1..Len(output_dir) : q[k] = output_dir[k]
      /\ Base > 0 /\ Base <= Len(q) => q[Base] = "/"
  <2>1. output_dir \in OutputDirs /\ package \in Packages
    BY DEF TypeOK, Shape
  <2>. QED
    BY <2>1, PathShape
<1>2. P \in Nat /\ Base <= Len(q) /\ Len(q) - Base = P
  BY <1>1 DEF Path
<1>3. t \in Path /\ Len(t) = P
      /\ \A k \in 1..P : t[k] = IF package[k] = "." THEN "/" ELSE package[k]
  <2>1. "/" \in Char /\ \A k \in 1..P : package[k] \in Char
    BY <1>1, CharAssumption DEF Path
  <2>. QED
    BY <1>2, <2>1 DEF ReplaceAll, Path
<1>. HIDE DEF t
<1>4. ASSUME NEW k \in 1..P PROVE t[k] = q[Base + k] /\ t[k] # "."
  <2>1. Base + k \in 1..Len(q)
    BY <1>1, <1>2
  <2>2. PathText(package)[Base + k] = package[k]
    BY <1>1, TextIs
  <2>3. \/ q[Base + k] = PathText(package)[Base + k]
        \/ q[Base + k] = "/" /\ PathText(package)[Base + k] = "."
    BY <2>1 DEF Shape
  <2>4. q[Base + k] # "."
    BY <2>1 DEF Dots
  <2>5. t[k] = IF package[k] = "." THEN "/" ELSE package[k]
    BY <1>3
  <2>6. CASE package[k] = "."
    BY <2>2, <2>3, <2>4, <2>5, <2>6
  <2>7. CASE package[k] # "."
    BY <2>2, <2>3, <2>5, <2>7
  <2>. QED
    BY <2>6, <2>7
<1>5. Location(q) = Home \o Arrive(Walk(<<>>, t)[Len(t)])
  <2>1. Len(t) = Len(q) - Base /\ \A k \in 1..Len(t) : t[k] = q[Base + k] /\ t[k] # "."
    BY <1>2, <1>3, <1>4
  <2>. HIDE DEF q
  <2>. QED
    BY <1>1, <1>2, <1>3, <2>1, WalkInside
<1>. QED
  BY <1>3, <1>5 DEF PackageDir, t

(* What the property is about does not change in a call. *)
LEMMA HomeStays ==
  ASSUME UNCHANGED output_dir
  PROVE  Home' = Home /\ Plain' = Plain /\ Base' = Base
BY DEF Home, Location, From, Walk, Plain, Base

(* fopen() opens the file where the package says. *)
LEMMA FileInPackageStep ==
  ASSUME TypeOK, Shape, NoResultYet, FileInPackage, [Next]_vars
  PROVE  FileInPackage'
<1>1. CASE OpenFile
  <2>1. InCall /\ Dots = {}
        /\ files' = files \cup {[dir |-> FileDir, class |-> class]}
        /\ UNCHANGED <<output_dir, package, class>>
    BY <1>1 DEF OpenFile, InCall, Shape
  <2>2. Plain /\ Fits => FileDir = PackageDir
    BY <2>1, FileDirInside, PathIsPackageDir
  <2>3. Plain' = Plain /\ Fits' = Fits /\ PackageDir' = PackageDir
    BY <2>1, HomeStays DEF Fits, PathText, PackageDir
  <2>. QED
    BY <2>1, <2>2, <2>3 DEF FileInPackage
<1>2. CASE MakeOutputDir
  <2>1. ret' = NONE
    BY <1>2 DEF MakeOutputDir, NoResultYet
  <2>. QED
    BY <2>1 DEF FileInPackage, NONE
<1>3. CASE StartCall \/ MakeParent \/ MakePackageDir
  <2>1. pc' # "idle"
    BY <1>3 DEF StartCall, MakeParent, MakePackageDir
  <2>. QED
    BY <2>1 DEF FileInPackage
<1>4. CASE OpenFails
  <2>1. ret' = -1
    BY <1>4 DEF OpenFails
  <2>. QED
    BY <2>1 DEF FileInPackage
<1>5. CASE UNCHANGED vars
  <2>1. UNCHANGED <<output_dir, package, class, files, pc, ret>>
    BY <1>5 DEF vars
  <2>2. Plain' = Plain /\ Fits' = Fits /\ PackageDir' = PackageDir
    BY <2>1, HomeStays DEF Fits, PathText, PackageDir
  <2>. QED
    BY <2>1, <2>2 DEF FileInPackage
<1>. QED
  BY <1>1, <1>2, <1>3, <1>4, <1>5 DEF Next

(* The result is set by the first call. *)
LEMMA NoResultYetStep == NoResultYet /\ [Next]_vars => NoResultYet'
BY DEF NoResultYet, Next, vars, MakeOutputDir, StartCall, MakeParent, MakePackageDir,
       OpenFile, OpenFails

(* FileInPackage: a call that returned 0 has put the file into the directory
   of its package: fopen() does not succeed in a directory further up when
   one of the unchecked mkdir() calls failed
   (src/src/java_record.c:521-533). *)
THEOREM PathsFileInPackage == Spec => []FileInPackage
<1>1. Init => TypeOK /\ Shape /\ NoResultYet /\ FileInPackage
  <2>1. Init => FileInPackage
    BY DEF Init, FileInPackage, NONE
  <2>. QED
    BY <2>1, InitTypeOK
<1>2. TypeOK /\ Shape /\ NoResultYet /\ FileInPackage /\ [Next]_vars
      => TypeOK' /\ Shape' /\ NoResultYet' /\ FileInPackage'
  BY NextTypeOK, ShapeStep, NoResultYetStep, FileInPackageStep
<1>. QED
  BY <1>1, <1>2, PTL DEF Spec

-----------------------------------------------------------------------------
(***************************************************************************)
(* What has been made.                                                     *)
(***************************************************************************)

(* A text whose slashes lead to directories leads somewhere. *)
LEMMA SlashesLead ==
  ASSUME FileSystem(dirs), NEW p \in Path, p # <<>>,
         \A k \in 1..Len(p) : p[k] = "/" => Walk(From(p), p)[k].at \in dirs
  PROVE  Leads(p)
<1>1. From(p) \in Loc /\ From(p) \in dirs /\ Len(p) \in Nat /\ Len(p) \in 0..Len(p)
  <2>1. From(p) \in Loc /\ From(p) \in dirs
    BY FromIsThere DEF FileSystem
  <2>2. Len(p) \in Nat
    BY DEF Path
  <2>. QED
    BY <2>1, <2>2
<1>2. \A k \in 0..Len(p) : Walk(From(p), p)[k].at \in dirs
  BY <1>1, SlashesSuffice
<1>3. \A k \in 1..Len(p) : k - 1 \in 0..Len(p)
  BY <1>1
<1>. QED
  BY <1>2, <1>3 DEF Leads

(* Two texts of which one begins as the other lead through the same
   places. *)
LEMMA SameWay ==
  ASSUME NEW p \in Path, NEW q \in Path, p # <<>>, Len(p) <= Len(q),
         \A k \in 1..Len(p) : p[k] = q[k]
  PROVE  /\ From(p) = From(q)
         /\ \A k \in 0..Len(p) : Walk(From(p), p)[k] = Walk(From(q), q)[k]
<1>1. Len(p) \in Nat /\ Len(p) > 0 /\ Len(q) \in Nat /\ q # <<>>
  BY DEF Path
<1>2. Head(p) = Head(q)
  BY <1>1 DEF Path
<1>3. From(p) = From(q)
  BY <1>1, <1>2 DEF From
<1>4. From(p) \in Loc /\ Len(p) <= Len(p)
  BY <1>1, FromIsThere
<1>. QED
  BY <1>1, <1>3, <1>4, WalksAgree

(* When the output directory is there, so are the directories on the way to
   it. *)
LEMMA HomeIsReached ==
  ASSUME FileSystem(dirs), output_dir \in OutputDirs, Plain, Home \in dirs,
         NEW q \in Path, Base <= Len(q),
         Base = 0 /\ q # <<>> => Head(q) # "/",
         Base > 0 => /\ q[Base] = "/"
                     /\ \A k \in 1..Len(output_dir) : q[k] = output_dir[k]
  PROVE  \A k \in 0..Base : Walk(From(q), q)[k].at \in dirs
<1>. DEFINE w == Walk(From(q), q)
<1>1. /\ Base \in Nat /\ Base \in 0..Len(q) /\ From(q) \in Loc
      /\ w[Base] = Begin(Home)
      /\ Base > 0 => Base = Len(output_dir) + 1 /\ output_dir # <<".">>
  <2>1. Base \in Nat /\ (Base > 0 => Base = Len(output_dir) + 1 /\ output_dir # <<".">>)
    BY OutputDirsAssumption DEF Base
  <2>2. Len(q) \in Nat
    BY DEF Path
  <2>. QED
    BY <2>1, <2>2, WalkHome, FromIsThere
<1>2. \A k \in 1..Base : q[k] # "."
  <2>1. ASSUME NEW k \in 1..Base PROVE q[k] # "."
    <3>1. Base > 0 /\ Base = Len(output_dir) + 1 /\ ~Contains(output_dir, ".")
      BY <1>1 DEF Plain
    <3>2. k = Base \/ k \in 1..Len(output_dir)
      BY <3>1, OutputDirsAssumption
    <3>. QED
      BY <3>1, <3>2 DEF Contains
  <2>. QED
    BY <2>1
<1>3. Arrive(w[Base]) = Home
  BY <1>1 DEF Arrive, Begin
<1>4. \A k \in 0..Base : w[k].at \in Ancestors(Home)
  <2>1. \A k \in 0..Base : w[k].at \in Ancestors(Arrive(w[Base]))
    BY <1>1, <1>2, WalkDown
  <2>. QED
    BY <1>3, <2>1
<1>5. Ancestors(Home) \subseteq dirs
  BY DEF FileSystem, Ancestors
<1>. HIDE DEF w
<1>6. \A k \in 0..Base : w[k].at \in dirs
  BY <1>4, <1>5
<1>. QED
  BY <1>6 DEF w

(* mkdir() for a place below an output directory that can be written to. *)
LEMMA MkdirBelow ==
  ASSUME TypeOK, NEW p \in Path, Mkdir(p), Home \in Loc,
         NEW a \in Loc, a # <<>>, Location(p) = Home \o a
  PROVE  /\ dirs \subseteq dirs'
         /\ Home \in dirs' => Home \in dirs
         /\ Leads(p) /\ Writable(Home) /\ ~spoilt' => ~spoilt /\ Location(p) \in dirs'
<1>1. /\ dirs \subseteq dirs' /\ dirs' \subseteq dirs \cup {Location(p)}
      /\ ~spoilt' => ~spoilt
      /\ ~spoilt' /\ Leads(p) /\ Writable(Front(Location(p))) => Location(p) \in dirs'
  BY MkdirKeeps DEF TypeOK
<1>2. Location(p) # Home /\ (Front(Location(p)) = <<>> => Home = <<>>)
  BY Below
<1>3. Writable(Home) => Writable(Front(Location(p)))
  BY <1>2 DEF Writable
<1>. QED
  BY <1>1, <1>2, <1>3

(* A call sets out with the directories before the package's names. *)
LEMMA StartMadeSoFar ==
  ASSUME TypeOK, Shape, StartCall
  PROVE  MadeSoFar'
<1>1. TypeOK' /\ Shape'
  BY StartCallType, ShapeStep DEF Next
<1>2. UNCHANGED <<output_dir, dirs, root_writable>> /\ pc' = "path"
  BY DEF StartCall
<1>. DEFINE q == package_path'
<1>3. SUFFICES ASSUME Plain, Fits', Home \in dirs, NEW k \in 1..Len(q), q[k] = "/"
               PROVE  Walk(From(q), q)[k].at \in dirs
  <2>1. Plain' = Plain /\ Home' = Home
    BY <1>2, HomeStays
  <2>2. InCall' /\ (pc = "open")' = FALSE
    BY <1>2 DEF InCall
  <2>3. From(q) = From(package_path)' /\ Walk(From(q), q) = Walk(From(package_path), package_path)'
    BY DEF From, Walk
  <2>. HIDE DEF q
  <2>. QED
    BY <1>2, <2>1, <2>2, <2>3 DEF MadeSoFar, q
<1>4. package' \in Packages /\ package' \in Path /\ PathText(package') \in Path
      /\ q = Cut(PathText(package')) /\ Len(PathText(package')) < PathSize
  <2>1. package' \in Packages
    BY DEF StartCall
  <2>2. Len(PathText(package')) < PathSize
    BY <1>2, <1>3 DEF Fits, PathText
  <2>. QED
    BY <2>1, <2>2, StartCallType
<1>5. q = PathText(package') /\ q \in Path
  <2>1. \A t \in Path : Len(t) < PathSize => Cut(t) = t
    BY CutType
  <2>. QED
    BY <1>4, <2>1
<1>. DEFINE P == Len(package')
<1>6. /\ output_dir \in OutputDirs /\ P \in Nat /\ P > 0 /\ package'[1] # "."
      /\ \A j \in 1..P : package'[j] # "/"
  <2>1. \A p \in Packages :
          /\ Len(p) \in Nat /\ Len(p) > 0 /\ p[1] # "."
          /\ \A j \in 1..Len(p) : p[j] # "/"
    BY PackagesAssumption DEF Contains
  <2>2. output_dir \in OutputDirs
    BY DEF TypeOK
  <2>. QED
    BY <1>4, <2>1, <2>2
<1>7. /\ Base \in Nat /\ Len(q) = Base + P
      /\ Base > 0 => /\ q[Base] = "/"
                     /\ \A j \in 1..Len(output_dir) : q[j] = output_dir[j]
      /\ \A j \in 1..P : q[Base + j] = package'[j]
  <2>1. \A t \in Path :
          /\ Base \in Nat /\ Len(PathText(t)) = Base + Len(t)
          /\ Base > 0 => /\ PathText(t)[Base] = "/"
                         /\ \A j \in 1..Len(output_dir) : PathText(t)[j] = output_dir[j]
          /\ \A j \in 1..Len(t) : PathText(t)[Base + j] = t[j]
    BY <1>6, TextIs
  <2>. HIDE DEF q
  <2>. QED
    BY <1>4, <1>5, <2>1
<1>. HIDE DEF q, P
<1>8. k <= Base
  <2>1. ASSUME k > Base PROVE FALSE
    <3>1. PICK j \in 1..P : k = Base + j
      <4>1. k - Base \in 1..P /\ k = Base + (k - Base)
        BY <1>6, <1>7, <2>1
      <4>. QED
        BY <4>1
    <3>2. q[k] # "/"
      BY <1>6, <1>7, <3>1 DEF P
    <3>. QED
      BY <1>3, <3>2
  <2>. QED
    BY <1>7, <2>1
<1>9. Base <= Len(q) /\ k \in 0..Base /\ (Base = 0 /\ q # <<>> => Head(q) # "/")
  <2>1. Base <= Len(q) /\ k \in 0..Base
    BY <1>6, <1>7, <1>8
  <2>2. Base # 0
    BY <1>7, <1>8
  <2>. QED
    BY <2>1, <2>2
<1>10. FileSystem(dirs)
  BY DEF TypeOK
<1>11. \A j \in 0..Base : Walk(From(q), q)[j].at \in dirs
  BY <1>3, <1>5, <1>6, <1>7, <1>9, <1>10, HomeIsReached
<1>. QED
  BY <1>9, <1>11

(* What is before the first dot is made, and a slash put behind it. *)
LEMMA ParentMadeSoFar ==
  ASSUME TypeOK, Shape, MadeSoFar, MakeParent
  PROVE  MadeSoFar'
<1>1. PICK d \in Dots : /\ \A e \in Dots : d <= e
                        /\ Mkdir(SubSeq(package_path, 1, d - 1))
                        /\ package_path' = ReplaceAt(package_path, d, "/")
  BY DEF MakeParent
<1>2. InCall /\ pc' = "path" /\ UNCHANGED <<output_dir, package, root_writable>>
  BY DEF MakeParent, InCall
<1>. DEFINE q == package_path'
            p == SubSeq(package_path, 1, d - 1)
<1>3. SUFFICES ASSUME Plain, Fits, Home \in dirs', Writable(Home), ~spoilt',
                      NEW k \in 1..Len(q), q[k] = "/"
               PROVE  Walk(From(q), q)[k].at \in dirs'
  <2>1. Plain' = Plain /\ Home' = Home /\ Fits' = Fits /\ Writable(Home)' = Writable(Home)
    BY <1>2, HomeStays DEF Fits, PathText, Writable
  <2>2. (pc = "open")' = FALSE
    BY <1>2
  <2>3. From(q) = From(package_path)' /\ Walk(From(q), q) = Walk(From(package_path), package_path)'
    BY DEF From, Walk
  <2>. HIDE DEF q
  <2>. QED
    BY <2>1, <2>2, <2>3 DEF MadeSoFar, q
<1>4. /\ q \in Path /\ Len(q) = Len(package_path)
      /\ \A j \in 1..Len(q) : q[j] = IF j = d THEN "/" ELSE package_path[j]
  BY <1>1, TurnDot
<1>5. /\ p \in Path /\ Len(p) = d - 1 /\ p # <<>> /\ d \in 1..Len(package_path)
      /\ Len(p) > Base /\ Len(p) <= Len(package_path)
      /\ \A j \in 1..Len(p) : p[j] = package_path[j]
      /\ \A e \in Dots : Len(p) < e
  BY <1>1, <1>2, <1>3, ParentPath
<1>6. Mkdir(p)
  BY <1>1
<1>. HIDE DEF p, q
<1>7. PICK a \in Loc : Home \in Loc /\ a # <<>> /\ Location(p) = Home \o a
  BY <1>2, <1>3, <1>5, PathLeads
<1>8. /\ dirs \subseteq dirs' /\ Home \in dirs
      /\ Leads(p) => ~spoilt /\ Location(p) \in dirs'
  BY <1>3, <1>5, <1>6, <1>7, MkdirBelow
<1>9. ~spoilt
  BY <1>3, <1>5, <1>6, MkdirKeeps DEF TypeOK
<1>10. \A j \in 1..Len(package_path) : package_path[j] = "/" =>
         Walk(From(package_path), package_path)[j].at \in dirs
  BY <1>2, <1>3, <1>8, <1>9 DEF MadeSoFar
<1>11. package_path \in Path /\ Len(package_path) \in Nat /\ Len(p) \in Nat
  BY <1>5, PathTypes DEF Path
<1>12. /\ From(p) = From(package_path) /\ From(p) = From(q)
       /\ \A j \in 0..Len(p) :
            /\ Walk(From(p), p)[j] = Walk(From(package_path), package_path)[j]
            /\ Walk(From(p), p)[j] = Walk(From(q), q)[j]
  <2>1. Len(p) <= Len(q) /\ \A j \in 1..Len(p) : p[j] = q[j]
    <3>1. \A j \in 1..Len(p) : j \in 1..Len(q) /\ j # d
      BY <1>4, <1>5, <1>11
    <3>. QED
      BY <1>4, <1>5, <3>1
  <2>. QED
    BY <1>4, <1>5, <1>11, <2>1, SameWay
<1>13. Leads(p)
  <2>1. \A j \in 1..Len(p) : p[j] = "/" => Walk(From(p), p)[j].at \in dirs
    <3>1. \A j \in 1..Len(p) : j \in 1..Len(package_path) /\ j \in 0..Len(p)
      BY <1>5, <1>11
    <3>. QED
      BY <1>5, <1>10, <1>12, <3>1
  <2>. QED
    BY <1>5, <2>1, SlashesLead DEF TypeOK
<1>14. CASE k = d
  <2>1. From(q) \in Loc /\ k - 1 = Len(p) /\ Len(p) \in 0..Len(p)
    BY <1>5, <1>11, <1>14, FromIsThere
  <2>2. Walk(From(q), q)[k] = ReadOn(Walk(From(q), q)[k-1], q[k])
    BY <1>4, <2>1, WalkReads
  <2>3. Walk(From(q), q)[k-1] = Walk(From(p), p)[Len(p)]
    BY <1>12, <2>1
  <2>4. Walk(From(q), q)[k].at = Location(p)
    BY <1>3, <2>2, <2>3 DEF ReadOn, Location
  <2>. QED
    BY <1>8, <1>13, <2>4
<1>15. CASE k # d
  <2>1. k \in 1..Len(package_path) /\ package_path[k] = "/"
    BY <1>3, <1>4, <1>15
  <2>2. k < d
    <3>1. k <= Base \/ \A e \in Dots : k < e
      BY <1>2, <1>3, <2>1, PathShape
    <3>2. Base \in Nat /\ d \in Nat
      BY <1>2, <1>3, <1>5, <1>11, PathShape
    <3>. QED
      BY <1>5, <1>11, <2>1, <3>1, <3>2
  <2>3. k \in 0..Len(p)
    BY <1>5, <1>11, <2>1, <2>2
  <2>4. Walk(From(q), q)[k] = Walk(From(package_path), package_path)[k]
    BY <1>12, <2>3
  <2>. QED
    BY <1>8, <1>10, <2>1, <2>4
<1>. QED
  BY <1>14, <1>15

(* The last mkdir() makes the directory of the package. *)
LEMMA PackageMadeSoFar ==
  ASSUME TypeOK, Shape, MadeSoFar, MakePackageDir
  PROVE  MadeSoFar'
<1>1. /\ InCall /\ Dots = {} /\ Mkdir(package_path)
      /\ UNCHANGED <<output_dir, package, package_path, root_writable>>
  BY DEF MakePackageDir, InCall
<1>. DEFINE q == package_path
            w == Walk(From(q), q)
<1>2. SUFFICES ASSUME Plain, Fits, Home \in dirs', Writable(Home), ~spoilt'
               PROVE  /\ \A k \in 1..Len(q) : q[k] = "/" => w[k].at \in dirs'
                      /\ Location(q) \in dirs'
  <2>1. Plain' = Plain /\ Home' = Home /\ Fits' = Fits /\ Writable(Home)' = Writable(Home)
    BY <1>1, HomeStays DEF Fits, PathText, Writable
  <2>2. Walk(From(package_path), package_path)' = w /\ Location(package_path)' = Location(q)
    BY <1>1 DEF From, Walk, Location
  <2>. HIDE DEF w
  <2>. QED
    BY <1>1, <2>1, <2>2 DEF MadeSoFar
<1>3. /\ q \in Path /\ q # <<>> /\ Len(q) \in Nat /\ Len(q) > Base
  <2>1. q \in Path /\ q # <<>> /\ Base \in Nat /\ Len(q) = Base + Len(package)
        /\ package \in Path /\ package # <<>>
    BY <1>1, <1>2, PathShape
  <2>2. Len(package) \in Nat /\ Len(package) > 0
    BY <2>1 DEF Path
  <2>. QED
    BY <2>1, <2>2
<1>4. PICK a \in Loc : Home \in Loc /\ a # <<>> /\ Location(q) = Home \o a
  BY <1>1, <1>2, <1>3, FileDirInside
<1>. HIDE DEF q, w
<1>5. Mkdir(q)
  BY <1>1 DEF q
<1>6. /\ dirs \subseteq dirs' /\ Home \in dirs
      /\ Leads(q) => ~spoilt /\ Location(q) \in dirs'
  BY <1>2, <1>3, <1>4, <1>5, MkdirBelow
<1>7. ~spoilt
  BY <1>2, <1>3, <1>5, MkdirKeeps DEF TypeOK
<1>8. \A k \in 1..Len(q) : q[k] = "/" => w[k].at \in dirs
  BY <1>1, <1>2, <1>6, <1>7 DEF MadeSoFar, q, w
<1>9. Leads(q)
  BY <1>3, <1>8, SlashesLead DEF TypeOK, w
<1>. QED
  BY <1>6, <1>8, <1>9

(* Every step makes what it should, or knows of a refusal. *)
LEMMA MadeSoFarStep ==
  ASSUME TypeOK, Shape, MadeSoFar, [Next]_vars
  PROVE  MadeSoFar'
<1>1. CASE MakeOutputDir \/ OpenFile \/ OpenFails
  BY <1>1 DEF MakeOutputDir, OpenFile, OpenFails, MadeSoFar, InCall
<1>2. CASE UNCHANGED vars
  <2>1. UNCHANGED <<output_dir, dirs, root_writable, package, package_path, pc, spoilt>>
    BY <1>2 DEF vars
  <2>2. /\ Plain' = Plain /\ Home' = Home /\ Fits' = Fits
        /\ Writable(Home)' = Writable(Home) /\ InCall' = InCall
    BY <2>1, HomeStays DEF Fits, PathText, Writable, InCall
  <2>3. /\ Walk(From(package_path), package_path)' = Walk(From(package_path), package_path)
        /\ Location(package_path)' = Location(package_path)
    BY <2>1 DEF From, Walk, Location
  <2>. QED
    BY <2>1, <2>2, <2>3 DEF MadeSoFar
<1>. QED
  BY <1>1, <1>2, StartMadeSoFar, ParentMadeSoFar, PackageMadeSoFar DEF Next

(* Where everything has been made, fopen() succeeds. *)
LEMMA MadeIsEnough ==
  ASSUME TypeOK, Shape, MadeSoFar, pc = "open",
         Plain, Fits, Home \in dirs, Writable(Home), ~spoilt
  PROVE  Leads(file_path) /\ Writable(FileDir)
<1>. DEFINE N == Len(package_path)
<1>1. InCall /\ Dots = {} /\ class \in Classes
  BY DEF Shape, InCall
<1>2. /\ package_path \in Path /\ package_path # <<>> /\ N \in Nat /\ N > Base
  <2>1. package_path \in Path /\ package_path # <<>> /\ Base \in Nat
        /\ N = Base + Len(package) /\ package \in Path /\ package # <<>>
    BY <1>1, PathShape
  <2>2. Len(package) \in Nat /\ Len(package) > 0
    BY <2>1 DEF Path
  <2>. QED
    BY <2>1, <2>2
<1>3. /\ Location(package_path) \in dirs
      /\ \A k \in 1..N : package_path[k] = "/" =>
           Walk(From(package_path), package_path)[k].at \in dirs
  BY <1>1 DEF MadeSoFar
<1>4. /\ file_path \in Path /\ Len(file_path) = N + 2
      /\ \A k \in 1..N : file_path[k] = package_path[k]
      /\ file_path[N + 2] # "/" /\ file_path # <<>>
      /\ FileDir = Location(package_path)
  BY <1>1, <1>2, FilePathIs
<1>5. Writable(FileDir)
  <2>1. PICK a \in Loc : Home \in Loc /\ a # <<>> /\ FileDir = Home \o a
    BY <1>1, <1>2, <1>4, FileDirInside
  <2>2. FileDir # <<>>
    BY <2>1, Below
  <2>. QED
    BY <2>2 DEF Writable
<1>6. \A k \in 0..N : Walk(From(package_path), package_path)[k]
                      = Walk(From(file_path), file_path)[k]
  <2>1. N <= Len(file_path) /\ \A k \in 1..N : package_path[k] = file_path[k]
    BY <1>2, <1>4
  <2>. QED
    BY <1>2, <1>4, <2>1, SameWay
<1>7. \A k \in 1..Len(file_path) : file_path[k] = "/" =>
        Walk(From(file_path), file_path)[k].at \in dirs
  <2>. SUFFICES ASSUME NEW k \in 1..Len(file_path), file_path[k] = "/"
                PROVE  Walk(From(file_path), file_path)[k].at \in dirs
    OBVIOUS
  <2>1. CASE k \in 1..N
    <3>1. k \in 0..N /\ package_path[k] = "/"
      BY <1>2, <1>4, <2>1
    <3>. QED
      BY <1>3, <1>6, <2>1, <3>1
  <2>2. CASE k = N + 1
    BY <1>3, <1>4, <2>2 DEF FileDir
  <2>3. k # N + 2
    BY <1>4
  <2>. QED
    BY <1>2, <1>4, <2>1, <2>2, <2>3
<1>8. Leads(file_path)
  BY <1>4, <1>7, SlashesLead DEF TypeOK
<1>. QED
  BY <1>5, <1>8

(* So the directory of the package is there. *)
LEMMA DirectoryIsMade ==
  ASSUME TypeOK, Shape, MadeSoFar
  PROVE  DirectoryMade
<1>. SUFFICES ASSUME pc = "open", Plain, Fits, Home \in dirs, Writable(Home), ~spoilt
              PROVE  Leads(file_path) /\ FileDir = PackageDir
  BY DEF DirectoryMade
<1>1. Leads(file_path)
  BY MadeIsEnough
<1>2. InCall /\ Dots = {}
  BY DEF InCall, Shape
<1>3. FileDir = PackageDir
  BY <1>2, FileDirInside, PathIsPackageDir
<1>. QED
  BY <1>1, <1>3

(* The inductive invariant behind the properties: what package_path is made
   of, and what has been made of it (src/src/java_record.c:514-533). *)
THEOREM PathsInvariant == Spec => []IInv
<1>1. Init => IInv
  <2>1. Init => FileInPackage /\ MadeSoFar
    BY DEF Init, FileInPackage, MadeSoFar, InCall, NONE
  <2>. QED
    BY <2>1, InitTypeOK DEF IInv
<1>2. IInv /\ [Next]_vars => IInv'
  BY NextTypeOK, ShapeStep, MadeSoFarStep, NoResultYetStep, FileInPackageStep DEF IInv
<1>. QED
  BY <1>1, <1>2, PTL DEF Spec

(* DirectoryMade: once the output directory is there and can be written to, a
   call comes to fopen() with the directory of its package in place, unless
   one of its own mkdir() calls was refused (src/src/java_record.c:521-533). *)
THEOREM PathsDirectoryMade == Spec => []DirectoryMade
<1>1. IInv => DirectoryMade
  BY DirectoryIsMade DEF IInv
<1>. QED
  BY <1>1, PathsInvariant, PTL

=============================================================================
