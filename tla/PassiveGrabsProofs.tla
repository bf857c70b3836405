------------------------ MODULE PassiveGrabsProofs -------------------------
(***************************************************************************)
(* Proofs about PassiveGrabs, for every set of clients, keys and modifiers *)
(* and any number of records.                                              *)
(*                                                                         *)
(* GrabMatchesSecond is symmetric in the two dimensions of a record, so    *)
(* everything about it follows from what DetailSupersedesSecond says of    *)
(* one dimension (lemmas OneDetail and OneDetailOf).  From that, the       *)
(* records that replace a record in DeletePassiveGrabFromList stand for    *)
(* exactly its combinations without the named ones (ReplacedBy), and the   *)
(* theorems follow.                                                        *)
(***************************************************************************)
EXTENDS PassiveGrabs, TLAPS, FiniteSetTheorems, WellFoundedInduction

\* In one dimension, an unmasked detail meets d iff d stands for it, or it is AnyDetail.
LEMMA OneDetail ==
  ASSUME NEW S, AnyDetail \notin S, NEW d \in DetailRec(S), NEW x \in S \cup {AnyDetail}
  PROVE  (DetailSupersedesSecond(d, Exact(x)) \/ DetailSupersedesSecond(Exact(x), d))
           <=> x = AnyDetail \/ x \in DetailsOf(d, S)
BY DEF DetailSupersedesSecond, IsInGrabMask, IdenticalExactDetails, Exact, DetailRec, DetailsOf

\* An unmasked detail supersedes d iff it names all that d could stand for.
LEMMA OneDetailOf ==
  ASSUME NEW S, AnyDetail \notin S, NEW d \in DetailRec(S), NEW x \in S \cup {AnyDetail}
  PROVE  DetailSupersedesSecond(Exact(x), d) <=> x = AnyDetail \/ (d.exact = x)
BY DEF DetailSupersedesSecond, IsInGrabMask, IdenticalExactDetails, Exact, DetailRec

\* GrabMatchesSecond decides the question dimension by dimension.
LEMMA MatchesByDetail ==
  ASSUME NEW g, NEW h
  PROVE  GrabMatchesSecond(g, h) <=>
           /\ DetailSupersedesSecond(g.detail, h.detail) \/ DetailSupersedesSecond(h.detail, g.detail)
           /\ DetailSupersedesSecond(g.mods, h.mods) \/ DetailSupersedesSecond(h.mods, g.mods)
BY DEF GrabMatchesSecond, GrabSupersedesSecond

\* A record matches a request for k and m iff it stands for k and for m.
LEMMA MatchesRequest ==
  ASSUME NEW g, g.detail \in DetailRec(Keys), g.mods \in DetailRec(Modifiers),
         NEW u, NEW k \in Keys \cup {AnyDetail}, NEW m \in Modifiers \cup {AnyDetail},
         u.detail = Exact(k), u.mods = Exact(m)
  PROVE  /\ GrabMatchesSecond(g, u) <=> GrabMatchesSecond(u, g)
         /\ GrabMatchesSecond(g, u) <=>
              /\ k = AnyDetail \/ k \in DetailsOf(g.detail, Keys)
              /\ m = AnyDetail \/ m \in DetailsOf(g.mods, Modifiers)
         /\ GrabSupersedesSecond(u, g) <=>
              (k = AnyDetail \/ g.detail.exact = k) /\ (m = AnyDetail \/ g.mods.exact = m)
<1>1. AnyDetail \notin Keys /\ AnyDetail \notin Modifiers
  BY PassiveGrabsAssumption
<1>2. DetailSupersedesSecond(g.detail, u.detail) \/ DetailSupersedesSecond(u.detail, g.detail)
        <=> k = AnyDetail \/ k \in DetailsOf(g.detail, Keys)
  BY <1>1, OneDetail
<1>3. DetailSupersedesSecond(g.mods, u.mods) \/ DetailSupersedesSecond(u.mods, g.mods)
        <=> m = AnyDetail \/ m \in DetailsOf(g.mods, Modifiers)
  BY <1>1, OneDetail
<1>4. DetailSupersedesSecond(u.detail, g.detail) <=> k = AnyDetail \/ g.detail.exact = k
  BY <1>1, OneDetailOf
<1>5. DetailSupersedesSecond(u.mods, g.mods) <=> m = AnyDetail \/ g.mods.exact = m
  BY <1>1, OneDetailOf
<1> QED
  BY <1>2, <1>3, <1>4, <1>5, MatchesByDetail DEF GrabSupersedesSecond

\* The combinations a request names, and a record stands for, pair by pair.
LEMMA InNamed ==
  ASSUME NEW k \in Keys \cup {AnyDetail}, NEW m \in Modifiers \cup {AnyDetail}, NEW x \in Combinations
  PROVE  x \in Named(k, m) <=> (k = AnyDetail \/ x[1] = k) /\ (m = AnyDetail \/ x[2] = m)
BY PassiveGrabsAssumption DEF Named, Combinations, DetailsOf, Exact

LEMMA InCovers ==
  ASSUME NEW g, g.detail \in DetailRec(Keys), g.mods \in DetailRec(Modifiers)
  PROVE  /\ Covers(g) \subseteq Combinations
         /\ \A x \in Combinations :
              x \in Covers(g) <=> x[1] \in DetailsOf(g.detail, Keys)
                                  /\ x[2] \in DetailsOf(g.mods, Modifiers)
BY DEF Covers, Combinations, DetailsOf, DetailRec

\* Records that meet in a combination match when one of them is a request:
\* a request that is granted or that leaves a record alone shares none with it.
LEMMA SharedMatches ==
  ASSUME NEW g, g.detail \in DetailRec(Keys), g.mods \in DetailRec(Modifiers),
         NEW u, NEW k \in Keys \cup {AnyDetail}, NEW m \in Modifiers \cup {AnyDetail},
         u.detail = Exact(k), u.mods = Exact(m),
         ~GrabMatchesSecond(g, u)
  PROVE  Covers(g) \cap Named(k, m) = {}
<1> SUFFICES ASSUME NEW x \in Combinations, x \in Covers(g), x \in Named(k, m)
             PROVE  FALSE
  BY InCovers
<1>1. x[1] \in DetailsOf(g.detail, Keys) /\ x[2] \in DetailsOf(g.mods, Modifiers)
  BY InCovers
<1> QED
  BY <1>1, InNamed, MatchesRequest

-----------------------------------------------------------------------------
(* DeletePassiveGrabFromList                                               *)

\* Clearing a bit takes one detail away.
LEMMA DeleteDetailType ==
  ASSUME NEW S, NEW d \in DetailRec(S), d.exact = AnyDetail, NEW x \in S
  PROVE  /\ DeleteDetail(d, x) \in DetailRec(S)
         /\ DetailsOf(DeleteDetail(d, x), S) = DetailsOf(d, S) \ {x}
BY DEF DeleteDetail, DetailRec, DetailsOf

\* The fields of a record.
LEMMA GrabFields ==
  ASSUME NEW g \in GrabRec
  PROVE  /\ g.client \in Clients /\ g.mode \in Modes /\ g.pos \in Nat
         /\ g.detail \in DetailRec(Keys) /\ g.mods \in DetailRec(Modifiers)
         /\ g.detail.exact \in Keys \cup {AnyDetail} /\ g.mods.exact \in Modifiers \cup {AnyDetail}
BY DEF GrabRec, DetailRec

\* What UngrabKey is about: the client, its request, and a record it meets.
LEMMA MetRecord ==
  ASSUME NEW c \in Clients, NEW k \in Keys \cup {AnyDetail}, NEW m \in Modifiers \cup {AnyDetail},
         NEW g \in GrabRec, g \in Met(TempGrab(c, k, m)), g \notin Deleted(TempGrab(c, k, m))
  PROVE  /\ g.client = c
         /\ k = AnyDetail \/ k \in DetailsOf(g.detail, Keys)
         /\ m = AnyDetail \/ m \in DetailsOf(g.mods, Modifiers)
         /\ (k # AnyDetail /\ g.detail.exact = AnyDetail) \/ (m # AnyDetail /\ g.mods.exact = AnyDetail)
<1> DEFINE u == TempGrab(c, k, m)
<1>1. u.client = c /\ u.detail = Exact(k) /\ u.mods = Exact(m)
  BY DEF TempGrab
<1>2. GrabMatchesSecond(g, u) /\ ~GrabSupersedesSecond(u, g) /\ g.client = c
  BY <1>1 DEF Met, Deleted
<1> HIDE DEF u
<1>3. /\ k = AnyDetail \/ k \in DetailsOf(g.detail, Keys)
      /\ m = AnyDetail \/ m \in DetailsOf(g.mods, Modifiers)
      /\ ~((k = AnyDetail \/ g.detail.exact = k) /\ (m = AnyDetail \/ g.mods.exact = m))
  BY <1>1, <1>2, MatchesRequest, GrabFields
<1> QED
  BY <1>2, <1>3 DEF DetailsOf

\* A record that is kept is updated to a record of the same client that stands
\* for what it stood for, without what the request names; the second half of a
\* split record has the rest.
LEMMA ReplacedBy ==
  ASSUME NEW c \in Clients, NEW k \in Keys \cup {AnyDetail}, NEW m \in Modifiers \cup {AnyDetail},
         NEW g \in GrabRec, g \in Met(TempGrab(c, k, m)), g \notin Deleted(TempGrab(c, k, m)),
         next \in Nat, IsFiniteSet(grabs),
         NEW u, u = TempGrab(c, k, m)
  PROVE  /\ Update(u, g) \in GrabRec /\ Update(u, g).client = c
         /\ g \in Split(u) => Half(u, g) \in GrabRec /\ Half(u, g).client = c
         /\ \A x \in Combinations :
              x \in Covers(g) /\ x \notin Named(k, m) <=>
                \/ x \in Covers(Update(u, g))
                \/ g \in Split(u) /\ x \in Covers(Half(u, g))
<1>1. u.client = c /\ u.detail = Exact(k) /\ u.mods = Exact(m)
      /\ u.detail.exact = k /\ u.mods.exact = m
  BY DEF TempGrab, Exact
<1>2. /\ g.client = c
      /\ k = AnyDetail \/ k \in DetailsOf(g.detail, Keys)
      /\ m = AnyDetail \/ m \in DetailsOf(g.mods, Modifiers)
      /\ (k # AnyDetail /\ g.detail.exact = AnyDetail) \/ (m # AnyDetail /\ g.mods.exact = AnyDetail)
  BY MetRecord
<1>3. g \in Split(u) <=> g.detail.exact = AnyDetail /\ g.mods.exact = AnyDetail /\ k # AnyDetail /\ m # AnyDetail
  BY <1>1 DEF Split
<1>4. AnyDetail \notin Keys /\ AnyDetail \notin Modifiers
  BY PassiveGrabsAssumption
<1>5. CASE LosesModifiers(u, g)
  <2>1. g.mods.exact = AnyDetail /\ m \in Modifiers /\ g \notin Split(u)
        /\ (k = AnyDetail \/ DetailsOf(g.detail, Keys) = {k})
    BY <1>1, <1>2, <1>3, <1>4, <1>5 DEF LosesModifiers, DetailsOf
  <2> DEFINE h == Update(u, g)
  <2>2. h = [g EXCEPT !.mods = DeleteDetail(g.mods, m)]
    BY <1>1, <1>5 DEF Update
  <2>3. h.mods = DeleteDetail(g.mods, m) /\ h.detail = g.detail /\ h.client = c
        /\ h \in GrabRec
    BY <1>2, <2>1, <2>2, DeleteDetailType, GrabFields DEF GrabRec
  <2>4. DetailsOf(h.mods, Modifiers) = DetailsOf(g.mods, Modifiers) \ {m}
    BY <2>1, <2>3, DeleteDetailType, GrabFields
  <2> HIDE DEF h
  <2>5. \A x \in Combinations :
          x \in Covers(g) /\ x \notin Named(k, m) <=> x \in Covers(h)
    <3> TAKE x \in Combinations
    <3>1. x \in Covers(g) <=> x[1] \in DetailsOf(g.detail, Keys)
                             /\ x[2] \in DetailsOf(g.mods, Modifiers)
      BY InCovers, GrabFields
    <3>2. x \in Covers(h) <=> x[1] \in DetailsOf(h.detail, Keys)
                             /\ x[2] \in DetailsOf(h.mods, Modifiers)
      BY <2>3, InCovers, GrabFields
    <3>3. x \in Named(k, m) <=> (k = AnyDetail \/ x[1] = k) /\ (m = AnyDetail \/ x[2] = m)
      BY InNamed
    <3> QED
      BY <1>4, <2>1, <2>3, <2>4, <3>1, <3>2, <3>3
  <2> QED
    BY <2>1, <2>3, <2>5 DEF h
<1>6. CASE ~LosesModifiers(u, g)
  <2>1. g.detail.exact = AnyDetail /\ k \in Keys
        /\ (g \in Split(u) \/ m = AnyDetail \/ DetailsOf(g.mods, Modifiers) = {m})
    BY <1>1, <1>2, <1>3, <1>4, <1>6 DEF LosesModifiers, DetailsOf
  <2> DEFINE h == Update(u, g)
  <2>2. h = [g EXCEPT !.detail = DeleteDetail(g.detail, k)]
    BY <1>1, <1>6 DEF Update
  <2>3. h.detail = DeleteDetail(g.detail, k) /\ h.mods = g.mods /\ h.client = c
        /\ h \in GrabRec
    BY <1>2, <2>1, <2>2, DeleteDetailType, GrabFields DEF GrabRec
  <2>4. DetailsOf(h.detail, Keys) = DetailsOf(g.detail, Keys) \ {k}
    BY <2>1, <2>3, DeleteDetailType, GrabFields
  <2> DEFINE f == Half(u, g)
  <2>5. ASSUME g \in Split(u)
        PROVE  /\ f \in GrabRec /\ f.client = c /\ f.detail = Exact(k)
               /\ DetailsOf(f.mods, Modifiers) = DetailsOf(g.mods, Modifiers) \ {m}
    <3>1. f = [g EXCEPT !.detail = Exact(k), !.mods = DeleteDetail(g.mods, m),
                        !.pos = next + Behind(Split(u), g)]
      BY <1>1 DEF Half
    <3>2. m \in Modifiers /\ g.mods.exact = AnyDetail
      BY <1>3, <2>5
    <3>3. DeleteDetail(g.mods, m) \in DetailRec(Modifiers)
          /\ DetailsOf(DeleteDetail(g.mods, m), Modifiers) = DetailsOf(g.mods, Modifiers) \ {m}
      BY <3>2, DeleteDetailType, GrabFields
    <3>4. Behind(Split(u), g) \in Nat
      <4>1. {h1 \in Split(u) : h1.pos > g.pos} \subseteq grabs
        BY DEF Split, Met
      <4> QED
        BY <4>1, FS_Subset, FS_CardinalityType DEF Behind
    <3>5. Exact(k) \in DetailRec(Keys)
      BY <2>1 DEF Exact, DetailRec
    <3> DEFINE p == next + Behind(Split(u), g)
               d == Exact(k)
               e == DeleteDetail(g.mods, m)
    <3>6. p \in Nat /\ d \in DetailRec(Keys) /\ e \in DetailRec(Modifiers)
      BY <3>3, <3>4, <3>5
    <3> HIDE DEF f, p, d, e
    <3>7. f = [g EXCEPT !.detail = d, !.mods = e, !.pos = p]
      BY <3>1 DEF p, d, e
    <3>8. f.detail = d /\ f.mods = e /\ f.client = c /\ f \in GrabRec
      BY <1>2, <3>6, <3>7 DEF GrabRec
    <3> QED
      BY <3>3, <3>8 DEF d, e
  <2> HIDE DEF h, f
  <2>6. ASSUME NEW x \in Combinations
        PROVE  x \in Covers(g) /\ x \notin Named(k, m) <=>
                 x \in Covers(h) \/ (g \in Split(u) /\ x \in Covers(f))
    <3>1. x \in Covers(g) <=> x[1] \in DetailsOf(g.detail, Keys)
                             /\ x[2] \in DetailsOf(g.mods, Modifiers)
      BY InCovers, GrabFields
    <3>2. x \in Covers(h) <=> x[1] \in DetailsOf(h.detail, Keys)
                             /\ x[2] \in DetailsOf(h.mods, Modifiers)
      BY <2>3, InCovers, GrabFields
    <3>3. x \in Named(k, m) <=> (k = AnyDetail \/ x[1] = k) /\ (m = AnyDetail \/ x[2] = m)
      BY InNamed
    <3>4. CASE g \in Split(u)
      <4>1. x \in Covers(f) <=> x[1] = k /\ x[2] \in DetailsOf(g.mods, Modifiers) \ {m}
        <5>1. f \in GrabRec /\ f.detail = Exact(k)
              /\ DetailsOf(f.mods, Modifiers) = DetailsOf(g.mods, Modifiers) \ {m}
          BY <2>5, <3>4
        <5>2. DetailsOf(Exact(k), Keys) = {k}
          BY <1>4, <2>1 DEF DetailsOf, Exact
        <5>3. x \in Covers(f) <=> x[1] \in DetailsOf(f.detail, Keys)
                                 /\ x[2] \in DetailsOf(f.mods, Modifiers)
          BY <5>1, InCovers, GrabFields
        <5> QED
          BY <5>1, <5>2, <5>3
      <4>2. k \in DetailsOf(g.detail, Keys) /\ k # AnyDetail /\ m # AnyDetail
        BY <1>2, <1>3, <3>4
      <4> QED
        BY <2>3, <2>4, <3>1, <3>2, <3>3, <3>4, <4>1, <4>2
    <3>5. CASE g \notin Split(u)
      BY <1>4, <2>1, <2>3, <2>4, <3>1, <3>2, <3>3, <3>5
    <3> QED
      BY <3>4, <3>5
  <2> QED
    BY <2>3, <2>5, <2>6 DEF h, f
<1> QED
  BY <1>5, <1>6

-----------------------------------------------------------------------------
(* Who holds which combination after a request                             *)

Holds(d, x) == \E g \in grabs : g.client = d /\ x \in Covers(g)

TypedInv == TypeOK /\ IsFiniteSet(grabs)

\* GrabKey adds the combinations it names to those of the client, and nobody
\* else holds one of them.
LEMMA GrabKeyHolds ==
  ASSUME TypedInv, NEW c \in Clients, NEW mode \in Modes,
         NEW k \in Keys \cup {AnyDetail}, NEW m \in Modifiers \cup {AnyDetail}, GrabKey(c, k, m, mode)
  PROVE  /\ TypedInv'
         /\ \A d \in Clients, x \in Combinations :
              /\ Holds(d, x)' <=> Holds(d, x) \/ (d = c /\ x \in Named(k, m))
              /\ Holds(d, x) /\ x \in Named(k, m) => d = c
<1> DEFINE u == CreateGrab(c, k, m, mode)
<1>1. /\ u.detail = Exact(k) /\ u.mods = Exact(m) /\ u.client = c
      /\ Exact(k) \in DetailRec(Keys) /\ Exact(m) \in DetailRec(Modifiers)
      /\ u = [client |-> c, detail |-> Exact(k), mods |-> Exact(m), mode |-> mode, pos |-> next]
  BY DEF CreateGrab, Exact, DetailRec
<1>2. u \in GrabRec /\ Covers(u) = Named(k, m)
  BY <1>1 DEF TypedInv, TypeOK, GrabRec, Covers, Named
<1>3. grabs' = grabs \cup {u} /\ next' = next + 1
      /\ \A h \in grabs : GrabMatchesSecond(u, h) => h.client = c
  BY <1>1 DEF GrabKey, BadAccess
<1> HIDE DEF u
<1>4. TypedInv'
  BY <1>2, <1>3, FS_AddElement DEF TypedInv, TypeOK
<1>5. ASSUME NEW h \in grabs, NEW x \in Covers(h), x \in Named(k, m)
      PROVE  h.client = c
  <2>1. h \in GrabRec
    BY DEF TypedInv, TypeOK
  <2>2. GrabMatchesSecond(h, u)
    BY <1>1, <1>5, <2>1, SharedMatches, GrabFields
  <2>3. GrabMatchesSecond(u, h)
    BY <1>1, <2>1, <2>2, MatchesRequest, GrabFields
  <2> QED
    BY <1>3, <2>3
<1> QED
  BY <1>1, <1>2, <1>3, <1>4, <1>5 DEF Holds

\* The image of a finite set under a function is finite.
LEMMA FiniteImage ==
  ASSUME NEW S, IsFiniteSet(S), NEW f
  PROVE  IsFiniteSet({f[x] : x \in S})
<1> DEFINE T == {f[x] : x \in S}
           F == [x \in S |-> f[x]]
<1>1. F \in Surjection(S, T)
  BY DEF Surjection
<1> QED
  BY <1>1, FS_Surjection

\* UngrabKey takes the combinations it names from the client, and changes
\* nothing for others.
LEMMA UngrabKeyHolds ==
  ASSUME TypedInv, NEW c \in Clients,
         NEW k \in Keys \cup {AnyDetail}, NEW m \in Modifiers \cup {AnyDetail}, UngrabKey(c, k, m)
  PROVE  /\ TypedInv'
         /\ \A d \in Clients, x \in Combinations :
              Holds(d, x)' <=> Holds(d, x) /\ ~(d = c /\ x \in Named(k, m))
<1> DEFINE u == TempGrab(c, k, m)
<1>1. u = TempGrab(c, k, m) /\ u.client = c /\ u.detail = Exact(k) /\ u.mods = Exact(m)
  BY DEF TempGrab
<1> HIDE DEF u
<1> DEFINE Kept == Met(u) \ Deleted(u)
<1>2. /\ grabs' = (grabs \ Met(u)) \cup {Update(u, g) : g \in Kept} \cup {Half(u, g) : g \in Split(u)}
      /\ next' = next + Cardinality(Split(u))
  BY <1>1 DEF UngrabKey, DeletePassiveGrabFromList
<1>3. next \in Nat /\ IsFiniteSet(grabs) /\ grabs \subseteq GrabRec
  BY DEF TypedInv, TypeOK
<1>4. Met(u) \subseteq grabs /\ Kept \subseteq Met(u) /\ Split(u) \subseteq Kept
  BY DEF Met, Split
<1>5. ASSUME NEW g \in Kept
      PROVE  /\ Update(u, g) \in GrabRec /\ Update(u, g).client = c
             /\ g \in Split(u) => Half(u, g) \in GrabRec /\ Half(u, g).client = c
             /\ \A x \in Combinations :
                  x \in Covers(g) /\ x \notin Named(k, m) <=>
                    \/ x \in Covers(Update(u, g))
                    \/ g \in Split(u) /\ x \in Covers(Half(u, g))
  BY <1>1, <1>3, <1>4, ReplacedBy
<1>6. TypedInv'
  <2>1. Cardinality(Split(u)) \in Nat /\ IsFiniteSet(Split(u)) /\ IsFiniteSet(Kept)
        /\ IsFiniteSet(grabs \ Met(u))
    BY <1>3, <1>4, FS_Subset, FS_CardinalityType
  <2>2. IsFiniteSet({Update(u, g) : g \in Kept})
    <3> DEFINE f == [g \in Kept |-> Update(u, g)]
    <3>1. {Update(u, g) : g \in Kept} = {f[g] : g \in Kept}
      OBVIOUS
    <3> HIDE DEF f, Kept
    <3> QED
      BY <2>1, <3>1, FiniteImage
  <2>3. IsFiniteSet({Half(u, g) : g \in Split(u)})
    <3> DEFINE f == [g \in Split(u) |-> Half(u, g)]
    <3>1. {Half(u, g) : g \in Split(u)} = {f[g] : g \in Split(u)}
      OBVIOUS
    <3> HIDE DEF f
    <3> QED
      BY <2>1, <3>1, FiniteImage
  <2>4. IsFiniteSet(grabs')
    BY <1>2, <2>1, <2>2, <2>3, FS_Union
  <2>5. grabs' \subseteq GrabRec
    BY <1>2, <1>3, <1>4, <1>5
  <2> QED
    BY <1>2, <1>3, <2>1, <2>4, <2>5 DEF TypedInv, TypeOK
<1>7. ASSUME NEW g \in grabs \ Met(u), g.client = c
      PROVE  Covers(g) \cap Named(k, m) = {}
  <2>1. ~GrabMatchesSecond(g, u) /\ g \in GrabRec
    BY <1>1, <1>3, <1>7 DEF Met
  <2> QED
    BY <1>1, <2>1, SharedMatches, GrabFields
<1>8. ASSUME NEW g \in Deleted(u)
      PROVE  Covers(g) \subseteq Named(k, m)
  <2>1. g \in GrabRec /\ GrabSupersedesSecond(u, g)
    BY <1>3, <1>4 DEF Deleted
  <2>2. (k = AnyDetail \/ g.detail.exact = k) /\ (m = AnyDetail \/ g.mods.exact = m)
    BY <1>1, <2>1, MatchesRequest, GrabFields
  <2>3. k # AnyDetail => DetailsOf(g.detail, Keys) = {k}
    BY <2>2 DEF DetailsOf
  <2>4. m # AnyDetail => DetailsOf(g.mods, Modifiers) = {m}
    BY <2>2 DEF DetailsOf
  <2> SUFFICES ASSUME NEW x \in Combinations, x \in Covers(g)
               PROVE  x \in Named(k, m)
    BY <2>1, InCovers, GrabFields
  <2>5. x[1] \in DetailsOf(g.detail, Keys) /\ x[2] \in DetailsOf(g.mods, Modifiers)
    BY <2>1, InCovers, GrabFields
  <2> QED
    BY <2>3, <2>4, <2>5, InNamed
<1>9. \A g \in Met(u) : g.client = c
  BY <1>1 DEF Met
<1>10. ASSUME NEW d \in Clients, NEW x \in Combinations
       PROVE  Holds(d, x)' <=> Holds(d, x) /\ ~(d = c /\ x \in Named(k, m))
  <2>1. ASSUME NEW g \in grabs', g.client = d, x \in Covers(g)
        PROVE  Holds(d, x) /\ ~(d = c /\ x \in Named(k, m))
    <3>1. CASE g \in grabs \ Met(u)
      BY <1>7, <2>1, <3>1 DEF Holds
    <3>2. CASE \E h \in Kept : g = Update(u, h)
      <4>1. PICK h \in Kept : g = Update(u, h)
        BY <3>2
      <4>2. x \in Covers(h) /\ x \notin Named(k, m) /\ d = c
        BY <1>5, <2>1, <4>1
      <4>3. h \in grabs /\ h.client = c
        BY <1>4, <1>9
      <4> QED
        BY <4>2, <4>3 DEF Holds
    <3>3. CASE \E h \in Split(u) : g = Half(u, h)
      <4>1. PICK h \in Split(u) : g = Half(u, h)
        BY <3>3
      <4>2. x \in Covers(h) /\ x \notin Named(k, m) /\ d = c
        BY <1>4, <1>5, <2>1, <4>1
      <4>3. h \in grabs /\ h.client = c
        BY <1>4, <1>9
      <4> QED
        BY <4>2, <4>3 DEF Holds
    <3> QED
      BY <1>2, <2>1, <3>1, <3>2, <3>3
  <2>2. ASSUME NEW g \in grabs, g.client = d, x \in Covers(g),
               ~(d = c /\ x \in Named(k, m))
        PROVE  Holds(d, x)'
    <3>1. CASE g \notin Met(u)
      BY <1>2, <2>2, <3>1 DEF Holds
    <3>2. CASE g \in Met(u)
      <4>1. d = c /\ x \notin Named(k, m)
        BY <1>9, <2>2, <3>2
      <4>2. g \in Kept
        BY <1>8, <2>2, <3>2, <4>1
      <4>3. CASE x \in Covers(Update(u, g))
        BY <1>2, <1>5, <4>1, <4>2, <4>3 DEF Holds
      <4>4. CASE g \in Split(u) /\ x \in Covers(Half(u, g))
        BY <1>2, <1>5, <4>1, <4>2, <4>4 DEF Holds
      <4> QED
        BY <1>5, <2>2, <4>1, <4>2, <4>3, <4>4
    <3> QED
      BY <3>1, <3>2
  <2> QED
    BY <2>1, <2>2 DEF Holds
<1> QED
  BY <1>6, <1>10

\* When a client is closed down it holds nothing.
LEMMA CloseDownHolds ==
  ASSUME TypedInv, NEW c \in Clients, CloseDownClient(c)
  PROVE  /\ TypedInv'
         /\ \A d \in Clients, x \in Combinations : Holds(d, x)' <=> Holds(d, x) /\ d # c
<1>1. grabs' \subseteq grabs /\ next' = next
  BY DEF CloseDownClient
<1>2. TypedInv'
  BY <1>1, FS_Subset DEF TypedInv, TypeOK
<1> QED
  BY <1>2 DEF Holds, CloseDownClient

-----------------------------------------------------------------------------
(* The theorems                                                            *)

GrabsInv == TypedInv /\ OneOwner

HoldersAgree ==
  \A d, e \in Clients, x \in Combinations : Holds(d, x) /\ Holds(e, x) => d = e

\* OneOwner in terms of Holds, before and after a step.
LEMMA OneHolder == TypedInv => (OneOwner <=> HoldersAgree)
<1> SUFFICES ASSUME TypedInv PROVE OneOwner <=> HoldersAgree
  OBVIOUS
<1>1. \A g \in grabs : Covers(g) \subseteq Combinations /\ g.client \in Clients
  BY InCovers, GrabFields DEF TypedInv, TypeOK
<1> QED
  BY <1>1 DEF OneOwner, Holds, HoldersAgree

LEMMA OneHolderAfter == TypedInv' => (OneOwner' <=> HoldersAgree')
BY OneHolder, PTL

\* Every step changes who holds what as the request says, and keeps one owner.
LEMMA GrabsInvStep ==
  ASSUME GrabsInv, [Next]_vars
  PROVE  GrabsInv'
<1>1. HoldersAgree /\ TypedInv
  BY OneHolder DEF GrabsInv
<1> SUFFICES TypedInv' /\ HoldersAgree'
  BY OneHolderAfter DEF GrabsInv
<1>3. ASSUME NEW c \in Clients, NEW k \in Keys \cup {AnyDetail}, NEW m \in Modifiers \cup {AnyDetail},
             NEW mode \in Modes, GrabKey(c, k, m, mode)
      PROVE  TypedInv' /\ HoldersAgree'
  BY <1>1, <1>3, GrabKeyHolds DEF HoldersAgree
<1>4. ASSUME NEW c \in Clients, NEW k \in Keys \cup {AnyDetail}, NEW m \in Modifiers \cup {AnyDetail},
             UngrabKey(c, k, m)
      PROVE  TypedInv' /\ HoldersAgree'
  BY <1>1, <1>4, UngrabKeyHolds DEF HoldersAgree
<1>5. ASSUME NEW c \in Clients, CloseDownClient(c)
      PROVE  TypedInv' /\ HoldersAgree'
  BY <1>1, <1>5, CloseDownHolds DEF HoldersAgree
<1>6. CASE UNCHANGED vars
  BY <1>1, <1>6 DEF vars, TypedInv, TypeOK, HoldersAgree, Holds
<1> QED
  BY <1>3, <1>4, <1>5, <1>6 DEF Next

\* Whatever the clients request, the records are well formed and finitely many
\* and no combination has two owners.
THEOREM GrabsInvHolds == Spec => []GrabsInv
<1>1. Init => GrabsInv
  BY FS_EmptySet DEF Init, GrabsInv, TypedInv, TypeOK, OneOwner
<1> QED
  BY <1>1, GrabsInvStep, PTL DEF Spec

\* The list only ever holds well-formed records.
THEOREM GrabsWellFormed == Spec => []TypeOK
BY GrabsInvHolds, PTL DEF GrabsInv, TypedInv

\* No combination of a key and modifiers is ever grabbed by two clients.
THEOREM OnlyOneOwner == Spec => []OneOwner
BY GrabsInvHolds, PTL DEF GrabsInv

\* A request is refused only if it names a combination of another client, or
\* another client's grab has nothing left of it.
THEOREM RefusalsHaveReason == Spec => []RefusedForAReason
<1>1. TypedInv => RefusedForAReason
  <2> SUFFICES ASSUME TypedInv, NEW c \in Clients,
                      NEW k \in Keys \cup {AnyDetail}, NEW m \in Modifiers \cup {AnyDetail},
                      NEW h \in grabs, GrabMatchesSecond(TempGrab(c, k, m), h), h.client # c
               PROVE  Named(k, m) \cap Covers(h) # {} \/ Covers(h) = {}
    BY DEF RefusedForAReason, BadAccess, TempGrab
  <2>1. h \in GrabRec
    BY DEF TypedInv, TypeOK
  <2> DEFINE u == TempGrab(c, k, m)
  <2>2. u.detail = Exact(k) /\ u.mods = Exact(m)
    BY DEF TempGrab
  <2> HIDE DEF u
  <2>3. /\ k = AnyDetail \/ k \in DetailsOf(h.detail, Keys)
        /\ m = AnyDetail \/ m \in DetailsOf(h.mods, Modifiers)
    BY <2>1, <2>2, MatchesRequest, GrabFields DEF u
  <2> SUFFICES ASSUME NEW y \in Combinations, y \in Covers(h)
               PROVE  Named(k, m) \cap Covers(h) # {}
    BY <2>1, InCovers, GrabFields
  <2>4. y[1] \in DetailsOf(h.detail, Keys) /\ y[2] \in DetailsOf(h.mods, Modifiers)
    BY <2>1, InCovers, GrabFields
  <2> DEFINE x == <<IF k = AnyDetail THEN y[1] ELSE k, IF m = AnyDetail THEN y[2] ELSE m>>
  <2>5. x \in Combinations
    BY DEF Combinations
  <2>6. x[1] \in DetailsOf(h.detail, Keys) /\ x[2] \in DetailsOf(h.mods, Modifiers)
        /\ (k = AnyDetail \/ x[1] = k) /\ (m = AnyDetail \/ x[2] = m)
    BY <2>3, <2>4
  <2> HIDE DEF x
  <2>7. x \in Covers(h) /\ x \in Named(k, m)
    BY <2>1, <2>5, <2>6, InCovers, InNamed, GrabFields
  <2> QED
    BY <2>7
<1> QED
  BY <1>1, GrabsInvHolds, PTL DEF GrabsInv

-----------------------------------------------------------------------------
(* Owners                                                                  *)

OwnersHold ==
  \A x \in Combinations : /\ \A d \in Clients : Holds(d, x) <=> Owner(x) = d
                          /\ Owner(x) \in Clients \cup {Nobody}

\* The owner of a combination is whoever holds it, before and after a step.
LEMMA OwnerHolds == GrabsInv => OwnersHold
<1> SUFFICES ASSUME GrabsInv, NEW x \in Combinations
             PROVE  /\ \A d \in Clients : Holds(d, x) <=> Owner(x) = d
                    /\ Owner(x) \in Clients \cup {Nobody}
  BY DEF OwnersHold
<1>1. \A g \in grabs : g.client \in Clients
  BY GrabFields DEF GrabsInv, TypedInv, TypeOK
<1>2. \A d, e \in Clients : Holds(d, x) /\ Holds(e, x) => d = e
  BY OneHolder DEF GrabsInv, HoldersAgree
<1>3. CASE \E g \in grabs : x \in Covers(g)
  <2> DEFINE g == CHOOSE g \in grabs : x \in Covers(g)
  <2>1. g \in grabs /\ x \in Covers(g) /\ Owner(x) = g.client
    BY <1>3 DEF Owner
  <2> HIDE DEF g
  <2>2. Holds(g.client, x)
    BY <2>1 DEF Holds
  <2> QED
    BY <1>1, <1>2, <2>1, <2>2
<1>4. CASE ~\E g \in grabs : x \in Covers(g)
  BY <1>4, PassiveGrabsAssumption DEF Owner, Holds
<1> QED
  BY <1>3, <1>4

LEMMA OwnerHoldsAfter == GrabsInv' => OwnersHold'
BY OwnerHolds, PTL

-----------------------------------------------------------------------------
(* A press                                                                 *)

\* Of finitely many records one is the first: one with the fewest in front of it.
LEMMA FirstExists ==
  ASSUME NEW T, IsFiniteSet(T), T # {}, \A g \in T : g.pos \in Nat
  PROVE  \E g \in T : \A h \in T : h.pos <= g.pos
<1> DEFINE Ahead(g) == {h \in T : h.pos > g.pos}
           sizes == {Cardinality(Ahead(g)) : g \in T}
           R == {ss \in Nat \X Nat : ss[1] < ss[2]}
<1>1. \A g \in T : IsFiniteSet(Ahead(g)) /\ Cardinality(Ahead(g)) \in Nat
  BY FS_Subset, FS_CardinalityType
<1>2. IsWellFoundedOn(R, Nat)
  BY NatLessThanWellFounded DEF OpToRel
<1>3. sizes \subseteq Nat /\ sizes # {}
  BY <1>1
<1>4. \E x \in sizes : \A y \in sizes : ~(<<y, x>> \in R)
  <2> HIDE DEF R, sizes
  <2> QED
    BY <1>2, <1>3, WFMin
<1>5. PICK g \in T : \A y \in sizes : ~(<<y, Cardinality(Ahead(g))>> \in R)
  BY <1>4
<1>6. ASSUME NEW h \in T, h.pos > g.pos
      PROVE  FALSE
  <2>1. Ahead(h) \subseteq Ahead(g) /\ h \in Ahead(g) /\ h \notin Ahead(h)
    BY <1>6
  <2>2. Cardinality(Ahead(h)) < Cardinality(Ahead(g))
    <3> HIDE DEF Ahead
    <3>1. /\ Cardinality(Ahead(h)) <= Cardinality(Ahead(g))
          /\ Cardinality(Ahead(g)) = Cardinality(Ahead(h)) => Ahead(g) = Ahead(h)
      BY <1>1, <2>1, FS_Subset
    <3> QED
      BY <1>1, <2>1, <3>1
  <2>3. Cardinality(Ahead(h)) \in sizes
    OBVIOUS
  <2> HIDE DEF Ahead, sizes
  <2> QED
    BY <1>1, <1>5, <2>2, <2>3
<1> QED
  BY <1>6

\* A press that may be delivered starts a grab exactly if a record stands for its
\* combination and can confine the pointer, and it starts one of the owner's.
THEOREM PressStartsHeld == Spec => []StartedIfHeld
<1>1. ASSUME GrabsInv PROVE StartedIfHeld
  <2> SUFFICES ASSUME NEW k \in Keys, NEW m \in Modifiers,
                      NEW shown \in SUBSET Confined, NEW allowed \in BOOLEAN
               PROVE  LET S == Started(k, m, shown, allowed) IN
                      /\ S # {} <=> allowed /\ \E g \in grabs :
                                     <<k, m>> \in Covers(g) /\ Confinable(g, shown)
                      /\ \A g \in S : g.client = Owner(<<k, m>>)
    BY DEF StartedIfHeld
  <2> DEFINE u == TempGrab(Nobody, k, m)
             T == Matches(k, m, shown)
  <2>1. IsFiniteSet(grabs) /\ k # AnyDetail /\ m # AnyDetail /\ <<k, m>> \in Combinations
        /\ \A g \in grabs : g \in GrabRec /\ g.pos \in Nat /\ g.client \in Clients
    BY <1>1, PassiveGrabsAssumption, GrabFields DEF GrabsInv, TypedInv, TypeOK, Combinations
  <2>2. u.detail = Exact(k) /\ u.mods = Exact(m)
    BY DEF TempGrab
  <2>3. ASSUME NEW g \in grabs
        PROVE  GrabMatchesSecond(u, g) <=> <<k, m>> \in Covers(g)
    <3> HIDE DEF u
    <3>1. GrabMatchesSecond(u, g) <=> /\ k \in DetailsOf(g.detail, Keys)
                                      /\ m \in DetailsOf(g.mods, Modifiers)
      BY <2>1, <2>2, MatchesRequest, GrabFields
    <3> QED
      BY <3>1 DEF Covers
  <2>4. T = {g \in grabs : <<k, m>> \in Covers(g) /\ Confinable(g, shown)}
    BY <2>3 DEF Matches
  <2>5. Started(k, m, shown, allowed) = {g \in T : allowed /\ \A h \in T : h.pos <= g.pos}
    BY DEF Started
  <2> HIDE DEF T, u
  <2>6. IsFiniteSet(T) /\ \A g \in T : g.pos \in Nat
    BY <2>1, <2>4, FS_Subset
  <2>7. T # {} => \E g \in T : \A h \in T : h.pos <= g.pos
    BY <2>6, FirstExists
  <2>8. Started(k, m, shown, allowed) # {} <=> allowed /\ T # {}
    BY <2>5, <2>7
  <2>9. ASSUME NEW g \in T
        PROVE  g.client = Owner(<<k, m>>)
    <3>1. Holds(g.client, <<k, m>>)
      BY <2>1, <2>4 DEF Holds
    <3> QED
      BY <1>1, <2>1, <2>4, <3>1, OwnerHolds DEF OwnersHold
  <2> QED
    BY <2>4, <2>5, <2>8, <2>9
<1> QED
  BY <1>1, GrabsInvHolds, PTL

-----------------------------------------------------------------------------
(* The refinement                                                          *)

\* If a step adds the combinations S to what c holds, it becomes their owner,
LEMMA OwnerAfterGrab ==
  ASSUME OwnersHold, OwnersHold', NEW c \in Clients, NEW S, NEW x \in Combinations,
         \A d \in Clients : /\ Holds(d, x)' <=> Holds(d, x) \/ (d = c /\ x \in S)
                            /\ Holds(d, x) /\ x \in S => d = c
  PROVE  /\ Owner(x)' = IF x \in S THEN c ELSE Owner(x)
         /\ x \in S => Owner(x) \in {Nobody, c}
<1>1. /\ \A d \in Clients : Holds(d, x) <=> Owner(x) = d
      /\ Owner(x) \in Clients \cup {Nobody}
      /\ \A d \in Clients : Holds(d, x)' <=> Owner(x)' = d
      /\ Owner(x)' \in Clients \cup {Nobody}
  BY DEF OwnersHold
<1> QED
  BY <1>1, PassiveGrabsAssumption

\* and if it takes S from what c holds, they are free.
LEMMA OwnerAfterRelease ==
  ASSUME OwnersHold, OwnersHold', NEW c \in Clients, NEW S, NEW x \in Combinations,
         \A d \in Clients : Holds(d, x)' <=> Holds(d, x) /\ ~(d = c /\ x \in S)
  PROVE  Owner(x)' = IF x \in S /\ Owner(x) = c THEN Nobody ELSE Owner(x)
<1>1. /\ \A d \in Clients : Holds(d, x) <=> Owner(x) = d
      /\ Owner(x) \in Clients \cup {Nobody}
      /\ \A d \in Clients : Holds(d, x)' <=> Owner(x)' = d
      /\ Owner(x)' \in Clients \cup {Nobody}
  BY DEF OwnersHold
<1> QED
  BY <1>1, PassiveGrabsAssumption

StepActsExactly ==
  \A c \in Clients, k \in Keys \cup {AnyDetail}, m \in Modifiers \cup {AnyDetail} :
    /\ (\E mode \in Modes : GrabKey(c, k, m, mode)) => Promised!Grab(c, Named(k, m))
    /\ UngrabKey(c, k, m) => Promised!Release(c, Named(k, m))

\* The two requests in terms of owners.
LEMMA ActsExactly ==
  ASSUME TypedInv, OwnersHold, OwnersHold'
  PROVE  StepActsExactly
<1>1. ASSUME NEW c \in Clients, NEW k \in Keys \cup {AnyDetail}, NEW m \in Modifiers \cup {AnyDetail},
             NEW mode \in Modes, GrabKey(c, k, m, mode)
      PROVE  Promised!Grab(c, Named(k, m))
  <2>1. ASSUME NEW x \in Combinations
        PROVE  /\ Owner(x)' = IF x \in Named(k, m) THEN c ELSE Owner(x)
               /\ x \in Named(k, m) => Owner(x) \in {Nobody, c}
    <3>1. \A d \in Clients :
            /\ Holds(d, x)' <=> Holds(d, x) \/ (d = c /\ x \in Named(k, m))
            /\ Holds(d, x) /\ x \in Named(k, m) => d = c
      BY <1>1, GrabKeyHolds
    <3> QED
      BY <3>1, OwnerAfterGrab
  <2>2. Named(k, m) \subseteq Combinations
    BY DEF Named, Combinations, DetailsOf, Exact
  <2> QED
    BY <2>1, <2>2 DEF Promised!Grab
<1>2. ASSUME NEW c \in Clients, NEW k \in Keys \cup {AnyDetail}, NEW m \in Modifiers \cup {AnyDetail},
             UngrabKey(c, k, m)
      PROVE  Promised!Release(c, Named(k, m))
  <2>1. \A x \in Combinations :
           Owner(x)' = IF x \in Named(k, m) /\ Owner(x) = c THEN Nobody ELSE Owner(x)
    BY <1>2, UngrabKeyHolds, OwnerAfterRelease
  <2> QED
    BY <2>1 DEF Promised!Release
<1> QED
  BY <1>1, <1>2 DEF StepActsExactly

\* GrabKey gets and UngrabKey gives up exactly the combinations they name.
THEOREM RequestsExact == Spec => RequestsActExactly
<1>1. [][StepActsExactly]_vars <=> RequestsActExactly
  BY PTL DEF RequestsActExactly, StepActsExactly
<1>2. ASSUME GrabsInv, GrabsInv'
      PROVE  StepActsExactly
  BY <1>2, ActsExactly, OwnerHolds, OwnerHoldsAfter DEF GrabsInv
<1> QED
  BY <1>1, <1>2, GrabsInvHolds, PTL

\* The list of records, with its masks and split records, implements the
\* protocol's ownership of single combinations.
THEOREM ListImplementsKeyGrabs == Spec => ImplementsKeyGrabs
<1>1. Init => Promised!Init
  BY DEF Init, Promised!Init, Owner
<1>2. ASSUME GrabsInv, GrabsInv', [Next]_vars
      PROVE  [Promised!Next]_([x \in Combinations |-> Owner(x)])
  <2> TypedInv /\ OwnersHold /\ OwnersHold'
    BY <1>2, OwnerHolds, OwnerHoldsAfter DEF GrabsInv
  <2>1. ASSUME NEW c \in Clients, NEW k \in Keys \cup {AnyDetail}, NEW m \in Modifiers \cup {AnyDetail}
        PROVE  /\ \A mode \in Modes : GrabKey(c, k, m, mode) => Promised!Grab(c, Named(k, m))
               /\ UngrabKey(c, k, m) => Promised!Release(c, Named(k, m))
    BY ActsExactly DEF StepActsExactly
  <2>2. ASSUME NEW c \in Clients, CloseDownClient(c)
        PROVE  Promised!Release(c, Combinations)
    <3>1. \A x \in Combinations, d \in Clients :
             Holds(d, x)' <=> Holds(d, x) /\ ~(d = c /\ x \in Combinations)
      BY <2>2, CloseDownHolds
    <3>2. \A x \in Combinations :
             Owner(x)' = IF x \in Combinations /\ Owner(x) = c THEN Nobody ELSE Owner(x)
      BY <3>1, OwnerAfterRelease
    <3> QED
      BY <3>2 DEF Promised!Release
  <2>3. CASE UNCHANGED vars
    BY <2>3 DEF vars, Owner
  <2> QED
    BY <1>2, <2>1, <2>2, <2>3 DEF Next, Promised!Next
<1> QED
  BY <1>1, <1>2, GrabsInvHolds, PTL DEF Spec, ImplementsKeyGrabs, Promised!Spec

=============================================================================
