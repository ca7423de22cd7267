--------------------------- MODULE WgPeersProofs ---------------------------
(***************************************************************************)
(* Theorems about WgPeers for any number of peers, keys, tunnel addresses, *)
(* places and secrets, and for any number of reloads.                      *)
(***************************************************************************)
EXTENDS WgPeers, FiniteSetTheorems, SequenceTheorems, TLAPS

----------------------------------------------------------------------------
(***************************************************************************)
(* What a text is made of.  Leaving are the keys a reload takes from wg;   *)
(* Blocks are the removals and the sections it consists of.                *)
(***************************************************************************)
Leaving(o, c) == Gone(o, c) \cup {o[i].key : i \in Rekeyed(o, c)}

Blocks(o, c) ==
  {Removal(k) : k \in Leaving(o, c)} \cup {Section(c[i]) : i \in Changed(o, c)}

\* text takes wg from o to c: it has all blocks, and the removals come first.
Fits(o, c, text) ==
  /\ text \in Seq(Blocks(o, c))
  /\ \A b \in Blocks(o, c) : \E n \in 1 .. Len(text) : text[n] = b
  /\ \A k \in Leaving(o, c), i \in Changed(o, c) : \A m, n \in 1 .. Len(text) :
       text[m] = Removal(k) /\ text[n] = Section(c[i]) => m < n

\* A list of a finite set without repetition leaves nothing out.
LEMMA ListedOnce ==
  ASSUME NEW S, IsFiniteSet(S), NEW s \in [1 .. Cardinality(S) -> S],
         \A i, j \in 1 .. Cardinality(S) : s[i] = s[j] => i = j
  PROVE  /\ s \in Seq(S)
         /\ Len(s) = Cardinality(S)
         /\ \A x \in S : \E n \in 1 .. Len(s) : s[n] = x
<1>1. Cardinality(S) \in Nat
  BY FS_CardinalityType
<1>2. Cardinality(1 .. Cardinality(S)) = Cardinality(S)
  <2>1. PICK n \in Nat : n = Cardinality(S)
    BY <1>1
  <2>2. Cardinality(1 .. n) = IF 1 > n THEN 0 ELSE n - 1 + 1
    <3>1. 1 \in Int /\ n \in Int
      OBVIOUS
    <3> QED BY <3>1, FS_Interval, Zenon
  <2>3. Cardinality(1 .. n) = n
    BY <2>2
  <2> QED BY <2>1, <2>3, Zenon
<1>3. s \in Injection(1 .. Cardinality(S), S)
  BY DEF Injection, IsInjective
<1>4. s \in Surjection(1 .. Cardinality(S), S)
  BY <1>2, <1>3, FS_Injection
<1>5. \A x \in S : \E n \in 1 .. Cardinality(S) : s[n] = x
  BY <1>4, Zenon DEF Surjection
<1>6. s \in Seq(S) /\ Len(s) = Cardinality(S)
  BY <1>1
<1> QED BY <1>5, <1>6

LEMMA SetToSeqLists ==
  ASSUME NEW S, IsFiniteSet(S)
  PROVE  /\ SetToSeq(S) \in Seq(S)
         /\ \A x \in S : \E n \in 1 .. Len(SetToSeq(S)) : SetToSeq(S)[n] = x
<1>1. \E f \in [1 .. Cardinality(S) -> S] : IsInjective(f)
  BY FS_CardinalityType, Zenon DEF ExistsBijection, Bijection, Injection
<1>2. SetToSeq(S) \in [1 .. Cardinality(S) -> S] /\ IsInjective(SetToSeq(S))
  BY <1>1, Zenon DEF SetToSeq
<1>3. \A i, j \in 1 .. Cardinality(S) : SetToSeq(S)[i] = SetToSeq(S)[j] => i = j
  <2> DEFINE s == SetToSeq(S)
  <2>1. DOMAIN s = 1 .. Cardinality(S) /\ IsInjective(s)
    BY <1>2
  <2> QED BY <2>1 DEF IsInjective
<1> QED BY <1>2, <1>3, ListedOnce

LEMMA SetToSeqsLists ==
  ASSUME NEW S, IsFiniteSet(S), NEW s \in SetToSeqs(S)
  PROVE  s \in Seq(S) /\ \A x \in S : \E n \in 1 .. Len(s) : s[n] = x
<1>1. s \in [1 .. Cardinality(S) -> S]
  BY DEF SetToSeqs
<1>2. \A i, j \in 1 .. Cardinality(S) : s[i] = s[j] => i = j
  BY DEF SetToSeqs
<1> QED BY <1>1, <1>2, ListedOnce

\* Only finitely many keys are gone.
LEMMA GoneFinite ==
  ASSUME NEW o, NEW c
  PROVE  IsFiniteSet(Gone(o, c))
<1> DEFINE D == In(o) \ In(c)
           f == [i \in D |-> o[i].key]
<1>1. IsFiniteSet(D)
  BY FS_Subset, WgAssumption DEF In
<1>2. f \in Surjection(D, Gone(o, c))
  BY DEF Surjection, Gone
<1> QED BY <1>1, <1>2, FS_Surjection

----------------------------------------------------------------------------
\* The lines of a section in their order.
LEMMA SectionLines ==
  ASSUME NEW e \in Entry
  PROVE  LET s == Section(e)
         IN  /\ Len(s) \in 2 .. 4
             /\ s[1] = Line(e.key, "peer", None)
             /\ s[2] = Line(e.key, "ip", e.ip)
             /\ \A n \in 3 .. Len(s) :
                  \/ n = 3 /\ e.psk # None /\ s[n] = Line(e.key, "psk", e.psk)
                  \/ /\ n = Len(s) /\ e.ep # None /\ s[n] = Line(e.key, "endpoint", e.ep)
                     /\ e.psk # None => n = 4
             /\ e.psk # None => Len(s) >= 3 /\ s[3] = Line(e.key, "psk", e.psk)
             /\ \A n \in 1 .. Len(s) : s[n].key = e.key
<1> DEFINE a == Line(e.key, "peer", None)
           b == Line(e.key, "ip", e.ip)
           p == Line(e.key, "psk", e.psk)
           x == Line(e.key, "endpoint", e.ep)
<1>0. a.key = e.key /\ b.key = e.key /\ p.key = e.key /\ x.key = e.key
  BY DEF Line
<1>a. Section(e) = (<<a, b>> \o (IF e.psk = None THEN <<>> ELSE <<p>>))
                      \o (IF e.ep = None THEN <<>> ELSE <<x>>)
  BY DEF Section, WritePSK
<1> HIDE DEF a, b, p, x
<1>1. CASE e.psk = None /\ e.ep = None
  <2> DEFINE s == (<<a, b>> \o <<>>) \o <<>>
  <2>1. Section(e) = s
    BY <1>1, <1>a
  <2>2. Len(s) = 2 /\ s[1] = a /\ s[2] = b
    OBVIOUS
  <2> HIDE DEF s
  <2> QED BY <1>0, <1>1, <2>1, <2>2 DEF a, b, p, x
<1>2. CASE e.psk = None /\ e.ep # None
  <2> DEFINE s == (<<a, b>> \o <<>>) \o <<x>>
  <2>1. Section(e) = s
    BY <1>2, <1>a
  <2>2. Len(s) = 3 /\ s[1] = a /\ s[2] = b /\ s[3] = x
    OBVIOUS
  <2> HIDE DEF s
  <2> QED BY <1>0, <1>2, <2>1, <2>2 DEF a, b, p, x
<1>3. CASE e.psk # None /\ e.ep = None
  <2> DEFINE s == (<<a, b>> \o <<p>>) \o <<>>
  <2>1. Section(e) = s
    BY <1>3, <1>a
  <2>2. Len(s) = 3 /\ s[1] = a /\ s[2] = b /\ s[3] = p
    OBVIOUS
  <2> HIDE DEF s
  <2> QED BY <1>0, <1>3, <2>1, <2>2 DEF a, b, p, x
<1>4. CASE e.psk # None /\ e.ep # None
  <2> DEFINE s == (<<a, b>> \o <<p>>) \o <<x>>
  <2>1. Section(e) = s
    BY <1>4, <1>a
  <2>2. Len(s) = 4 /\ s[1] = a /\ s[2] = b /\ s[3] = p /\ s[4] = x
    OBVIOUS
  <2> HIDE DEF s
  <2> QED BY <1>0, <1>4, <2>1, <2>2 DEF a, b, p, x
<1> QED BY <1>1, <1>2, <1>3, <1>4

\* A removal is no section.
LEMMA RemovalIsNoSection ==
  ASSUME NEW k, NEW e \in Entry
  PROVE  Removal(k) # Section(e)
<1>1. Len(Removal(k)) = 1
  BY DEF Removal
<1> QED BY <1>1, SectionLines

\* In every configuration the machines have different keys and addresses.
LEMMA ConfigFacts ==
  ASSUME NEW c \in Configs
  PROVE  /\ \A i \in In(c) : i \in Ids /\ c[i] \in Entry
         /\ \A i, j \in In(c) : i # j => c[i].key # c[j].key /\ c[i].ip # c[j].ip
BY WgAssumption DEF Configs, In

LEMMA NobodyIn == Nobody \in Configs /\ In(Nobody) = {}
BY DEF Nobody, Configs, In

(***************************************************************************)
(* Removals of all that leave, then sections of all that changed.          *)
(***************************************************************************)
LEMMA TextFits ==
  ASSUME NEW o \in Configs, NEW c \in Configs,
         NEW ks \in Seq(Leaving(o, c)), NEW ids \in Seq(Changed(o, c)),
         \A k \in Leaving(o, c) : \E n \in 1 .. Len(ks) : ks[n] = k,
         \A i \in Changed(o, c) : \E n \in 1 .. Len(ids) : ids[n] = i
  PROVE  Fits(o, c, Removals(ks) \o Sections(c, ids))
<1> DEFINE B == Blocks(o, c)
           r == Removals(ks)
           s == Sections(c, ids)
           t == r \o s
<1>1. r \in Seq(B) /\ Len(r) = Len(ks) /\ \A n \in 1 .. Len(ks) : r[n] = Removal(ks[n])
  <2>1. ASSUME NEW n \in 1 .. Len(ks) PROVE Removal(ks[n]) \in B
    <3>1. ks[n] \in Leaving(o, c)
      BY ElementOfSeq
    <3> QED BY <3>1, Zenon DEF Blocks
  <2>2. r = [n \in 1 .. Len(ks) |-> Removal(ks[n])]
    BY DEF Removals
  <2> HIDE DEF r, B
  <2> QED BY <2>1, <2>2
<1>2. s \in Seq(B) /\ Len(s) = Len(ids) /\ \A n \in 1 .. Len(ids) : s[n] = Section(c[ids[n]])
  <2>1. ASSUME NEW n \in 1 .. Len(ids) PROVE Section(c[ids[n]]) \in B
    <3>1. ids[n] \in Changed(o, c)
      BY ElementOfSeq
    <3> QED BY <3>1, Zenon DEF Blocks
  <2>2. s = [n \in 1 .. Len(ids) |-> Section(c[ids[n]])]
    BY DEF Sections
  <2> HIDE DEF s, B
  <2> QED BY <2>1, <2>2
<1> HIDE DEF B, r, s
<1>3. /\ t \in Seq(B)
      /\ Len(t) = Len(r) + Len(s)
      /\ \A n \in 1 .. Len(r) : t[n] = r[n]
      /\ \A n \in 1 .. Len(s) : t[Len(r) + n] = s[n]
      /\ \A n \in 1 .. Len(t) : n > Len(r) => t[n] = s[n - Len(r)] /\ n - Len(r) \in 1 .. Len(s)
      /\ Len(r) \in Nat /\ Len(s) \in Nat
  <2>1. Len(r) \in Nat /\ Len(s) \in Nat
    BY <1>1, <1>2
  <2>2. t \in Seq(B) /\ Len(t) = Len(r) + Len(s)
    BY <1>1, <1>2, ConcatProperties
  <2>3. \A n \in 1 .. Len(t) : t[n] = IF n <= Len(r) THEN r[n] ELSE s[n - Len(r)]
    BY <1>1, <1>2
  <2> HIDE DEF t
  <2>4. \A n \in 1 .. Len(s) : Len(r) + n \in 1 .. Len(t) /\ Len(r) + n - Len(r) = n
                               /\ ~ (Len(r) + n <= Len(r))
    BY <2>1, <2>2
  <2>5. \A n \in 1 .. Len(s) : t[Len(r) + n] = s[n]
    BY <2>3, <2>4
  <2> QED BY <2>1, <2>2, <2>3, <2>5
<1> HIDE DEF t
<1>4. \A b \in B : \E n \in 1 .. Len(t) : t[n] = b
  <2> SUFFICES ASSUME NEW b \in B PROVE \E n \in 1 .. Len(t) : t[n] = b
    OBVIOUS
  <2>1. ASSUME NEW k \in Leaving(o, c), b = Removal(k) PROVE \E n \in 1 .. Len(t) : t[n] = b
    <3>1. PICK n \in 1 .. Len(ks) : ks[n] = k
      OBVIOUS
    <3>2. n \in 1 .. Len(t) /\ t[n] = b
      BY <1>1, <1>3, <2>1, <3>1
    <3> QED BY <3>2
  <2>2. ASSUME NEW i \in Changed(o, c), b = Section(c[i]) PROVE \E n \in 1 .. Len(t) : t[n] = b
    <3>1. PICK n \in 1 .. Len(ids) : ids[n] = i
      OBVIOUS
    <3>2. Len(r) + n \in 1 .. Len(t) /\ t[Len(r) + n] = b
      BY <1>2, <1>3, <2>2, <3>1
    <3> QED BY <3>2
  <2> QED BY <2>1, <2>2 DEF B, Blocks
<1>5. ASSUME NEW k \in Leaving(o, c), NEW i \in Changed(o, c),
             NEW m \in 1 .. Len(t), NEW n \in 1 .. Len(t),
             t[m] = Removal(k), t[n] = Section(c[i])
      PROVE  m < n
  <2>1. \A j \in Changed(o, c) : c[j] \in Entry
    BY ConfigFacts DEF Changed
  <2>2. m <= Len(r)
    <3> SUFFICES ASSUME m > Len(r) PROVE FALSE
      BY <1>3
    <3>1. t[m] = s[m - Len(r)] /\ m - Len(r) \in 1 .. Len(s)
      BY <1>3
    <3>2. PICK j \in Changed(o, c) : t[m] = Section(c[j])
      <4>1. ids[m - Len(r)] \in Changed(o, c)
        BY <1>2, <3>1
      <4>2. t[m] = Section(c[ids[m - Len(r)]])
        BY <1>2, <3>1
      <4> QED BY <4>1, <4>2
    <3> QED BY <1>5, <2>1, <3>2, RemovalIsNoSection
  <2>3. n > Len(r)
    <3> SUFFICES ASSUME n <= Len(r) PROVE FALSE
      BY <1>3
    <3>1. PICK l \in Leaving(o, c) : t[n] = Removal(l)
      BY <1>1, <1>3
    <3> QED BY <1>5, <2>1, <3>1, RemovalIsNoSection
  <2> QED BY <1>3, <2>2, <2>3
<1>6. \A k \in Leaving(o, c), i \in Changed(o, c) : \A m, n \in 1 .. Len(t) :
        t[m] = Removal(k) /\ t[n] = Section(c[i]) => m < n
  BY <1>5
<1>7. t = Removals(ks) \o Sections(c, ids)
  BY DEF t, r, s
<1> QED BY <1>3, <1>4, <1>6, <1>7 DEF Fits, B

LEMMA SubsetsFinite ==
  ASSUME NEW o, NEW c
  PROVE  IsFiniteSet(Changed(o, c)) /\ IsFiniteSet(Rekeyed(o, c)) /\ IsFiniteSet(In(c))
BY FS_Subset, WgAssumption DEF Changed, Rekeyed, In

(***************************************************************************)
(* Every text of a reload fits the two configurations.                     *)
(***************************************************************************)
LEMMA ReloadFits ==
  ASSUME NEW o \in Configs, NEW c \in Configs, NEW text \in UAPIReload(o, c)
  PROVE  Fits(o, c, text)
<1> DEFINE ids == SetToSeq(Rekeyed(o, c))
           rekeyed == [n \in DOMAIN ids |-> o[ids[n]].key]
           L == Leaving(o, c)
<1>1. PICK gone \in SetToSeqs(Gone(o, c)) :
        text = Removals(gone \o rekeyed) \o Sections(c, SetToSeq(Changed(o, c)))
  BY DEF UAPIReload
<1>2. /\ SetToSeq(Changed(o, c)) \in Seq(Changed(o, c))
      /\ \A i \in Changed(o, c) : \E n \in 1 .. Len(SetToSeq(Changed(o, c))) :
           SetToSeq(Changed(o, c))[n] = i
  BY SubsetsFinite, SetToSeqLists
<1>3. ids \in Seq(Rekeyed(o, c)) /\ \A i \in Rekeyed(o, c) : \E n \in 1 .. Len(ids) : ids[n] = i
  BY SubsetsFinite, SetToSeqLists
<1>4. gone \in Seq(Gone(o, c)) /\ \A k \in Gone(o, c) : \E n \in 1 .. Len(gone) : gone[n] = k
  BY GoneFinite, SetToSeqsLists
<1> HIDE DEF ids
<1>5. /\ rekeyed \in Seq(L) /\ Len(rekeyed) = Len(ids)
      /\ \A n \in 1 .. Len(ids) : rekeyed[n] = o[ids[n]].key
  <2>1. \A n \in 1 .. Len(ids) : o[ids[n]].key \in L
    BY <1>3 DEF Leaving
  <2> QED BY <1>3, <2>1
<1> HIDE DEF rekeyed
<1>6. gone \in Seq(L)
  BY <1>4 DEF Leaving
<1>7. gone \o rekeyed \in Seq(L)
  BY <1>5, <1>6
<1>8. ASSUME NEW k \in L PROVE \E n \in 1 .. Len(gone \o rekeyed) : (gone \o rekeyed)[n] = k
  <2>1. CASE k \in Gone(o, c)
    <3>1. PICK n \in 1 .. Len(gone) : gone[n] = k
      BY <1>4, <2>1
    <3>2. n \in 1 .. Len(gone \o rekeyed) /\ (gone \o rekeyed)[n] = k
      BY <1>5, <1>6, <3>1
    <3> QED BY <3>2
  <2>2. ASSUME NEW i \in Rekeyed(o, c), k = o[i].key
        PROVE  \E n \in 1 .. Len(gone \o rekeyed) : (gone \o rekeyed)[n] = k
    <3>1. PICK n \in 1 .. Len(ids) : ids[n] = i
      BY <1>3
    <3>2. n \in 1 .. Len(rekeyed) /\ rekeyed[n] = k
      BY <1>5, <2>2, <3>1
    <3>3. Len(gone) + n \in 1 .. Len(gone \o rekeyed) /\ (gone \o rekeyed)[Len(gone) + n] = k
      BY <1>5, <1>6, <3>2
    <3> QED BY <3>3
  <2> QED BY <2>1, <2>2 DEF L, Leaving
<1> QED BY <1>1, <1>2, <1>7, <1>8, TextFits

(***************************************************************************)
(* The text of a start is that of a reload from nobody.                    *)
(***************************************************************************)
LEMMA ConfigFits ==
  ASSUME NEW c \in Configs
  PROVE  Fits(Nobody, c, UAPIConfig(c))
<1> DEFINE ids == SetToSeq(In(c))
<1>1. Changed(Nobody, c) = In(c)
  BY ConfigFacts DEF Changed, In, Nobody
<1>2. Leaving(Nobody, c) = {}
  BY NobodyIn DEF Leaving, Gone, Rekeyed
<1>3. ids \in Seq(In(c)) /\ \A i \in In(c) : \E n \in 1 .. Len(ids) : ids[n] = i
  BY SubsetsFinite, SetToSeqLists
<1>4. Fits(Nobody, c, Removals(<<>>) \o Sections(c, ids))
  <2>1. <<>> \in Seq(Leaving(Nobody, c)) /\ Nobody \in Configs
    BY NobodyIn
  <2>2. \A k \in Leaving(Nobody, c) : \E n \in 1 .. Len(<<>>) : <<>>[n] = k
    BY <1>2
  <2>3. /\ ids \in Seq(Changed(Nobody, c))
        /\ \A i \in Changed(Nobody, c) : \E n \in 1 .. Len(ids) : ids[n] = i
    BY <1>1, <1>3
  <2> HIDE DEF ids
  <2> QED BY <2>1, <2>2, <2>3, TextFits
<1>5. Removals(<<>>) = <<>>
  BY DEF Removals
<1>6. Sections(c, ids) \in Seq({Section(c[i]) : i \in In(c)})
  BY <1>3 DEF Sections
<1>7. <<>> \o Sections(c, ids) = Sections(c, ids)
  BY <1>6
<1> QED BY <1>4, <1>5, <1>7 DEF UAPIConfig
----------------------------------------------------------------------------
(***************************************************************************)
(* What holds of wg, w, while it takes the text t from o to c and is at    *)
(* line l of block b.  Awaits: wg is still to be told about the key k.     *)
(* Final: what wg has of k is what c says.  Halfway: what the lines before *)
(* l have given to the peer of the present section.                        *)
(***************************************************************************)
WgType == [Keys -> [on : BOOLEAN, ips : SUBSET Addrs, ep : Places \cup {None},
                    psk : Secrets \cup {None}]]

At(t, b, l) ==
  /\ b \in 1 .. Len(t) + 1
  /\ l \in 1 .. (IF b <= Len(t) THEN Len(t[b]) ELSE 1)

Awaits(t, b, k) == \E n \in b .. Len(t) : t[n][1].key = k

Final(w, c, k) ==
  /\ w[k].on <=> AddrsOf(c, k) # {}
  /\ w[k].ips = AddrsOf(c, k)
  /\ \A i \in In(c) : c[i].key = k /\ c[i].psk # None => w[k].psk = c[i].psk

Halfway(w, l, e) ==
  /\ l >= 2 => w[e.key].on
  /\ l = 2 => w[e.key].ips = {}
  /\ l >= 3 => w[e.key].ips = {e.ip}
  /\ l >= 4 /\ e.psk # None => w[e.key].psk = e.psk

\* o and c say the same of the machine that has the key k, or say nothing.
Agree(o, c, k) ==
  \A i \in Ids : (i \in In(o) /\ o[i].key = k) \/ (i \in In(c) /\ c[i].key = k) => o[i] = c[i]

\* What reloads that failed half-way, those of T, say of k is what c says;
\* and the addresses they give to k.
Settled(T, c, k) == \A d \in T : Agree(c, d, k)
LeftTo(T, k) == UNION {AddrsOf(d, k) : d \in T}

Apart(w) == \A k, m \in Keys : k # m => w[k].ips \cap w[m].ips = {}

\* Between two texts, when c is in force.
Steady(w, c, T) ==
  /\ \A k \in Keys : Settled(T, c, k) => Final(w, c, k)
  /\ \A k \in Keys : w[k].ips \subseteq AddrsOf(c, k) \cup LeftTo(T, k)
  /\ Apart(w)

Underway(w, o, c, T, t, b, l) ==
  /\ \A k \in Keys : ~ Awaits(t, b, k) =>
       /\ Settled(T, c, k) => Final(w, c, k)
       /\ w[k].ips \subseteq AddrsOf(c, k) \cup LeftTo(T, k)
  /\ \A k \in Keys : w[k].ips \subseteq AddrsOf(o, k) \cup AddrsOf(c, k) \cup LeftTo(T, k)
  /\ Apart(w)
  /\ b <= Len(t) => \A i \in Changed(o, c) : t[b] = Section(c[i]) => Halfway(w, l, c[i])

\* What two configurations agree on does not depend on the way there.
LEMMA AgreeFacts ==
  ASSUME NEW o, NEW c, NEW k
  PROVE  /\ Agree(c, c, k)
         /\ Agree(o, c, k) => Agree(c, o, k)
         /\ Agree(o, c, k) => AddrsOf(o, k) = AddrsOf(c, k)
         /\ Agree(o, c, k) => \A w : Final(w, o, k) => Final(w, c, k)
         /\ Agree(o, c, k) => \A T : Settled(T, c, k) => Settled(T, o, k)
<1>1. Agree(c, c, k) /\ (Agree(o, c, k) => Agree(c, o, k))
  BY DEF Agree
<1> SUFFICES ASSUME Agree(o, c, k)
             PROVE  /\ AddrsOf(o, k) = AddrsOf(c, k)
                    /\ \A w : Final(w, o, k) => Final(w, c, k)
                    /\ \A T : Settled(T, c, k) => Settled(T, o, k)
  BY <1>1
<1>2. \A i : i \in In(c) /\ c[i].key = k => i \in In(o) /\ o[i] = c[i]
  BY DEF Agree, In
<1>3. \A i : i \in In(o) /\ o[i].key = k => i \in In(c) /\ o[i] = c[i]
  BY DEF Agree, In
<1>4. AddrsOf(o, k) = AddrsOf(c, k)
  BY <1>2, <1>3 DEF AddrsOf
<1>5. ASSUME NEW w, Final(w, o, k) PROVE Final(w, c, k)
  <2>1. \A i \in In(c) : c[i].key = k /\ c[i].psk # None => w[k].psk = c[i].psk
    BY <1>2, <1>5 DEF Final
  <2> QED BY <1>4, <1>5, <2>1 DEF Final
<1>6. ASSUME NEW d, Agree(c, d, k) PROVE Agree(o, d, k)
  <2> SUFFICES ASSUME NEW i \in Ids,
                      (i \in In(o) /\ o[i].key = k) \/ (i \in In(d) /\ d[i].key = k)
               PROVE  o[i] = d[i]
    BY DEF Agree
  <2>1. CASE i \in In(o) /\ o[i].key = k
    BY <1>3, <1>6, <2>1 DEF Agree
  <2>2. CASE i \in In(d) /\ d[i].key = k
    <3>1. c[i] = d[i] /\ i \in In(c)
      BY <1>6, <2>2 DEF Agree, In
    <3> QED BY <1>2, <2>2, <3>1
  <2> QED BY <2>1, <2>2
<1> QED BY <1>4, <1>5, <1>6 DEF Settled

\* To the keys of c alone no more is left when c is taken from T.
LEMMA SteadyWithout ==
  ASSUME NEW w, NEW c, NEW T, Steady(w, c, T)
  PROVE  Steady(w, c, T \ {c})
<1>1. ASSUME NEW k \in Keys, Settled(T \ {c}, c, k) PROVE Final(w, c, k)
  BY <1>1, AgreeFacts DEF Settled, Steady
<1>2. \A k \in Keys : w[k].ips \subseteq AddrsOf(c, k) \cup LeftTo(T \ {c}, k)
  BY DEF Steady, LeftTo
<1> QED BY <1>1, <1>2 DEF Steady

LEMMA AddrsFacts ==
  ASSUME NEW c \in Configs
  PROVE  /\ \A i \in In(c) : AddrsOf(c, c[i].key) = {c[i].ip}
         /\ \A k : AddrsOf(c, k) # {} => \E i \in In(c) : c[i].key = k
         /\ \A k, m : k # m => AddrsOf(c, k) \cap AddrsOf(c, m) = {}
BY ConfigFacts DEF AddrsOf

\* The keys of a text are keys, and what changed is an entry.
LEMMA BlockFacts ==
  ASSUME NEW o \in Configs, NEW c \in Configs
  PROVE  /\ Leaving(o, c) \subseteq Keys
         /\ \A i \in Changed(o, c) : i \in In(c) /\ c[i] \in Entry
         /\ \A i \in Changed(o, c) : /\ c[i].key \in Keys /\ c[i].ip \in Addrs
                                     /\ c[i].psk \in Secrets \cup {None}
                                     /\ c[i].ep \in Places \cup {None}
<1>1. \A i \in Changed(o, c) : i \in In(c) /\ c[i] \in Entry
  BY ConfigFacts DEF Changed
<1>2. \A i \in In(o) : o[i] \in Entry
  BY ConfigFacts
<1>3. \A x \in Entry : x.key \in Keys /\ x.ip \in Addrs /\ x.psk \in Secrets \cup {None}
                       /\ x.ep \in Places \cup {None}
  BY DEF Entry
<1>4. Leaving(o, c) \subseteq Keys
  BY <1>2, <1>3 DEF Leaving, Gone, Rekeyed
<1> QED BY <1>1, <1>3, <1>4

LEMMA RemovalLines ==
  ASSUME NEW k
  PROVE  /\ Len(Removal(k)) = 1
         /\ Removal(k)[1] = Line(k, "remove", None)
         /\ Removal(k)[1].key = k
BY DEF Removal, Line

\* A block is a removal or a section.
LEMMA BlockKinds ==
  ASSUME NEW o, NEW c, NEW t, Fits(o, c, t), NEW b \in 1 .. Len(t)
  PROVE  \/ \E k \in Leaving(o, c) : t[b] = Removal(k)
         \/ \E i \in Changed(o, c) : t[b] = Section(c[i])
<1>1. t[b] \in Blocks(o, c)
  BY DEF Fits
<1> QED BY <1>1 DEF Blocks

\* A key the text does not name belongs to the same machine before and after.
LEMMA UnnamedStays ==
  ASSUME NEW o \in Configs, NEW c \in Configs, NEW t, Fits(o, c, t),
         NEW k \in Keys, ~ Awaits(t, 1, k)
  PROVE  Agree(o, c, k)
<1>1. k \notin Leaving(o, c)
  <2> SUFFICES ASSUME k \in Leaving(o, c) PROVE FALSE
    OBVIOUS
  <2>1. Removal(k) \in Blocks(o, c)
    BY DEF Blocks
  <2>2. PICK n \in 1 .. Len(t) : t[n] = Removal(k)
    BY <2>1 DEF Fits
  <2> QED BY <2>2, RemovalLines DEF Awaits
<1>2. \A i \in Changed(o, c) : c[i].key # k
  <2> SUFFICES ASSUME NEW i \in Changed(o, c), c[i].key = k PROVE FALSE
    OBVIOUS
  <2>1. Section(c[i]) \in Blocks(o, c)
    BY DEF Blocks
  <2>2. PICK n \in 1 .. Len(t) : t[n] = Section(c[i])
    BY <2>1 DEF Fits
  <2>3. Section(c[i])[1].key = k
    BY BlockFacts, SectionLines
  <2> QED BY <2>2, <2>3 DEF Awaits
<1>3. \A i \in In(c) : c[i].key = k => i \in In(o) /\ o[i] = c[i]
  BY <1>2 DEF Changed, In
<1>4. \A i \in In(o) : o[i].key = k => i \in In(c) /\ o[i] = c[i]
  BY <1>1, <1>2 DEF Leaving, Gone, Rekeyed, Changed, In
<1> QED BY <1>3, <1>4 DEF Agree

\* ... and the other way round.
LEMMA StaysUnnamed ==
  ASSUME NEW o \in Configs, NEW c \in Configs, NEW t, Fits(o, c, t),
         NEW k, Agree(o, c, k), NEW b, NEW l, At(t, b, l)
  PROVE  /\ k \notin Leaving(o, c)
         /\ \A i \in Changed(o, c) : c[i].key # k
         /\ ~ Awaits(t, b, k)
<1>1. k \notin Leaving(o, c)
  BY DEF Leaving, Gone, Rekeyed, Changed, Agree, In
<1>2. \A i \in Changed(o, c) : c[i].key # k
  BY DEF Changed, Agree, In
<1>3. ASSUME NEW n \in 1 .. Len(t), t[n][1].key = k PROVE FALSE
  <2>1. ASSUME NEW m \in Leaving(o, c), t[n] = Removal(m) PROVE FALSE
    BY <1>1, <1>3, <2>1, RemovalLines
  <2>2. ASSUME NEW i \in Changed(o, c), t[n] = Section(c[i]) PROVE FALSE
    <3>1. c[i] \in Entry
      BY BlockFacts
    <3>2. Section(c[i])[1].key = c[i].key
      BY <3>1, SectionLines
    <3> QED BY <1>2, <1>3, <2>2, <3>2
  <2> QED BY <2>1, <2>2, BlockKinds
<1>4. Len(t) \in Nat
  BY DEF Fits
<1>5. \A n \in b .. Len(t) : n \in 1 .. Len(t)
  BY <1>4 DEF At
<1> QED BY <1>1, <1>2, <1>3, <1>5 DEF Awaits

\* A text begins where the last one ended.
LEMMA UnderwayAtFirst ==
  ASSUME NEW o \in Configs, NEW c \in Configs, NEW t, Fits(o, c, t), NEW w, NEW T,
         Steady(w, o, T)
  PROVE  Underway(w, o, c, T, t, 1, 1)
<1>1. ASSUME NEW k \in Keys, ~ Awaits(t, 1, k)
      PROVE  /\ Settled(T, c, k) => Final(w, c, k)
             /\ w[k].ips \subseteq AddrsOf(c, k) \cup LeftTo(T, k)
  <2>1. Agree(o, c, k)
    BY <1>1, UnnamedStays
  <2>2. Settled(T, c, k) => Final(w, c, k)
    BY <2>1, AgreeFacts DEF Steady
  <2>3. AddrsOf(o, k) = AddrsOf(c, k)
    BY <2>1, AgreeFacts
  <2> QED BY <2>2, <2>3 DEF Steady
<1>2. \A e : Halfway(w, 1, e)
  BY DEF Halfway
<1> QED BY <1>1, <1>2 DEF Underway, Steady

\* When all lines are taken c is in force.
LEMMA UnderwayAtLast ==
  ASSUME NEW o, NEW c, NEW T, NEW t, Fits(o, c, t), NEW w, NEW b, NEW l, At(t, b, l), b > Len(t),
         Underway(w, o, c, T, t, b, l)
  PROVE  Steady(w, c, T)
<1>1. Len(t) \in Nat
  BY DEF Fits
<1>2. \A k : ~ Awaits(t, b, k)
  BY <1>1 DEF Awaits, At
<1> QED BY <1>2 DEF Underway, Steady

(***************************************************************************)
(* Wherever a text breaks off, o stays in force but for what c changes.    *)
(***************************************************************************)
LEMMA BrokenOff ==
  ASSUME NEW o \in Configs, NEW c \in Configs, NEW t, Fits(o, c, t), NEW w, NEW T,
         NEW b, NEW l, At(t, b, l), Underway(w, o, c, T, t, b, l)
  PROVE  Steady(w, o, T \cup {c})
<1>1. ASSUME NEW k \in Keys, Settled(T \cup {c}, o, k) PROVE Final(w, o, k)
  <2>1. Agree(o, c, k) /\ Settled(T, o, k)
    BY <1>1 DEF Settled
  <2>2. Agree(c, o, k) /\ Settled(T, c, k)
    BY <2>1, AgreeFacts
  <2>3. ~ Awaits(t, b, k)
    BY <2>1, StaysUnnamed
  <2> QED BY <2>2, <2>3, AgreeFacts DEF Underway
<1>2. \A k \in Keys : w[k].ips \subseteq AddrsOf(o, k) \cup LeftTo(T \cup {c}, k)
  BY DEF Underway, LeftTo
<1> QED BY <1>1, <1>2 DEF Steady, Underway
----------------------------------------------------------------------------
(***************************************************************************)
(* The effect of each kind of line.                                        *)
(***************************************************************************)
LEMMA EffectRemove ==
  ASSUME NEW w \in WgType, NEW k \in Keys
  PROVE  LET v == Effect(w, Line(k, "remove", None))
         IN  v \in WgType /\ v[k] = NoPeer /\ \A m \in Keys \ {k} : v[m] = w[m]
<1>1. NoPeer \in [on : BOOLEAN, ips : SUBSET Addrs, ep : Places \cup {None},
                  psk : Secrets \cup {None}]
  BY DEF NoPeer
<1>2. Effect(w, Line(k, "remove", None)) = [w EXCEPT ![k] = NoPeer]
  BY DEF Effect, Line
<1> QED BY <1>1, <1>2 DEF WgType

LEMMA EffectPeer ==
  ASSUME NEW w \in WgType, NEW k \in Keys
  PROVE  LET v == Effect(w, Line(k, "peer", None))
         IN  /\ v \in WgType /\ \A m \in Keys \ {k} : v[m] = w[m]
             /\ v[k].on /\ v[k].ips = {}
<1>1. Effect(w, Line(k, "peer", None)) = [w EXCEPT ![k].on = TRUE, ![k].ips = {}]
  BY DEF Effect, Line
<1>2. [w EXCEPT ![k].on = TRUE, ![k].ips = {}]
        = [w EXCEPT ![k] = [w[k] EXCEPT !.on = TRUE, !.ips = {}]]
  BY DEF WgType
<1>3. [w[k] EXCEPT !.on = TRUE, !.ips = {}]
        \in [on : BOOLEAN, ips : SUBSET Addrs, ep : Places \cup {None}, psk : Secrets \cup {None}]
  BY DEF WgType
<1> DEFINE u == [w[k] EXCEPT !.on = TRUE, !.ips = {}]
<1>4. u.on /\ u.ips = {}
  <2>1. w[k] \in [on : BOOLEAN, ips : SUBSET Addrs, ep : Places \cup {None},
                  psk : Secrets \cup {None}]
    BY DEF WgType
  <2> QED BY <2>1
<1>5. /\ [w EXCEPT ![k] = u] \in WgType /\ [w EXCEPT ![k] = u][k] = u
      /\ \A m \in Keys \ {k} : [w EXCEPT ![k] = u][m] = w[m]
  <2> HIDE DEF u
  <2> QED BY <1>3 DEF WgType, u
<1> HIDE DEF u
<1> QED BY <1>1, <1>2, <1>4, <1>5, Zenon DEF u

LEMMA EffectIp ==
  ASSUME NEW w \in WgType, NEW k \in Keys, NEW a \in Addrs
  PROVE  LET v == Effect(w, Line(k, "ip", a))
         IN  /\ v \in WgType
             /\ v[k] = [w[k] EXCEPT !.ips = w[k].ips \cup {a}]
             /\ \A m \in Keys \ {k} : v[m] = [w[m] EXCEPT !.ips = w[m].ips \ {a}]
<1>1. Effect(w, Line(k, "ip", a)) =
        [m \in Keys |-> [w[m] EXCEPT !.ips = IF m = k THEN w[m].ips \cup {a} ELSE w[m].ips \ {a}]]
  BY DEF Effect, Line
<1>2. ASSUME NEW m \in Keys
      PROVE  [w[m] EXCEPT !.ips = IF m = k THEN w[m].ips \cup {a} ELSE w[m].ips \ {a}]
               \in [on : BOOLEAN, ips : SUBSET Addrs, ep : Places \cup {None},
                    psk : Secrets \cup {None}]
  BY DEF WgType
<1> QED BY <1>1, <1>2 DEF WgType

LEMMA EffectPsk ==
  ASSUME NEW w \in WgType, NEW k \in Keys, NEW x \in Secrets \cup {None}
  PROVE  LET v == Effect(w, Line(k, "psk", x))
         IN  /\ v \in WgType /\ v[k] = [w[k] EXCEPT !.psk = x]
             /\ \A m \in Keys \ {k} : v[m] = w[m]
<1>1. Effect(w, Line(k, "psk", x)) = [w EXCEPT ![k].psk = x]
  BY DEF Effect, Line
<1>2. [w EXCEPT ![k].psk = x] = [w EXCEPT ![k] = [w[k] EXCEPT !.psk = x]]
  BY DEF WgType
<1>3. [w[k] EXCEPT !.psk = x]
        \in [on : BOOLEAN, ips : SUBSET Addrs, ep : Places \cup {None}, psk : Secrets \cup {None}]
  BY DEF WgType
<1> QED BY <1>1, <1>2, <1>3 DEF WgType

LEMMA EffectEndpoint ==
  ASSUME NEW w \in WgType, NEW k \in Keys, NEW x \in Places \cup {None}
  PROVE  LET v == Effect(w, Line(k, "endpoint", x))
         IN  /\ v \in WgType /\ v[k] = [w[k] EXCEPT !.ep = x]
             /\ \A m \in Keys \ {k} : v[m] = w[m]
<1>1. Effect(w, Line(k, "endpoint", x)) = [w EXCEPT ![k].ep = x]
  BY DEF Effect, Line
<1>2. [w EXCEPT ![k].ep = x] = [w EXCEPT ![k] = [w[k] EXCEPT !.ep = x]]
  BY DEF WgType
<1>3. [w[k] EXCEPT !.ep = x]
        \in [on : BOOLEAN, ips : SUBSET Addrs, ep : Places \cup {None}, psk : Secrets \cup {None}]
  BY DEF WgType
<1> QED BY <1>1, <1>2, <1>3 DEF WgType

(***************************************************************************)
(* The line after the one taken, and what is then still to be told.        *)
(***************************************************************************)
NextBlock(t, b, l) == IF l = Len(t[b]) THEN b + 1 ELSE b
NextLine(t, b, l) == IF l = Len(t[b]) THEN 1 ELSE l + 1

\* The lengths of the blocks are numbers, and each has a first line.
LEMMA BlockLengths ==
  ASSUME NEW o \in Configs, NEW c \in Configs, NEW t, Fits(o, c, t)
  PROVE  Len(t) \in Nat /\ \A n \in 1 .. Len(t) : Len(t[n]) \in Nat /\ Len(t[n]) >= 1
<1>1. Len(t) \in Nat
  BY DEF Fits
<1>2. ASSUME NEW n \in 1 .. Len(t) PROVE Len(t[n]) \in Nat /\ Len(t[n]) >= 1
  <2>1. CASE \E k \in Leaving(o, c) : t[n] = Removal(k)
    BY <2>1, RemovalLines
  <2>2. CASE \E i \in Changed(o, c) : t[n] = Section(c[i])
    <3>1. PICK i \in Changed(o, c) : t[n] = Section(c[i])
      BY <2>2
    <3>2. Len(Section(c[i])) \in 2 .. 4
      BY BlockFacts, SectionLines
    <3>3. Len(t[n]) \in 2 .. 4
      BY <3>1, <3>2, Zenon
    <3>4. \A x \in 2 .. 4 : x \in Nat /\ x >= 1
      OBVIOUS
    <3> QED BY <3>3, <3>4, Zenon
  <2> QED BY <2>1, <2>2, BlockKinds
<1> QED BY <1>1, <1>2

LEMMA AtNext ==
  ASSUME NEW o \in Configs, NEW c \in Configs, NEW t, Fits(o, c, t),
         NEW b, NEW l, At(t, b, l), b <= Len(t)
  PROVE  At(t, NextBlock(t, b, l), NextLine(t, b, l))
<1>1. Len(t) \in Nat /\ \A n \in 1 .. Len(t) : Len(t[n]) \in Nat /\ Len(t[n]) >= 1
  BY BlockLengths
<1>2. b \in 1 .. Len(t) /\ l \in 1 .. Len(t[b])
  BY <1>1 DEF At
<1>3. CASE l = Len(t[b])
  BY <1>1, <1>2, <1>3 DEF At, NextBlock, NextLine
<1>4. CASE l # Len(t[b])
  BY <1>1, <1>2, <1>4 DEF At, NextBlock, NextLine
<1> QED BY <1>3, <1>4

LEMMA AwaitsNext ==
  ASSUME NEW t, Len(t) \in Nat, NEW b \in 1 .. Len(t), NEW l
  PROVE  /\ \A k : k # t[b][1].key => (Awaits(t, NextBlock(t, b, l), k) <=> Awaits(t, b, k))
         /\ l # Len(t[b]) => Awaits(t, NextBlock(t, b, l), t[b][1].key)
         /\ \A k : \A n \in b + 1 .. Len(t) : t[n][1].key = k => Awaits(t, NextBlock(t, b, l), k)
<1>1. CASE l = Len(t[b])
  BY <1>1 DEF Awaits, NextBlock
<1>2. CASE l # Len(t[b])
  BY <1>2 DEF Awaits, NextBlock
<1> QED BY <1>1, <1>2

(***************************************************************************)
(* A removal: none of the sections is done yet, so a key that stays in     *)
(* use is still to be told of.                                             *)
(***************************************************************************)
LEMMA RemovalKeeps ==
  ASSUME NEW o \in Configs, NEW c \in Configs, NEW t, Fits(o, c, t),
         NEW b \in 1 .. Len(t), NEW l, At(t, b, l),
         NEW k \in Leaving(o, c), t[b] = Removal(k),
         NEW w \in WgType, NEW T, Underway(w, o, c, T, t, b, l),
         NEW v, v = Effect(w, t[b][l])
  PROVE  Underway(v, o, c, T, t, NextBlock(t, b, l), NextLine(t, b, l))
<1>0. Len(t) \in Nat /\ b <= Len(t) /\ k \in Keys
  BY BlockLengths, BlockFacts
<1>1. l = 1 /\ l = Len(t[b]) /\ t[b][l] = Line(k, "remove", None) /\ t[b][1].key = k
  <2>1. l \in 1 .. Len(t[b])
    BY <1>0 DEF At
  <2>2. Len(t[b]) = 1 /\ t[b][1] = Line(k, "remove", None) /\ t[b][1].key = k
    BY RemovalLines
  <2> QED BY <2>1, <2>2
<1>2. v[k] = NoPeer /\ \A m \in Keys \ {k} : v[m] = w[m]
  BY <1>0, <1>1, EffectRemove
<1>3. NextBlock(t, b, l) = b + 1 /\ NextLine(t, b, l) = 1
  BY <1>1 DEF NextBlock, NextLine
<1>4. ASSUME NEW i \in In(c), c[i].key = k PROVE Awaits(t, b + 1, k)
  <2>1. i \in Changed(o, c)
    <3> SUFFICES ASSUME o[i] = c[i], i \in In(o) PROVE FALSE
      BY <1>4 DEF Changed, In
    <3>1. PICK j \in In(o) : j # i /\ o[j].key = k
      <4>1. CASE k \in Gone(o, c)
        BY <4>1, <1>4 DEF Gone
      <4>2. CASE k \in {o[j].key : j \in Rekeyed(o, c)}
        BY <4>2, <1>4 DEF Rekeyed, Changed
      <4> QED BY <4>1, <4>2 DEF Leaving
    <3> QED BY <1>4, <3>1, ConfigFacts
  <2>2. Section(c[i]) \in Blocks(o, c)
    BY <2>1 DEF Blocks
  <2>3. PICK n \in 1 .. Len(t) : t[n] = Section(c[i])
    BY <2>2 DEF Fits
  <2>4. b < n
    BY <2>1, <2>3 DEF Fits
  <2>5. t[n][1].key = k
    BY <2>1, <2>3, <1>4, BlockFacts, SectionLines
  <2> QED BY <1>0, <2>4, <2>5 DEF Awaits
<1>5. ASSUME NEW m \in Keys, ~ Awaits(t, b + 1, m)
      PROVE  /\ Settled(T, c, m) => Final(v, c, m)
             /\ v[m].ips \subseteq AddrsOf(c, m) \cup LeftTo(T, m)
  <2>1. CASE m = k
    <3>1. \A i \in In(c) : c[i].key # k
      BY <1>4, <1>5, <2>1
    <3>2. AddrsOf(c, k) = {}
      BY <3>1, AddrsFacts
    <3> QED BY <1>2, <2>1, <3>1, <3>2 DEF Final, NoPeer
  <2>2. CASE m # k
    <3>1. ~ Awaits(t, b, m)
      BY <1>0, <1>1, <1>3, <1>5, <2>2, AwaitsNext
    <3>2. /\ Settled(T, c, m) => Final(w, c, m)
          /\ w[m].ips \subseteq AddrsOf(c, m) \cup LeftTo(T, m)
      BY <3>1 DEF Underway
    <3> QED BY <1>2, <2>2, <3>2 DEF Final
  <2> QED BY <2>1, <2>2
<1>6. \A m \in Keys : v[m].ips \subseteq w[m].ips
  BY <1>0, <1>2 DEF NoPeer
<1>7. \A m \in Keys : v[m].ips \subseteq AddrsOf(o, m) \cup AddrsOf(c, m) \cup LeftTo(T, m)
  BY <1>6 DEF Underway
<1>8. Apart(v)
  BY <1>6 DEF Underway, Apart
<1>9. \A e : Halfway(v, 1, e)
  BY DEF Halfway
<1> QED BY <1>3, <1>5, <1>7, <1>8, <1>9 DEF Underway

(***************************************************************************)
(* A line of a section gives the peer what Halfway says it then has.       *)
(***************************************************************************)
LEMMA SectionEffect ==
  ASSUME NEW e \in Entry, NEW w \in WgType, NEW l \in 1 .. Len(Section(e)),
         Halfway(w, l, e), NEW v, v = Effect(w, Section(e)[l])
  PROVE  /\ v \in WgType
         /\ Halfway(v, l + 1, e)
         /\ l # 2 => \A m \in Keys \ {e.key} : v[m] = w[m]
         /\ l = 2 => \A m \in Keys \ {e.key} : v[m] = [w[m] EXCEPT !.ips = w[m].ips \ {e.ip}]
         /\ v[e.key].ips \subseteq {e.ip}
         /\ v[e.key].ips # {} => l >= 2
<1> DEFINE K == e.key
<1>0. /\ K \in Keys /\ e.ip \in Addrs /\ e.psk \in Secrets \cup {None}
      /\ e.ep \in Places \cup {None}
  BY DEF Entry
<1>1. Len(Section(e)) \in 2 .. 4
  BY SectionLines
<1>2. w[K] \in [on : BOOLEAN, ips : SUBSET Addrs, ep : Places \cup {None},
                psk : Secrets \cup {None}]
  BY <1>0 DEF WgType
<1> HIDE DEF K
<1>3. CASE l = 1
  <2>1. v = Effect(w, Line(K, "peer", None))
    BY <1>3, SectionLines DEF K
  <2>2. /\ v \in WgType /\ \A m \in Keys \ {K} : v[m] = w[m]
        /\ v[K].on /\ v[K].ips = {}
    BY <1>0, <2>1, EffectPeer
  <2> QED BY <1>3, <2>2 DEF Halfway, K
<1>4. CASE l = 2
  <2>1. v = Effect(w, Line(K, "ip", e.ip))
    BY <1>4, SectionLines DEF K
  <2>2. /\ v \in WgType
        /\ v[K] = [w[K] EXCEPT !.ips = w[K].ips \cup {e.ip}]
        /\ \A m \in Keys \ {K} : v[m] = [w[m] EXCEPT !.ips = w[m].ips \ {e.ip}]
    BY <1>0, <2>1, EffectIp
  <2>3. w[K].on /\ w[K].ips = {}
    BY <1>4 DEF Halfway, K
  <2>4. v[K].on /\ v[K].ips = {e.ip}
    <3>1. v[K].on = w[K].on /\ v[K].ips = w[K].ips \cup {e.ip}
      BY <1>2, <2>2
    <3> QED BY <2>3, <3>1
  <2> QED BY <1>4, <2>2, <2>4 DEF Halfway, K
<1>5. CASE l >= 3
  <2>0. w[K].on /\ w[K].ips = {e.ip}
    BY <1>1, <1>5 DEF Halfway, K
  <2>1. CASE l = 3 /\ e.psk # None /\ Section(e)[l] = Line(K, "psk", e.psk)
    <3>1. v[K] = [w[K] EXCEPT !.psk = e.psk] /\ v \in WgType /\ \A m \in Keys \ {K} : v[m] = w[m]
      BY <1>0, <2>1, EffectPsk
    <3>2. v[K].on = w[K].on /\ v[K].ips = w[K].ips /\ v[K].psk = e.psk
      BY <1>2, <3>1
    <3>3. v[K].on /\ v[K].ips = {e.ip} /\ v[K].psk = e.psk
      BY <2>0, <3>2, Zenon
    <3>4. Halfway(v, l + 1, e)
      BY <2>1, <3>3 DEF Halfway, K
    <3> QED BY <2>1, <3>1, <3>3, <3>4 DEF K
  <2>2. CASE (e.psk # None => l = 4) /\ Section(e)[l] = Line(K, "endpoint", e.ep)
    <3>1. v[K] = [w[K] EXCEPT !.ep = e.ep] /\ v \in WgType /\ \A m \in Keys \ {K} : v[m] = w[m]
      BY <1>0, <2>2, EffectEndpoint
    <3>2. v[K].on = w[K].on /\ v[K].ips = w[K].ips /\ v[K].psk = w[K].psk
      BY <1>2, <3>1
    <3>3. e.psk # None => w[K].psk = e.psk
      BY <2>2 DEF Halfway, K
    <3> QED BY <1>5, <2>0, <3>1, <3>2, <3>3 DEF Halfway, K
  <2>3. l \in 3 .. Len(Section(e))
    BY <1>1, <1>5
  <2>4. \/ l = 3 /\ e.psk # None /\ Section(e)[l] = Line(K, "psk", e.psk)
        \/ (e.psk # None => l = 4) /\ Section(e)[l] = Line(K, "endpoint", e.ep)
    BY <2>3, SectionLines DEF K
  <2> QED BY <2>1, <2>2, <2>4
<1> QED BY <1>1, <1>3, <1>4, <1>5

(***************************************************************************)
(* A section: the address goes to its key and leaves any other, and when   *)
(* the section ends its peer is as c says.                                 *)
(***************************************************************************)
LEMMA SectionKeeps ==
  ASSUME NEW o \in Configs, NEW c \in Configs, NEW t, Fits(o, c, t),
         NEW b \in 1 .. Len(t), NEW l, At(t, b, l),
         NEW i \in Changed(o, c), t[b] = Section(c[i]),
         NEW w \in WgType, NEW T, Underway(w, o, c, T, t, b, l),
         NEW v, v = Effect(w, t[b][l])
  PROVE  Underway(v, o, c, T, t, NextBlock(t, b, l), NextLine(t, b, l))
<1> DEFINE e == c[i]
           K == e.key
           b2 == NextBlock(t, b, l)
           l2 == NextLine(t, b, l)
<1>0. Len(t) \in Nat /\ b <= Len(t) /\ e \in Entry /\ K \in Keys /\ i \in In(c)
  BY BlockLengths, BlockFacts
<1>1. l \in 1 .. Len(Section(e)) /\ Len(Section(e)) = Len(t[b])
  <2>1. t[b] = Section(e)
    OBVIOUS
  <2> HIDE DEF e
  <2>2. l \in 1 .. Len(t[b])
    BY <1>0, Zenon DEF At
  <2> QED BY <2>1, <2>2, Zenon
<1>2. Halfway(w, l, e)
  BY <1>0 DEF Underway
<1>3. t[b][1].key = K
  <2>1. t[b] = Section(e)
    OBVIOUS
  <2> HIDE DEF e
  <2>2. Section(e)[1] = Line(e.key, "peer", None)
    BY <1>0, SectionLines, Zenon
  <2> QED BY <2>1, <2>2 DEF Line
<1> HIDE DEF e, K, b2, l2
<1>4. v = Effect(w, Section(e)[l])
  BY DEF e
<1>5. /\ v \in WgType
      /\ Halfway(v, l + 1, e)
      /\ l # 2 => \A m \in Keys \ {K} : v[m] = w[m]
      /\ l = 2 => \A m \in Keys \ {K} : v[m] = [w[m] EXCEPT !.ips = w[m].ips \ {e.ip}]
      /\ v[K].ips \subseteq {e.ip}
      /\ v[K].ips # {} => l >= 2
  BY <1>0, <1>1, <1>2, <1>4, SectionEffect DEF K
<1>6. Len(Section(e)) \in 2 .. 4 /\ (e.psk # None => Len(Section(e)) >= 3)
  BY <1>0, SectionLines
<1>7. AddrsOf(c, K) = {e.ip} /\ \A j \in In(c) : c[j].key = K => j = i
  BY <1>0, AddrsFacts, ConfigFacts DEF e, K
<1>8. ASSUME NEW m \in Keys \ {K}
      PROVE  /\ v[m].on = w[m].on /\ v[m].psk = w[m].psk
             /\ v[m].ips = IF l = 2 THEN w[m].ips \ {e.ip} ELSE w[m].ips
  <2>1. w[m] \in [on : BOOLEAN, ips : SUBSET Addrs, ep : Places \cup {None},
                  psk : Secrets \cup {None}]
    BY DEF WgType
  <2>2. CASE l = 2
    BY <1>5, <2>1, <2>2
  <2>3. CASE l # 2
    BY <1>5, <2>3
  <2> QED BY <2>2, <2>3
<1>9. ASSUME NEW m \in Keys, ~ Awaits(t, b2, m)
      PROVE  /\ Settled(T, c, m) => Final(v, c, m)
             /\ v[m].ips \subseteq AddrsOf(c, m) \cup LeftTo(T, m)
  <2>1. CASE m = K
    <3>1. l = Len(Section(e))
      BY <1>0, <1>1, <1>3, <1>9, <2>1, AwaitsNext DEF b2
    <3>2. /\ v[K].on /\ v[K].ips = {e.ip}
          /\ e.psk # None => v[K].psk = e.psk
      <4>1. /\ l + 1 >= 2 /\ l + 1 >= 3 /\ l + 1 # 2
            /\ e.psk # None => l + 1 >= 4
        <5>1. l \in 2 .. 4 /\ (e.psk # None => l >= 3)
          BY <1>6, <3>1
        <5> QED BY <5>1
      <4>2. Halfway(v, l + 1, e)
        BY <1>5
      <4> QED BY <4>1, <4>2, Zenon DEF Halfway, K
    <3> QED BY <1>7, <2>1, <3>2 DEF Final, e
  <2>2. CASE m # K
    <3>1. ~ Awaits(t, b, m)
      BY <1>0, <1>3, <1>9, <2>2, AwaitsNext DEF b2
    <3>2. /\ Settled(T, c, m) => Final(w, c, m)
          /\ w[m].ips \subseteq AddrsOf(c, m) \cup LeftTo(T, m)
      BY <3>1 DEF Underway
    <3>3. e.ip \notin AddrsOf(c, m)
      BY <1>7, <2>2, AddrsFacts
    <3>4. ASSUME Settled(T, c, m) PROVE Final(v, c, m)
      <4>1. Final(w, c, m)
        BY <3>2, <3>4
      <4>2. w[m].ips \ {e.ip} = w[m].ips
        BY <3>3, <4>1 DEF Final
      <4>3. v[m].on = w[m].on /\ v[m].psk = w[m].psk /\ v[m].ips = w[m].ips
        BY <1>8, <2>2, <4>2
      <4> QED BY <4>1, <4>3 DEF Final
    <3>5. v[m].ips \subseteq w[m].ips
      BY <1>8, <2>2
    <3> QED BY <3>2, <3>4, <3>5
  <2> QED BY <2>1, <2>2
<1>10. \A m \in Keys \ {K} : v[m].ips \subseteq w[m].ips
  BY <1>8
<1>11. \A m \in Keys : v[m].ips \subseteq AddrsOf(o, m) \cup AddrsOf(c, m) \cup LeftTo(T, m)
  BY <1>5, <1>7, <1>10 DEF Underway
<1>12. ASSUME NEW m \in Keys \ {K} PROVE v[m].ips \cap v[K].ips = {}
  <2>1. CASE l = 1
    BY <1>5, <2>1
  <2>2. CASE l = 2
    BY <1>5, <1>8, <2>2
  <2>3. CASE l >= 3
    <3>1. w[K].ips = {e.ip}
      BY <1>2, <2>3 DEF Halfway, K
    <3>2. w[m].ips \cap w[K].ips = {}
      BY <1>0 DEF Underway, Apart
    <3> QED BY <1>5, <1>10, <3>1, <3>2
  <2> QED BY <1>1, <1>6, <2>1, <2>2, <2>3
<1>13. Apart(v)
  <2> SUFFICES ASSUME NEW m \in Keys, NEW n \in Keys, m # n PROVE v[m].ips \cap v[n].ips = {}
    BY DEF Apart
  <2>1. CASE m # K /\ n # K
    <3>1. w[m].ips \cap w[n].ips = {}
      BY DEF Underway, Apart
    <3> QED BY <1>10, <2>1, <3>1
  <2> QED BY <1>12, <2>1
<1>14. ASSUME b2 <= Len(t), NEW j \in Changed(o, c), t[b2] = Section(c[j])
       PROVE  Halfway(v, l2, c[j])
  <2>1. CASE l = Len(t[b])
    BY <2>1 DEF l2, NextLine, Halfway
  <2>2. CASE l # Len(t[b])
    <3>1. b2 = b /\ l2 = l + 1
      BY <2>2 DEF b2, l2, NextBlock, NextLine
    <3>2. j \in In(c) /\ c[j].key = K
      BY <1>3, <1>14, <3>1, BlockFacts, SectionLines
    <3>3. j = i
      BY <1>7, <3>2
    <3> QED BY <1>5, <3>1, <3>3 DEF e
  <2> QED BY <2>1, <2>2
<1> QED BY <1>9, <1>11, <1>13, <1>14 DEF Underway, b2, l2

(***************************************************************************)
(* Each line of a text keeps what holds while the text is taken.           *)
(***************************************************************************)
LEMMA LineKeeps ==
  ASSUME NEW o \in Configs, NEW c \in Configs, NEW t, Fits(o, c, t),
         NEW b, NEW l, At(t, b, l), b <= Len(t),
         NEW w \in WgType, NEW T, Underway(w, o, c, T, t, b, l)
  PROVE  Underway(Effect(w, t[b][l]), o, c, T, t, NextBlock(t, b, l), NextLine(t, b, l))
<1>1. b \in 1 .. Len(t)
  BY BlockLengths DEF At
<1> QED BY <1>1, BlockKinds, RemovalKeeps, SectionKeeps

\* Whatever the line, what wg has keeps its type.
LEMMA LineTypes ==
  ASSUME NEW o \in Configs, NEW c \in Configs, NEW t, Fits(o, c, t),
         NEW b, NEW l, At(t, b, l), b <= Len(t), NEW w \in WgType
  PROVE  Effect(w, t[b][l]) \in WgType
<1>1. b \in 1 .. Len(t) /\ l \in 1 .. Len(t[b])
  BY BlockLengths DEF At
<1>2. ASSUME NEW k \in Leaving(o, c), t[b] = Removal(k) PROVE Effect(w, t[b][l]) \in WgType
  <2>1. k \in Keys
    BY BlockFacts
  <2>2. l = 1
    <3>1. Len(t[b]) = 1
      BY <1>2, RemovalLines, Zenon
    <3> QED BY <1>1, <3>1
  <2>3. t[b][l] = Line(k, "remove", None)
    BY <1>2, <2>2, RemovalLines
  <2> QED BY <2>1, <2>3, EffectRemove
<1>3. ASSUME NEW i \in Changed(o, c), t[b] = Section(c[i]) PROVE Effect(w, t[b][l]) \in WgType
  <2> DEFINE e == c[i]
  <2>1. /\ e \in Entry /\ e.key \in Keys /\ e.ip \in Addrs /\ e.psk \in Secrets \cup {None}
        /\ e.ep \in Places \cup {None}
    BY BlockFacts
  <2> HIDE DEF e
  <2>2. t[b] = Section(e) /\ Len(Section(e)) \in 2 .. 4 /\ l \in 1 .. Len(Section(e))
    BY <1>1, <1>3, <2>1, SectionLines DEF e
  <2>3. \/ t[b][l] = Line(e.key, "peer", None)
        \/ t[b][l] = Line(e.key, "ip", e.ip)
        \/ t[b][l] = Line(e.key, "psk", e.psk)
        \/ t[b][l] = Line(e.key, "endpoint", e.ep)
    <3>1. l = 1 \/ l = 2 \/ l \in 3 .. Len(Section(e))
      BY <2>2
    <3> QED BY <2>1, <2>2, <3>1, SectionLines
  <2>4. Effect(w, Line(e.key, "peer", None)) \in WgType
    BY <2>1, EffectPeer
  <2>5. Effect(w, Line(e.key, "ip", e.ip)) \in WgType
    BY <2>1, EffectIp
  <2>6. Effect(w, Line(e.key, "psk", e.psk)) \in WgType
    BY <2>1, EffectPsk
  <2>7. Effect(w, Line(e.key, "endpoint", e.ep)) \in WgType
    BY <2>1, EffectEndpoint
  <2> QED BY <2>3, <2>4, <2>5, <2>6, <2>7
<1> QED BY <1>1, <1>2, <1>3, BlockKinds
----------------------------------------------------------------------------
(***************************************************************************)
(* The inductive invariant.  A text that is being taken leads from what wg *)
(* was told before, Was, to job.cur; when a text has been taken to its     *)
(* last line job.cur is in force, and between two texts the snapshot is,   *)
(* but for what the configurations of torn say otherwise.                  *)
(***************************************************************************)
Writing == job.pc \in {"open", "set"}
Was == IF job.pc = "open" THEN Nobody ELSE snap

JobInv ==
  /\ DOMAIN job = {"pc", "cur", "text", "block", "line"}
  /\ Writing => Fits(Was, job.cur, job.text) /\ At(job.text, job.block, job.line)
  /\ job.pc = "open" => job.cur = snap
  /\ rules = IF job.pc = "snap" THEN job.cur ELSE snap

WgInv ==
  /\ job.pc = "idle" => Steady(wg, snap, torn)
  /\ job.pc \in {"rules", "snap"} => Steady(wg, job.cur, torn)
  /\ Writing => Underway(wg, Was, job.cur, torn, job.text, job.block, job.line)

LEMMA JobFacts ==
  ASSUME NEW pc, NEW c, NEW text
  PROVE  /\ Job(pc, c, text).pc = pc /\ Job(pc, c, text).cur = c
         /\ Job(pc, c, text).text = text
         /\ Job(pc, c, text).block = 1 /\ Job(pc, c, text).line = 1
         /\ DOMAIN Job(pc, c, text) = {"pc", "cur", "text", "block", "line"}
BY DEF Job

LEMMA RestFacts ==
  /\ Rest.pc = "idle" /\ Rest.cur = Nobody /\ Rest.cur \in Configs
  /\ DOMAIN Rest = {"pc", "cur", "text", "block", "line"}
BY NobodyIn, JobFacts DEF Rest

LEMMA AtFirst ==
  ASSUME NEW o \in Configs, NEW c \in Configs, NEW t, Fits(o, c, t)
  PROVE  At(t, 1, 1)
BY BlockLengths DEF At

(***************************************************************************)
(* The types, together with the text: no failure of IpcSet disturbs them.  *)
(***************************************************************************)
LEMMA TypeInit == Init => TypeOK /\ JobInv
<1> SUFFICES ASSUME Init PROVE TypeOK /\ JobInv
  OBVIOUS
<1>1. /\ snap \in Configs /\ rules = snap /\ wg = [k \in Keys |-> NoPeer] /\ torn = {}
      /\ job = Job("open", snap, UAPIConfig(snap))
  BY DEF Init
<1>2. /\ job.pc = "open" /\ job.cur = snap /\ job.text = UAPIConfig(snap)
      /\ job.block = 1 /\ job.line = 1
      /\ DOMAIN job = {"pc", "cur", "text", "block", "line"}
  BY <1>1, JobFacts
<1>3. NoPeer \in [on : BOOLEAN, ips : SUBSET Addrs, ep : Places \cup {None},
                  psk : Secrets \cup {None}]
  BY DEF NoPeer
<1>4. Fits(Nobody, snap, UAPIConfig(snap))
  BY <1>1, ConfigFits
<1>5. At(UAPIConfig(snap), 1, 1)
  BY <1>1, <1>4, NobodyIn, AtFirst
<1>6. TypeOK
  BY <1>1, <1>2, <1>3 DEF TypeOK
<1>7. JobInv
  BY <1>1, <1>2, <1>4, <1>5 DEF JobInv, Writing, Was
<1> QED BY <1>6, <1>7

\* What IpcLine does to the position, and to nothing else of the job.
LEMMA LineFacts ==
  ASSUME TypeOK, JobInv, IpcLine
  PROVE  /\ Writing /\ Writing'
         /\ Was \in Configs /\ job.cur \in Configs
         /\ Fits(Was, job.cur, job.text) /\ At(job.text, job.block, job.line)
         /\ job.block <= Len(job.text)
         /\ job'.pc = job.pc /\ job'.cur = job.cur /\ job'.text = job.text /\ Was' = Was
         /\ job'.block = NextBlock(job.text, job.block, job.line)
         /\ job'.line = NextLine(job.text, job.block, job.line)
         /\ DOMAIN job' = DOMAIN job
         /\ wg' = Effect(wg, job.text[job.block][job.line])
         /\ UNCHANGED <<rules, snap, torn>>
<1>1. /\ Writing /\ job.block <= Len(job.text)
      /\ wg' = Effect(wg, job.text[job.block][job.line])
      /\ UNCHANGED <<rules, snap, torn>>
  BY DEF IpcLine, Writing
<1>2. DOMAIN job = {"pc", "cur", "text", "block", "line"}
  BY DEF JobInv
<1>3. /\ job'.pc = job.pc /\ job'.cur = job.cur /\ job'.text = job.text
      /\ job'.block = NextBlock(job.text, job.block, job.line)
      /\ job'.line = NextLine(job.text, job.block, job.line)
      /\ DOMAIN job' = DOMAIN job
  <2>1. CASE job.line = Len(job.text[job.block])
    <3>1. job' = [job EXCEPT !.block = @ + 1, !.line = 1]
      BY <2>1 DEF IpcLine
    <3> QED BY <1>2, <2>1, <3>1 DEF NextBlock, NextLine
  <2>2. CASE job.line # Len(job.text[job.block])
    <3>1. job' = [job EXCEPT !.line = @ + 1]
      BY <2>2 DEF IpcLine
    <3> QED BY <1>2, <2>2, <3>1 DEF NextBlock, NextLine
  <2> QED BY <2>1, <2>2
<1>4. Writing' /\ Was' = Was
  BY <1>1, <1>3 DEF Writing, Was
<1>5. Was \in Configs /\ job.cur \in Configs
  BY NobodyIn DEF Was, TypeOK
<1> QED BY <1>1, <1>3, <1>4, <1>5 DEF JobInv

LEMMA TypeStep == TypeOK /\ JobInv /\ [Next]_vars => TypeOK' /\ JobInv'
<1> SUFFICES ASSUME TypeOK, JobInv, [Next]_vars PROVE TypeOK' /\ JobInv'
  OBVIOUS
<1>0. /\ wg \in WgType /\ rules \in Configs /\ snap \in Configs /\ job.cur \in Configs
      /\ torn \subseteq Configs /\ Was \in Configs
  BY NobodyIn DEF TypeOK, WgType, Was
<1>1. CASE IpcLine
  <2>1. wg' \in WgType
    BY <1>0, <1>1, LineFacts, LineTypes
  <2>2. TypeOK'
    BY <1>1, <2>1, LineFacts DEF TypeOK, WgType
  <2>3. At(job'.text, job'.block, job'.line)
    BY <1>1, LineFacts, AtNext
  <2>4. JobInv'
    BY <1>1, <2>3, LineFacts DEF JobInv
  <2> QED BY <2>2, <2>4
<1>2. CASE IpcDone
  <2>1. CASE job.pc = "open" /\ job' = Rest
    BY <1>2, <2>1, RestFacts DEF IpcDone, TypeOK, JobInv, Writing
  <2>2. CASE job' = [job EXCEPT !.pc = "rules"]
    <3>1. job'.pc = "rules" /\ job'.cur = job.cur /\ DOMAIN job' = DOMAIN job
      BY <2>2 DEF JobInv
    <3> QED BY <1>2, <3>1 DEF IpcDone, TypeOK, JobInv, Writing
  <2> QED BY <1>2, <2>1, <2>2 DEF IpcDone
<1>3. CASE IpcFails
  BY <1>3, RestFacts DEF IpcFails, TypeOK, JobInv, Writing
<1>4. CASE StoreRules
  <2>1. job' = [job EXCEPT !.pc = "snap"]
    BY <1>4 DEF StoreRules
  <2>2. job'.pc = "snap" /\ job'.cur = job.cur /\ DOMAIN job' = DOMAIN job
    BY <2>1 DEF JobInv
  <2> QED BY <1>4, <2>2 DEF StoreRules, TypeOK, JobInv, Writing
<1>5. CASE StoreSnap
  BY <1>5, RestFacts DEF StoreSnap, TypeOK, JobInv, Writing
<1>6. ASSUME NEW c \in Configs, Begin(c) PROVE TypeOK' /\ JobInv'
  <2>1. PICK text \in UAPIReload(snap, c) :
          job' = Job(IF text = <<>> THEN "rules" ELSE "set", c, text)
    BY <1>6 DEF Begin
  <2>2. /\ job'.pc = (IF text = <<>> THEN "rules" ELSE "set") /\ job'.cur = c
        /\ job'.text = text /\ job'.block = 1 /\ job'.line = 1
        /\ DOMAIN job' = {"pc", "cur", "text", "block", "line"}
    BY <2>1, JobFacts
  <2>3. Fits(snap, c, text) /\ At(text, 1, 1)
    BY <1>0, ReloadFits, AtFirst
  <2>4. job.pc = "idle" /\ UNCHANGED <<wg, rules, snap, torn>>
    BY <1>6 DEF Begin
  <2>5. TypeOK'
    BY <2>2, <2>4 DEF TypeOK
  <2>6. JobInv'
    <3>1. rules = snap /\ job'.pc \in {"rules", "set"}
      BY <2>2, <2>4 DEF JobInv
    <3> QED BY <2>2, <2>3, <2>4, <3>1 DEF JobInv, Writing, Was
  <2> QED BY <2>5, <2>6
<1>7. ASSUME NEW k \in Keys, NEW p \in Places, Roam(k, p) PROVE TypeOK' /\ JobInv'
  BY <1>7 DEF Roam, TypeOK, JobInv, Writing, Was
<1>8. CASE UNCHANGED vars
  BY <1>8 DEF vars, TypeOK, JobInv, Writing, Was
<1> QED BY <1>1, <1>2, <1>3, <1>4, <1>5, <1>6, <1>7, <1>8 DEF Next, Reload

(***************************************************************************)
(* The variables have their types in every reachable state.                *)
(***************************************************************************)
THEOREM TypeCorrect == Spec => []TypeOK
<1>1. Spec => [](TypeOK /\ JobInv)
  BY TypeInit, TypeStep, PTL DEF Spec
<1> QED BY <1>1, PTL
----------------------------------------------------------------------------
\* Before it is told of its peers wg has nobody.
LEMMA WgInit == Init => WgInv
<1> SUFFICES ASSUME Init PROVE WgInv
  OBVIOUS
<1>1. /\ snap \in Configs /\ wg = [k \in Keys |-> NoPeer]
      /\ job = Job("open", snap, UAPIConfig(snap))
  BY DEF Init
<1>2. /\ job.pc = "open" /\ job.cur = snap /\ job.text = UAPIConfig(snap)
      /\ job.block = 1 /\ job.line = 1
  BY <1>1, JobFacts
<1>3. \A k \in Keys : Final(wg, Nobody, k)
  <2>1. \A k \in Keys : AddrsOf(Nobody, k) = {}
    BY NobodyIn, AddrsFacts
  <2> QED BY <1>1, <2>1, NobodyIn DEF Final, NoPeer
<1>4. Steady(wg, Nobody, torn)
  <2>1. \A k \in Keys : wg[k].ips = {}
    BY <1>1 DEF NoPeer
  <2> QED BY <1>3, <2>1 DEF Steady, Apart
<1>5. Underway(wg, Nobody, snap, torn, UAPIConfig(snap), 1, 1)
  BY <1>1, <1>4, ConfigFits, NobodyIn, UnderwayAtFirst
<1> QED BY <1>2, <1>5 DEF WgInv, Writing, Was

\* Where wg sends to is not part of what it is told.
SameButPlaces(w, v) ==
  \A k \in Keys : v[k].on = w[k].on /\ v[k].ips = w[k].ips /\ v[k].psk = w[k].psk

LEMMA RoamIsPlace ==
  ASSUME NEW w \in WgType, NEW k \in Keys, NEW p
  PROVE  SameButPlaces(w, [w EXCEPT ![k].ep = p])
BY DEF SameButPlaces, WgType

LEMMA RoamFinal ==
  ASSUME NEW w, NEW v, SameButPlaces(w, v), NEW c, NEW k \in Keys, Final(w, c, k)
  PROVE  Final(v, c, k)
BY DEF Final, SameButPlaces

LEMMA RoamSteady ==
  ASSUME NEW w, NEW v, SameButPlaces(w, v), NEW c, NEW T, Steady(w, c, T)
  PROVE  Steady(v, c, T)
<1>1. \A k \in Keys : v[k].ips = w[k].ips
  BY DEF SameButPlaces
<1> QED BY <1>1, RoamFinal DEF Steady, Apart

LEMMA RoamUnderway ==
  ASSUME NEW w, NEW v, SameButPlaces(w, v), NEW o \in Configs, NEW c \in Configs, NEW T,
         NEW t, NEW b, NEW l, Underway(w, o, c, T, t, b, l)
  PROVE  Underway(v, o, c, T, t, b, l)
<1>1. ASSUME NEW e, e.key \in Keys, Halfway(w, l, e) PROVE Halfway(v, l, e)
  BY <1>1 DEF Halfway, SameButPlaces
<1>2. \A k \in Keys : v[k].ips = w[k].ips
  BY DEF SameButPlaces
<1>3. \A k \in Keys : ~ Awaits(t, b, k) =>
        /\ Settled(T, c, k) => Final(v, c, k)
        /\ v[k].ips \subseteq AddrsOf(c, k) \cup LeftTo(T, k)
  BY <1>2, RoamFinal DEF Underway
<1>4. \A k \in Keys : v[k].ips \subseteq AddrsOf(o, k) \cup AddrsOf(c, k) \cup LeftTo(T, k)
  BY <1>2 DEF Underway
<1>5. Apart(v)
  BY <1>2 DEF Underway, Apart
<1>6. b <= Len(t) => \A i \in Changed(o, c) : t[b] = Section(c[i]) => Halfway(v, l, c[i])
  BY <1>1, BlockFacts DEF Underway
<1> QED BY <1>3, <1>4, <1>5, <1>6 DEF Underway

LEMMA WgStep == TypeOK /\ JobInv /\ WgInv /\ [Next]_vars => WgInv'
<1> SUFFICES ASSUME TypeOK, JobInv, WgInv, [Next]_vars PROVE WgInv'
  OBVIOUS
<1>0. /\ wg \in WgType /\ snap \in Configs /\ job.cur \in Configs /\ Was \in Configs
      /\ torn \subseteq Configs
  BY NobodyIn DEF TypeOK, WgType, Was
<1>1. CASE IpcLine
  <2>1. Underway(wg', Was, job.cur, torn, job.text, job'.block, job'.line)
    BY <1>0, <1>1, LineFacts, LineKeeps DEF WgInv
  <2>2. job.pc \in {"open", "set"} /\ job'.pc = job.pc
    BY <1>1, LineFacts DEF Writing
  <2> QED BY <1>1, <2>1, <2>2, LineFacts DEF WgInv, Writing
<1>2. CASE IpcDone
  <2>1. Writing /\ job.block > Len(job.text) /\ UNCHANGED <<wg, rules, snap, torn>>
    BY <1>2 DEF IpcDone, Writing
  <2>2. Steady(wg, job.cur, torn)
    <3>1. Fits(Was, job.cur, job.text) /\ At(job.text, job.block, job.line)
      BY <2>1 DEF JobInv
    <3> QED BY <1>0, <2>1, <3>1, UnderwayAtLast DEF WgInv
  <2>3. CASE job.pc = "open" /\ job' = Rest
    <3>1. job.cur = snap
      BY <2>3 DEF JobInv
    <3>2. job'.pc = "idle"
      BY <2>3, RestFacts
    <3> QED BY <2>1, <2>2, <3>1, <3>2 DEF WgInv, Writing
  <2>4. CASE job' = [job EXCEPT !.pc = "rules"]
    <3>1. job'.pc = "rules" /\ job'.cur = job.cur
      BY <2>4 DEF JobInv
    <3> QED BY <2>1, <2>2, <3>1 DEF WgInv, Writing
  <2> QED BY <1>2, <2>3, <2>4 DEF IpcDone
<1>3. CASE IpcFails
  <2>1. /\ job.pc = "set" /\ Writing /\ Was = snap
        /\ job'.pc = "idle" /\ torn' = torn \cup {job.cur} /\ UNCHANGED <<wg, rules, snap>>
    BY <1>3, RestFacts DEF IpcFails, Writing, Was
  <2>2. /\ Fits(snap, job.cur, job.text) /\ At(job.text, job.block, job.line)
        /\ Underway(wg, snap, job.cur, torn, job.text, job.block, job.line)
    BY <2>1 DEF JobInv, WgInv
  <2>3. Steady(wg, snap, torn \cup {job.cur})
    BY <1>0, <2>2, BrokenOff
  <2> QED BY <2>1, <2>3 DEF WgInv, Writing
<1>4. CASE StoreRules
  <2>1. job' = [job EXCEPT !.pc = "snap"] /\ job.pc = "rules" /\ UNCHANGED <<wg, snap, torn>>
    BY <1>4 DEF StoreRules
  <2>2. job'.pc = "snap" /\ job'.cur = job.cur
    BY <2>1 DEF JobInv
  <2> QED BY <2>1, <2>2 DEF WgInv, Writing
<1>5. CASE StoreSnap
  <2>1. /\ job'.pc = "idle" /\ snap' = job.cur /\ job.pc = "snap"
        /\ torn' = torn \ {job.cur} /\ UNCHANGED wg
    BY <1>5, RestFacts DEF StoreSnap
  <2>2. Steady(wg, job.cur, torn \ {job.cur})
    BY <2>1, SteadyWithout DEF WgInv
  <2> QED BY <2>1, <2>2 DEF WgInv, Writing
<1>6. ASSUME NEW c \in Configs, Begin(c) PROVE WgInv'
  <2>1. PICK text \in UAPIReload(snap, c) :
          job' = Job(IF text = <<>> THEN "rules" ELSE "set", c, text)
    BY <1>6 DEF Begin
  <2>2. /\ job'.pc = (IF text = <<>> THEN "rules" ELSE "set") /\ job'.cur = c
        /\ job'.text = text /\ job'.block = 1 /\ job'.line = 1
    BY <2>1, JobFacts
  <2>3. Fits(snap, c, text) /\ At(text, 1, 1)
    BY <1>0, ReloadFits, AtFirst
  <2>4. job.pc = "idle" /\ UNCHANGED <<wg, rules, snap, torn>>
    BY <1>6 DEF Begin
  <2>5. Underway(wg, snap, c, torn, text, 1, 1)
    BY <1>0, <2>3, <2>4, UnderwayAtFirst DEF WgInv
  <2>6. text = <<>> => Steady(wg, c, torn)
    <3> SUFFICES ASSUME text = <<>> PROVE Steady(wg, c, torn)
      OBVIOUS
    <3>1. 1 > Len(text)
      OBVIOUS
    <3> QED BY <2>3, <2>5, <3>1, UnderwayAtLast
  <2> QED BY <2>2, <2>4, <2>5, <2>6 DEF WgInv, Writing, Was
<1>7. ASSUME NEW k \in Keys, NEW p \in Places, Roam(k, p) PROVE WgInv'
  <2>1. wg' = [wg EXCEPT ![k].ep = p] /\ UNCHANGED <<rules, snap, job, torn>>
    BY <1>7 DEF Roam
  <2>a. SameButPlaces(wg, wg')
    BY <1>0, <2>1, RoamIsPlace
  <2>2. \A c : Steady(wg, c, torn) => Steady(wg', c, torn)
    BY <2>a, RoamSteady
  <2>3. Writing /\ Underway(wg, Was, job.cur, torn, job.text, job.block, job.line)
          => Underway(wg', Was, job.cur, torn, job.text, job.block, job.line)
    BY <1>0, <2>a, RoamUnderway
  <2>4. Was' = Was /\ (Writing' <=> Writing)
    BY <2>1 DEF Was, Writing
  <2> QED BY <1>0, <2>1, <2>2, <2>3, <2>4 DEF WgInv
<1>8. CASE UNCHANGED vars
  BY <1>8 DEF vars, WgInv, Writing, Was
<1> QED BY <1>1, <1>2, <1>3, <1>4, <1>5, <1>6, <1>7, <1>8 DEF Next, Reload

LEMMA Invariants == Spec => [](TypeOK /\ JobInv /\ WgInv)
<1>1. Init => TypeOK /\ JobInv /\ WgInv
  BY TypeInit, WgInit
<1>2. TypeOK /\ JobInv /\ WgInv /\ [Next]_vars => TypeOK' /\ JobInv' /\ WgInv'
  BY TypeStep, WgStep
<1> QED BY <1>1, <1>2, PTL DEF Spec

(***************************************************************************)
(* After any number of reloads, and between two of them, wg has the peers  *)
(* of the snapshot and no others, each with its one address and with its   *)
(* secret if it has one: the differences of UAPIReload add up.  It is so   *)
(* again after reloads that failed half-way, once each of their            *)
(* configurations has been brought in.                                     *)
(***************************************************************************)
THEOREM PeersInForceAlways == Spec => []PeersInForce
<1>1. TypeOK /\ WgInv => PeersInForce
  <2> SUFFICES ASSUME TypeOK, WgInv, job.pc = "idle", torn = {}
               PROVE  /\ \A k \in Keys : wg[k].on <=> AddrsOf(snap, k) # {}
                      /\ \A k \in Keys : wg[k].ips = AddrsOf(snap, k)
                      /\ \A i \in In(snap) : snap[i].psk # None =>
                           wg[snap[i].key].psk = snap[i].psk
    BY DEF PeersInForce
  <2>1. \A k \in Keys : Final(wg, snap, k)
    BY DEF WgInv, Steady, Settled
  <2>2. \A i \in In(snap) : snap[i].key \in Keys
    BY ConfigFacts DEF TypeOK, Entry
  <2> QED BY <2>1, <2>2 DEF Final
<1> QED BY <1>1, Invariants, PTL

\* Whose addresses wg has: those of the rules, of job.cur until its rules are
\* stored, and of what failed.
LEMMA WhoseAddrs ==
  ASSUME TypeOK, JobInv, WgInv
  PROVE  /\ Apart(wg)
         /\ \A k \in Keys : wg[k].ips \subseteq
              AddrsOf(rules, k) \cup LeftTo(torn, k)
                \cup (IF job.pc \in {"set", "rules"} THEN AddrsOf(job.cur, k) ELSE {})
<1>1. CASE job.pc = "idle"
  BY <1>1 DEF JobInv, WgInv, Steady
<1>2. CASE job.pc \in {"rules", "snap"}
  BY <1>2 DEF JobInv, WgInv, Steady
<1>3. CASE job.pc = "set"
  BY <1>3 DEF JobInv, WgInv, Writing, Was, Underway
<1>4. CASE job.pc = "open"
  <2>1. /\ Apart(wg) /\ rules = job.cur
        /\ \A k \in Keys : wg[k].ips \subseteq
             AddrsOf(Nobody, k) \cup AddrsOf(job.cur, k) \cup LeftTo(torn, k)
    BY <1>4 DEF JobInv, WgInv, Writing, Was, Underway
  <2>2. \A k : AddrsOf(Nobody, k) = {}
    BY NobodyIn, AddrsFacts
  <2> QED BY <1>4, <2>1, <2>2
<1> QED BY <1>1, <1>2, <1>3, <1>4 DEF TypeOK

(***************************************************************************)
(* Between any two lines of any text wg accepts an address from one key    *)
(* only, and from none to which neither the configuration in force nor the *)
(* one being brought in nor one that failed half-way gives it.             *)
(***************************************************************************)
THEOREM OnlyAssignedAlways == Spec => []OnlyAssigned
<1>1. TypeOK /\ JobInv /\ WgInv => OnlyAssigned
  <2> SUFFICES ASSUME TypeOK, JobInv, WgInv, NEW k \in Keys, NEW a \in wg[k].ips
               PROVE  /\ \E c \in torn \cup {snap, job.cur} : a \in AddrsOf(c, k)
                      /\ \A l \in Keys \ {k} : a \notin wg[l].ips
    BY DEF OnlyAssigned
  <2>1. a \in AddrsOf(rules, k) \/ a \in LeftTo(torn, k) \/ a \in AddrsOf(job.cur, k)
    BY WhoseAddrs
  <2>2. rules \in {snap, job.cur}
    BY DEF JobInv
  <2>3. \E c \in torn \cup {snap, job.cur} : a \in AddrsOf(c, k)
    BY <2>1, <2>2 DEF LeftTo
  <2>4. \A l \in Keys \ {k} : a \notin wg[l].ips
    BY WhoseAddrs DEF Apart
  <2> QED BY <2>3, <2>4
<1> QED BY <1>1, Invariants, PTL

(***************************************************************************)
(* A packet is judged as another peer than the one it came from only while *)
(* a reload hands its address over, or after one that failed half-way.     *)
(***************************************************************************)
THEOREM MisjudgedInHandoverAlways == Spec => []MisjudgedInHandover
<1>1. TypeOK /\ JobInv /\ WgInv => MisjudgedInHandover
  <2> DEFINE more == IF job.pc \in {"set", "rules"} THEN {job.cur} ELSE {}
  <2> SUFFICES ASSUME TypeOK, JobInv, WgInv, NEW k \in Keys, NEW a \in wg[k].ips,
                      NEW i \in In(rules), rules[i].ip = a, rules[i].key # k
               PROVE  \E c \in torn \cup more : a \in AddrsOf(c, k)
    BY DEF MisjudgedInHandover
  <2>1. a \notin AddrsOf(rules, k)
    BY ConfigFacts DEF TypeOK, AddrsOf
  <2>2. CASE a \in LeftTo(torn, k)
    BY <2>2 DEF LeftTo
  <2>3. CASE a \notin LeftTo(torn, k)
    <3>1. job.pc \in {"set", "rules"} /\ a \in AddrsOf(job.cur, k)
      BY <2>1, <2>3, WhoseAddrs
    <3> QED BY <3>1
  <2> QED BY <2>2, <2>3
<1> QED BY <1>1, Invariants, PTL

\* A line names no key that stays with its machine, and takes no address from it.
LEMMA LineSpares ==
  ASSUME NEW o \in Configs, NEW c \in Configs, NEW t, Fits(o, c, t),
         NEW b, NEW l, At(t, b, l), b <= Len(t), NEW w \in WgType,
         NEW T, T \subseteq {c}, Underway(w, o, c, T, t, b, l), NEW i \in In(o), o[i] = c[i],
         NEW v, v = Effect(w, t[b][l])
  PROVE  v[o[i].key] = w[o[i].key]
<1> DEFINE K == o[i].key
<1>0. b \in 1 .. Len(t) /\ l \in 1 .. Len(t[b])
  BY BlockLengths DEF At
<1>1. i \in In(c) /\ K \in Keys
  BY ConfigFacts DEF In, Entry
<1>a. Agree(o, c, K)
  BY <1>1, ConfigFacts DEF Agree
<1>2. K \notin Leaving(o, c)
  BY <1>a, StaysUnnamed
<1>3. \A j \in Changed(o, c) : c[j].key # K
  BY <1>a, StaysUnnamed
<1>4. ~ Awaits(t, b, K)
  BY <1>a, StaysUnnamed
<1>5. w[K].ips = {c[i].ip}
  <2>1. Settled(T, c, K)
    BY AgreeFacts DEF Settled
  <2>2. Final(w, c, K)
    BY <1>1, <1>4, <2>1 DEF Underway
  <2> QED BY <1>1, <2>2, AddrsFacts DEF Final
<1> HIDE DEF K
<1>6. ASSUME NEW k \in Leaving(o, c), t[b] = Removal(k) PROVE v[K] = w[K]
  <2>1. Len(t[b]) = 1
    BY <1>6, RemovalLines, Zenon
  <2>2. l = 1
    BY <1>0, <2>1
  <2>3. v = Effect(w, Line(k, "remove", None))
    BY <1>6, <2>2, RemovalLines
  <2>4. k \in Keys
    BY BlockFacts
  <2> QED BY <1>1, <1>2, <2>3, <2>4, EffectRemove
<1>7. ASSUME NEW j \in Changed(o, c), t[b] = Section(c[j]) PROVE v[K] = w[K]
  <2> DEFINE e == c[j]
  <2>1. e \in Entry /\ j \in In(c) /\ e.key # K
    BY <1>3, BlockFacts
  <2>2. Halfway(w, l, e)
    BY <1>0, <1>7 DEF Underway
  <2>3. l \in 1 .. Len(Section(e)) /\ v = Effect(w, Section(e)[l])
    BY <1>0, <1>7 DEF e
  <2>6. e.ip # c[i].ip
    BY <1>1, <1>3, <2>1, ConfigFacts DEF K
  <2> HIDE DEF e
  <2>4. /\ v \in WgType
        /\ Halfway(v, l + 1, e)
        /\ l # 2 => \A m \in Keys \ {e.key} : v[m] = w[m]
        /\ l = 2 => \A m \in Keys \ {e.key} : v[m] = [w[m] EXCEPT !.ips = w[m].ips \ {e.ip}]
        /\ v[e.key].ips \subseteq {e.ip}
        /\ v[e.key].ips # {} => l >= 2
    <3>1. e \in Entry /\ w \in WgType
      BY <2>1
    <3> QED BY <3>1, <2>2, <2>3, SectionEffect, Zenon
  <2>7. w[K].ips \ {e.ip} = w[K].ips
    BY <1>5, <2>6
  <2>8. [w[K] EXCEPT !.ips = w[K].ips] = w[K]
    BY <1>1 DEF WgType
  <2> QED BY <1>1, <2>1, <2>4, <2>7, <2>8
<1> QED BY <1>0, <1>6, <1>7, BlockKinds DEF K

(***************************************************************************)
(* A reload leaves the peers it does not change as they are, with the      *)
(* places wg has learned for them (uapi.go:87-89).                         *)
(***************************************************************************)
THEOREM UnchangedUntouchedAlways == Spec => UnchangedUntouched
<1>1. TypeOK /\ JobInv /\ WgInv /\ [Next]_vars =>
        (job.pc = "set" /\ job' # job /\ torn \subseteq {job.cur} =>
           \A i \in In(snap) : snap[i] = job.cur[i] => wg'[snap[i].key] = wg[snap[i].key])
  <2> SUFFICES ASSUME TypeOK, JobInv, WgInv, [Next]_vars,
                      job.pc = "set", job' # job, torn \subseteq {job.cur},
                      NEW i \in In(snap), snap[i] = job.cur[i]
               PROVE  wg'[snap[i].key] = wg[snap[i].key]
    OBVIOUS
  <2>1. CASE IpcLine
    <3>1. Was = snap /\ snap \in Configs /\ job.cur \in Configs /\ wg \in WgType
      BY DEF Was, TypeOK, WgType
    <3>2. Underway(wg, snap, job.cur, torn, job.text, job.block, job.line)
      BY <3>1 DEF WgInv, Writing
    <3> QED BY <2>1, <3>1, <3>2, LineFacts, LineSpares
  <2>2. CASE UNCHANGED wg
    BY <2>2
  <2>3. CASE \E k \in Keys, p \in Places : Roam(k, p)
    BY <2>3 DEF Roam
  <2> QED BY <2>1, <2>2, <2>3
      DEF Next, Reload, vars, IpcDone, IpcFails, StoreRules, StoreSnap, Begin
<1> QED BY <1>1, Invariants, PTL DEF Spec, UnchangedUntouched
============================================================================
