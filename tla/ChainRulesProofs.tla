-------------------------- MODULE ChainRulesProofs --------------------------
(***************************************************************************)
(* Proofs of PermissionsNest and RegionsNest, for chains of any length and *)
(* any permissions and regions.  Each rests on a lemma about one           *)
(* comparison (nests, region_within) and an induction along the chain: the *)
(* certificate just added contains the one below it, which contains all    *)
(* below that.                                                             *)
(***************************************************************************)
EXTENDS ChainRules, TLAPS

Typed == issues \in Seq(Issues) /\ regions \in Seq(Regions)

\* Chains consist of the permissions and regions they are built from.
LEMMA TypedInv == ChainSpec => []Typed
<1>1. ChainInit => Typed
  <2> SUFFICES ASSUME ChainInit PROVE Typed
    OBVIOUS
  <2>1. CASE \E i \in Issues : issues = <<i>> /\ regions = <<>>
    BY <2>1 DEF Typed
  <2>2. CASE \E r \in Regions : issues = <<>> /\ regions = <<r>>
    BY <2>2 DEF Typed
  <2> QED BY <2>1, <2>2 DEF ChainInit
<1>2. Typed /\ [ChainNext]_chainVars => Typed'
  <2> SUFFICES ASSUME Typed, [ChainNext]_chainVars PROVE Typed'
    OBVIOUS
  <2>1. ASSUME NEW i \in Issues, ClimbIssues(i) PROVE Typed'
    BY <2>1 DEF Typed, ClimbIssues
  <2>2. ASSUME NEW r \in Regions, ClimbRegions(r) PROVE Typed'
    BY <2>2 DEF Typed, ClimbRegions
  <2>3. CASE UNCHANGED chainVars
    BY <2>3 DEF Typed, chainVars
  <2> QED BY <2>1, <2>2, <2>3 DEF ChainNext
<1> QED BY <1>1, <1>2, PTL DEF ChainSpec

-----------------------------------------------------------------------------
(* Permissions *)

\* bitmap_within is monotone: bits that agree with a narrower mask and value
\* agree with the wider ones it nests in.
LEMMA BitmapsNest ==
  ASSUME NEW bits \in Seq(Octet),
         NEW v \in Seq(Octet), NEW m \in Seq(Octet),
         NEW w \in Seq(Octet), NEW n \in Seq(Octet),
         bitmap_within(bits, v, m),
         Len(w) = Len(n), Len(m) <= Len(n),
         \A i \in DOMAIN n :
           \/ n[i] = {}
           \/ i <= Len(m) /\ n[i] \subseteq m[i] /\ v[i] \cap n[i] = w[i] \cap n[i]
  PROVE  bitmap_within(bits, w, n)
<1>1. Len(v) = Len(m) /\ Len(bits) <= Len(m) /\ Len(bits) <= Len(n)
  BY DEF bitmap_within
<1>2. ASSUME NEW i \in DOMAIN n
      PROVE IF i > Len(bits) THEN n[i] = {} ELSE bits[i] \cap n[i] = w[i] \cap n[i]
  <2>1. CASE n[i] = {}
    BY <2>1
  <2>2. CASE n[i] # {}
    <3>1. i <= Len(m) /\ n[i] \subseteq m[i] /\ v[i] \cap n[i] = w[i] \cap n[i]
      BY <2>2
    <3>2. i \in DOMAIN m
      BY <3>1
    <3>3. IF i > Len(bits) THEN m[i] = {} ELSE bits[i] \cap m[i] = v[i] \cap m[i]
      BY <3>2 DEF bitmap_within
    <3>4. CASE i > Len(bits)
      BY <3>1, <3>3, <3>4
    <3>5. CASE ~(i > Len(bits))
      <4>1. bits[i] \cap m[i] = v[i] \cap m[i]
        BY <3>3, <3>5
      <4>2. bits[i] \cap n[i] = v[i] \cap n[i]
        BY <3>1, <4>1
      <4> QED BY <3>1, <3>5, <4>2
    <3> QED BY <3>4, <3>5
  <2> QED BY <2>1, <2>2
<1> QED BY <1>1, <1>2 DEF bitmap_within

Octets(range) == range.kind = "bitmap" => range.value \in Seq(Octet) /\ range.mask \in Seq(Octet)

\* What a subordinate's range permits its issuer's range permits, if its
\* bitmap is not longer (range_within, ssp_within).
LEMMA RangesNest ==
  ASSUME NEW sub, NEW issuer, Octets(sub), Octets(issuer),
         range_within(sub, issuer),
         (sub.kind = "bitmap" /\ issuer.kind = "bitmap") => Len(sub.mask) <= Len(issuer.mask),
         NEW ssp \in Ssps, ssp_within(ssp, sub)
  PROVE  ssp_within(ssp, issuer)
<1>1. CASE issuer.kind = "all"
  BY <1>1 DEF ssp_within
<1>2. CASE issuer.kind = "opaque"
  <2>1. sub.kind = "opaque" /\ sub.entries \subseteq issuer.entries
    BY <1>2 DEF range_within
  <2> QED BY <1>2, <2>1 DEF ssp_within
<1>3. CASE issuer.kind = "bitmap"
  <2>1. /\ sub.kind = "bitmap"
        /\ Len(issuer.value) = Len(issuer.mask)
        /\ \A i \in DOMAIN issuer.mask :
             \/ issuer.mask[i] = {}
             \/ /\ i <= Len(sub.mask) /\ issuer.mask[i] \subseteq sub.mask[i]
                /\ sub.value[i] \cap issuer.mask[i] = issuer.value[i] \cap issuer.mask[i]
    BY <1>3 DEF range_within
  <2>2. ssp.kind = "bitmap" /\ bitmap_within(ssp.bits, sub.value, sub.mask)
    BY <2>1 DEF ssp_within
  <2>3. /\ ssp.bits \in Seq(Octet)
        /\ sub.value \in Seq(Octet) /\ sub.mask \in Seq(Octet)
        /\ issuer.value \in Seq(Octet) /\ issuer.mask \in Seq(Octet)
    BY <1>3, <2>1, <2>2, SspAssumption DEF Octets
  <2>4. bitmap_within(ssp.bits, issuer.value, issuer.mask)
    BY <1>3, <2>1, <2>2, <2>3, BitmapsNest
  <2> QED BY <1>3, <2>2, <2>4 DEF ssp_within
<1> QED BY <1>1, <1>2, <1>3 DEF range_within

\* A range that find_range() returns is one of the group's, for that psid.
LEMMA FoundRange ==
  ASSUME NEW g, NEW psid, NEW r \in find_range(g, psid)
  PROVE  ~g.all /\ \E k \in DOMAIN g.ranges : r = g.ranges[k] /\ g.ranges[k].psid = psid
BY DEF find_range

\* What a subordinate permits its issuer permits (nests).
LEMMA IssuesNest ==
  ASSUME NEW sub \in Issues, NEW issuer \in Issues,
         nests(sub, issuer), Comparable(sub, issuer),
         NEW psid \in Psids, NEW ssp \in Ssps, Permits(sub, psid, ssp)
  PROVE  Permits(issuer, psid, ssp)
<1>1. PICK g \in sub : \/ g.all /\ ~listed_explicitly(sub, psid)
                       \/ \E r \in find_range(g, psid) : ssp_within(ssp, r.range)
  BY DEF Permits
<1>2. CASE g.all /\ ~listed_explicitly(sub, psid)
  <2>1. PICK c \in issuer : c.all
    BY <1>2 DEF nests
  <2>2. ~listed_explicitly(issuer, psid)
    BY <1>2 DEF Comparable
  <2> QED BY <2>1, <2>2 DEF Permits
<1>3. CASE \E r \in find_range(g, psid) : ssp_within(ssp, r.range)
  <2>1. PICK r \in find_range(g, psid) : ssp_within(ssp, r.range)
    BY <1>3
  <2>2. ~g.all
    BY <2>1, FoundRange
  <2>3. PICK k \in DOMAIN g.ranges : r = g.ranges[k] /\ g.ranges[k].psid = psid
    BY <2>1, FoundRange
  <2>4. PICK c \in issuer :
          \/ c.all /\ ~listed_explicitly(issuer, psid)
          \/ \E q \in find_range(c, psid) : range_within(r.range, q.range)
    BY <2>2, <2>3 DEF nests
  <2>5. CASE c.all /\ ~listed_explicitly(issuer, psid)
    BY <2>5 DEF Permits
  <2>6. CASE \E q \in find_range(c, psid) : range_within(r.range, q.range)
    <3>1. PICK q \in find_range(c, psid) : range_within(r.range, q.range)
      BY <2>6
    <3>2. PICK l \in DOMAIN c.ranges : q = c.ranges[l] /\ c.ranges[l].psid = psid
      BY <3>1, FoundRange
    <3>3. Octets(r.range) /\ Octets(q.range)
      BY <2>3, <3>2, IssueAssumption DEF Octets
    <3>4. (r.range.kind = "bitmap" /\ q.range.kind = "bitmap")
             => Len(r.range.mask) <= Len(q.range.mask)
      BY <2>3, <3>2 DEF Comparable
    <3>5. ssp_within(ssp, q.range)
      BY <2>1, <3>1, <3>3, <3>4, RangesNest
    <3> QED BY <3>1, <3>5 DEF Permits
  <2> QED BY <2>4, <2>5, <2>6
<1> QED BY <1>1, <1>2, <1>3

\* For authorities with any permissions, in chains of any length: what the
\* lowest permits all those above it permit (chain_consistent, nests).
THEOREM PermissionsAlwaysNest == ChainSpec => []PermissionsNest
<1>1. ChainInit => PermissionsNest
  BY DEF ChainInit, PermissionsNest
<1>2. Typed /\ PermissionsNest /\ [ChainNext]_chainVars => PermissionsNest'
  <2> SUFFICES ASSUME Typed, PermissionsNest, [ChainNext]_chainVars
               PROVE  PermissionsNest'
    OBVIOUS
  <2>1. CASE UNCHANGED issues
    BY <2>1 DEF PermissionsNest
  <2>2. ASSUME NEW i \in Issues, ClimbIssues(i)
        PROVE  PermissionsNest'
    <3> DEFINE n == Len(issues)
    <3>1. /\ n \in Nat \ {0} /\ Len(issues') = n + 1 /\ issues'[n + 1] = i
          /\ \A k \in 1 .. n : issues'[k] = issues[k] /\ issues[k] \in Issues
          /\ DOMAIN issues' = 1 .. n + 1 /\ DOMAIN issues = 1 .. n
          /\ nests(issues[n], i)
      BY <2>2 DEF ClimbIssues, Typed
    <3> HIDE DEF n
    <3> SUFFICES ASSUME \A k \in 1 .. n : Comparable(issues'[k], issues'[k + 1]),
                        NEW psid \in Psids, NEW ssp \in Ssps, NEW k \in 1 .. n + 1,
                        Permits(issues'[1], psid, ssp)
                 PROVE  Permits(issues'[k], psid, ssp)
      BY <3>1 DEF PermissionsNest
    <3>2. \A j \in 1 .. n - 1 : Comparable(issues[j], issues[j + 1])
      BY <3>1
    <3>3. Permits(issues[1], psid, ssp)
      BY <3>1
    <3>4. \A j \in 1 .. n : Permits(issues[j], psid, ssp)
      BY <3>1, <3>2, <3>3 DEF PermissionsNest, n
    <3>5. Comparable(issues[n], i)
      BY <3>1
    <3>6. Permits(i, psid, ssp)
      BY <3>1, <3>4, <3>5, IssuesNest
    <3> QED BY <3>1, <3>4, <3>6
  <2> QED BY <2>1, <2>2 DEF ChainNext, chainVars, ClimbRegions
<1> QED BY <1>1, <1>2, TypedInv, PTL DEF ChainSpec

-----------------------------------------------------------------------------
(* Regions *)

\* A region, whole or in part, that lies in an entry covers no other places.
LEMMA RegionInEntry ==
  ASSUME NEW country, NEW region, NEW whole \in BOOLEAN, NEW subregions, NEW entry,
         region_in_entry(country, region, whole, subregions, entry),
         NEW p \in Places, p[1] = country, p[2] = region, whole \/ p[3] \in subregions
  PROVE  p \in EntryExtent(entry)
BY DEF region_in_entry, EntryExtent

\* An entry that lies in another covers no other places.
LEMMA EntriesNest ==
  ASSUME NEW entry, NEW candidate, entry_within(entry, candidate),
         NEW p \in EntryExtent(entry)
  PROVE  p \in EntryExtent(candidate)
<1>1. p \in Places /\ p[1] = entry.country
  BY DEF EntryExtent
<1>2. CASE entry.kind = "country"
  BY <1>1, <1>2 DEF entry_within, EntryExtent
<1>3. CASE entry.kind = "regions"
  <2>1. p[2] \in entry.regions
    BY <1>3 DEF EntryExtent
  <2>2. region_in_entry(entry.country, p[2], TRUE, {}, candidate)
    BY <1>3, <2>1 DEF entry_within
  <2> QED BY <1>1, <2>2, RegionInEntry
<1>4. CASE entry.kind = "subregions"
  <2>1. PICK k \in DOMAIN entry.parts :
          entry.parts[k].region = p[2] /\ p[3] \in entry.parts[k].subregions
    BY <1>4 DEF EntryExtent
  <2>2. region_in_entry(entry.country, p[2], FALSE, entry.parts[k].subregions, candidate)
    BY <1>4, <2>1 DEF entry_within
  <2> QED BY <1>1, <2>1, <2>2, RegionInEntry
<1> QED BY <1>2, <1>3, <1>4 DEF EntryExtent

\* A region within its issuer's covers no other places (region_within).
LEMMA RegionWithin ==
  ASSUME NEW subject, NEW issuer, subject.kind # "none", issuer.kind # "none",
         region_within(subject, issuer, FALSE)
  PROVE  Extent(subject) \subseteq Extent(issuer)
<1>1. CASE issuer.kind # "identified"
  BY <1>1 DEF region_within, geometry_within, Extent
<1>2. CASE issuer.kind = "identified"
  <2>1. subject.kind = "identified" /\ identified_within(subject.entries, issuer.entries)
    BY <1>2 DEF region_within
  <2>2. ASSUME NEW p \in Extent(subject) PROVE p \in Extent(issuer)
    <3>1. PICK e \in subject.entries : p \in EntryExtent(e)
      BY <2>1 DEF Extent
    <3>2. PICK c \in issuer.entries : entry_within(e, c)
      BY <2>1 DEF identified_within
    <3>3. p \in EntryExtent(c)
      BY <3>1, <3>2, EntriesNest
    <3> QED BY <1>2, <3>3 DEF Extent
  <2> QED BY <2>2
<1> QED BY <1>1, <1>2

\* For any regions, in chains of any length whose certificates all name one:
\* no certificate covers a place that one above it does not (region_within).
THEOREM RegionsAlwaysNest == ChainSpec => []RegionsNest
<1>1. ChainInit => RegionsNest
  BY DEF ChainInit, RegionsNest
<1>2. Typed /\ RegionsNest /\ [ChainNext]_chainVars => RegionsNest'
  <2> SUFFICES ASSUME Typed, RegionsNest, [ChainNext]_chainVars
               PROVE  RegionsNest'
    OBVIOUS
  <2>1. CASE UNCHANGED regions
    BY <2>1 DEF RegionsNest
  <2>2. ASSUME NEW r \in Regions, ClimbRegions(r)
        PROVE  RegionsNest'
    <3> DEFINE n == Len(regions)
    <3>1. regions # <<>> /\ regions \in Seq(Regions) /\ regions' = Append(regions, r)
      BY <2>2 DEF ClimbRegions, Typed
    <3>2. /\ n \in Nat \ {0} /\ regions'[n + 1] = r
          /\ \A k \in 1 .. n : regions'[k] = regions[k]
          /\ DOMAIN regions' = 1 .. n + 1 /\ DOMAIN regions = 1 .. n
          /\ region_within(regions[n], r, FALSE)
      <4>1. region_within(regions[n], r, FALSE)
        BY <2>2 DEF ClimbRegions
      <4>2. n \in Nat \ {0} /\ DOMAIN regions = 1 .. n
        BY <3>1
      <4>3. DOMAIN regions' = 1 .. n + 1 /\ regions'[n + 1] = r
        BY <3>1, <4>2
      <4>4. \A k \in 1 .. n : regions'[k] = regions[k]
        BY <3>1, <4>2
      <4> QED BY <4>1, <4>2, <4>3, <4>4
    <3> HIDE DEF n
    <3> SUFFICES ASSUME NEW i \in 1 .. n + 1, NEW j \in 1 .. n + 1, i < j,
                        \A k \in i .. j : regions'[k].kind # "none"
                 PROVE  Extent(regions'[i]) \subseteq Extent(regions'[j])
      BY <3>2 DEF RegionsNest
    <3>3. CASE j <= n
      <4>1. \A k \in i .. j : regions[k].kind # "none"
        BY <3>2, <3>3
      <4>2. Extent(regions[i]) \subseteq Extent(regions[j])
        BY <3>2, <3>3, <4>1 DEF RegionsNest
      <4> QED BY <3>2, <3>3, <4>2
    <3>4. CASE j = n + 1
      <4>1. i \in 1 .. n /\ regions[n].kind # "none" /\ r.kind # "none"
        BY <3>2, <3>4
      <4>2. Extent(regions[n]) \subseteq Extent(r)
        BY <3>2, <4>1, RegionWithin
      <4>3. Extent(regions[i]) \subseteq Extent(regions[n])
        <5>1. CASE i = n
          BY <5>1
        <5>2. CASE i < n
          <6>1. \A k \in i .. n : regions[k].kind # "none"
            BY <3>2, <3>4, <4>1
          <6> QED BY <3>2, <4>1, <5>2, <6>1 DEF RegionsNest
        <5> QED BY <3>2, <4>1, <5>1, <5>2
      <4> QED BY <3>2, <3>4, <4>1, <4>2, <4>3
    <3> QED BY <3>2, <3>3, <3>4
  <2> QED BY <2>1, <2>2 DEF ChainNext, chainVars, ClimbIssues
<1> QED BY <1>1, <1>2, TypedInv, PTL DEF ChainSpec
=============================================================================
