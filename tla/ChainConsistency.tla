-------------------------- MODULE ChainConsistency --------------------------
(***************************************************************************)
(* Consistency of a certificate chain: the permissions and regions of each *)
(* certificate against its issuer's (namespace consistency in              *)
(* ports/esp_idf/src/security.cpp).                                        *)
(*                                                                         *)
(* An octet is the set of its bits that are 1, so that & is intersection,  *)
(* and an octet string a sequence of octets.  Opaque permissions are       *)
(* strings.  A range or a region that is absent has kind "all" or "none";  *)
(* lists the code searches for the first match are sequences, others sets. *)
(***************************************************************************)
EXTENDS Integers, Sequences

Octet == SUBSET (0 .. 7)

-----------------------------------------------------------------------------
(* Permissions *)

chain_length_permits(group, depth) ==
  /\ group.minChainLength >= 1
  /\ depth >= group.minChainLength
  /\ group.chainLengthRange < 0 \/ depth <= group.minChainLength + group.chainLengthRange

\* The first range of the group for the psid, or nothing.
find_range(group, psid) ==
  IF group.all THEN {} ELSE
  {group.ranges[k] : k \in {n \in DOMAIN group.ranges :
     group.ranges[n].psid = psid /\ \A j \in 1 .. n - 1 : group.ranges[j].psid # psid}}

listed_explicitly(groups, psid) == \E g \in groups : find_range(g, psid) # {}

\* A bitmap agrees with value where mask has a 1, and is not longer than mask.
bitmap_within(bits, value, mask) ==
  /\ Len(value) = Len(mask) /\ Len(bits) <= Len(mask)
  /\ \A i \in DOMAIN mask :
       IF i > Len(bits) THEN mask[i] = {} ELSE bits[i] \cap mask[i] = value[i] \cap mask[i]

ssp_within(ssp, range) ==
  \/ range.kind = "all"
  \/ range.kind = "opaque" /\ ssp.kind = "omitted" /\ "" \in range.entries
  \/ range.kind = "opaque" /\ ssp.kind = "opaque" /\ ssp.octets \in range.entries
  \/ range.kind = "bitmap" /\ ssp.kind = "bitmap"
       /\ bitmap_within(ssp.bits, range.value, range.mask)

\* An ancestor, depth certificates above the end entity, covers an entry of
\* the end entity's appPermissions.
covers(groups, entry, depth) ==
  \E g \in groups :
    /\ g.app /\ chain_length_permits(g, depth)
    /\ \/ g.all /\ ~listed_explicitly(groups, entry.psid)
       \/ \E r \in find_range(g, entry.psid) : ssp_within(entry.ssp, r.range)

\* Deviation: the value of a fixed bit is not compared.
range_within_Mask(sub, issuer) ==
  \/ issuer.kind = "all"
  \/ issuer.kind = "opaque" /\ sub.kind = "opaque" /\ sub.entries \subseteq issuer.entries
  \/ /\ issuer.kind = "bitmap" /\ sub.kind = "bitmap"
     /\ Len(issuer.value) = Len(issuer.mask) /\ Len(sub.value) = Len(sub.mask)
     /\ \A i \in DOMAIN issuer.mask :
          issuer.mask[i] = {} \/ (i <= Len(sub.mask) /\ issuer.mask[i] \subseteq sub.mask[i])
\* A subordinate's range nests inside its issuer's.
range_within(sub, issuer) ==
  \/ issuer.kind = "all"
  \/ issuer.kind = "opaque" /\ sub.kind = "opaque" /\ sub.entries \subseteq issuer.entries
  \/ /\ issuer.kind = "bitmap" /\ sub.kind = "bitmap"
     /\ Len(issuer.value) = Len(issuer.mask) /\ Len(sub.value) = Len(sub.mask)
     /\ \A i \in DOMAIN issuer.mask :
          \/ issuer.mask[i] = {}
          \/ /\ i <= Len(sub.mask) /\ issuer.mask[i] \subseteq sub.mask[i]
             /\ sub.value[i] \cap issuer.mask[i] = issuer.value[i] \cap issuer.mask[i]

nests(sub, issuer) ==
  \A g \in sub :
    IF g.all THEN \E c \in issuer : c.all
    ELSE \A k \in DOMAIN g.ranges :
           LET mine == g.ranges[k] IN
           \E c \in issuer :
             \/ c.all /\ ~listed_explicitly(issuer, mine.psid)
             \/ \E r \in find_range(c, mine.psid) : range_within(mine.range, r.range)

\* chain[1] is the end entity, the last certificate the anchor.
chain_consistent(chain) ==
  /\ \A k \in 2 .. Len(chain) : \A entry \in chain[1].app : covers(chain[k].issue, entry, k - 1)
  /\ \A k \in 2 .. Len(chain) - 1 : nests(chain[k].issue, chain[k + 1].issue)

-----------------------------------------------------------------------------
(* Regions *)

\* A region of a country, in part or ("whole") entirely, inside an entry.
region_in_entry(country, region, whole, subregions, entry) ==
  /\ entry.country = country
  /\ \/ entry.kind = "country"
     \/ entry.kind = "regions" /\ region \in entry.regions
     \/ /\ entry.kind = "subregions" /\ ~whole
        /\ \E k \in DOMAIN entry.parts :
             /\ entry.parts[k].region = region
             /\ \A j \in 1 .. k - 1 : entry.parts[j].region # region
             /\ subregions \subseteq entry.parts[k].subregions

\* Deviation: a whole country is covered by some of its regions.
entry_within_Country(entry, candidate) ==
  CASE entry.kind = "country" -> candidate.country = entry.country
    [] entry.kind = "regions" ->
         /\ entry.regions # {}
         /\ \A r \in entry.regions : region_in_entry(entry.country, r, TRUE, {}, candidate)
    [] entry.kind = "subregions" ->
         /\ entry.parts # <<>>
         /\ \A k \in DOMAIN entry.parts :
              region_in_entry(entry.country, entry.parts[k].region, FALSE,
                              entry.parts[k].subregions, candidate)
entry_within(entry, candidate) ==
  CASE entry.kind = "country" -> candidate.kind = "country" /\ candidate.country = entry.country
    [] entry.kind = "regions" ->
         /\ entry.regions # {}
         /\ \A r \in entry.regions : region_in_entry(entry.country, r, TRUE, {}, candidate)
    [] entry.kind = "subregions" ->
         /\ entry.parts # <<>>
         /\ \A k \in DOMAIN entry.parts :
              region_in_entry(entry.country, entry.parts[k].region, FALSE,
                              entry.parts[k].subregions, candidate)

identified_within(inner, outer) == \A e \in inner : \E c \in outer : entry_within(e, c)

\* Geometry as the code decides it: circles by distance and radii, rectangles
\* when equal, polygons never.
geometry_within(inner, outer) ==
  /\ inner.kind = outer.kind
  /\ \/ outer.kind = "circle" /\ inner.covers \subseteq outer.covers
     \/ outer.kind = "rectangle" /\ inner = outer

\* No country borders are known: a figure in a country is decided by policy.
region_within(subject, issuer, permissive_identified_region) ==
  \/ issuer.kind = "none" \/ subject.kind = "none"
  \/ issuer.kind # "identified" /\ geometry_within(subject, issuer)
  \/ issuer.kind = "identified" /\ subject.kind = "identified"
       /\ identified_within(subject.entries, issuer.entries)
  \/ issuer.kind = "identified" /\ subject.kind \in {"circle", "rectangle", "polygon"}
       /\ permissive_identified_region
=============================================================================
