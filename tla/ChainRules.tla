----------------------------- MODULE ChainRules -----------------------------
(***************************************************************************)
(* What the rules of ChainConsistency ensure for a whole chain.  The       *)
(* validator (security.cpp, chain_consistent() and ChainValidator) only    *)
(* ever compares a certificate with the next one up; here a chain grows,   *)
(* issuer by issuer, as long as the comparison succeeds, and what its      *)
(* first certificate permits is compared with all the others.              *)
(*                                                                         *)
(* A chain is looked at for the permissions of its authorities or for its  *)
(* regions, under the strict policy.                                       *)
(***************************************************************************)
EXTENDS ChainConsistency

CONSTANTS
  Psids,
  Ssps,      \* service specific permissions
  Issues,    \* certIssuePermissions an authority may have: sets of groups
  Regions,
  Places,    \* <<country, region, subregion>>
  MaxChain   \* bound on the length of a chain

ASSUME SspAssumption == \A ssp \in Ssps : ssp.kind = "bitmap" => ssp.bits \in Seq(Octet)
ASSUME IssueAssumption ==
  \A i \in Issues : \A g \in i : \A k \in DOMAIN g.ranges :
    LET range == g.ranges[k].range IN
    range.kind = "bitmap" => range.value \in Seq(Octet) /\ range.mask \in Seq(Octet)

VARIABLES
  issues,    \* certIssuePermissions of the authorities, the lowest first
  regions    \* regions of the certificates, the end entity's first

chainVars == <<issues, regions>>

ChainInit ==
  \/ issues \in {<<i>> : i \in Issues} /\ regions = <<>>
  \/ issues = <<>> /\ regions \in {<<r>> : r \in Regions}

\* One more issuer passes chain_consistent().
ClimbIssues(i) ==
  /\ issues # <<>> /\ Len(issues) < MaxChain
  /\ nests(issues[Len(issues)], i)
  /\ issues' = Append(issues, i)
  /\ UNCHANGED regions

\* One more issuer passes region_within().
ClimbRegions(r) ==
  /\ regions # <<>> /\ Len(regions) < MaxChain
  /\ region_within(regions[Len(regions)], r, FALSE)
  /\ regions' = Append(regions, r)
  /\ UNCHANGED issues

ChainNext == (\E i \in Issues : ClimbIssues(i)) \/ (\E r \in Regions : ClimbRegions(r))

ChainSpec == ChainInit /\ [][ChainNext]_chainVars

-----------------------------------------------------------------------------
\* An authority may let certificates below it have a permission, as covers()
\* reads its groups, chain lengths aside.
Permits(groups, psid, ssp) ==
  \E g \in groups :
    \/ g.all /\ ~listed_explicitly(groups, psid)
    \/ \E r \in find_range(g, psid) : ssp_within(ssp, r.range)

\* What nests() leaves open: a bitmap longer than the issuer's permits longer
\* values, and the "all" of a subordinate is compared with the "all" of its
\* issuer only, not with what the issuer lists besides.
Comparable(sub, issuer) ==
  /\ \A g \in sub, c \in issuer : \A k \in DOMAIN g.ranges, l \in DOMAIN c.ranges :
       /\ g.ranges[k].psid = c.ranges[l].psid
       /\ g.ranges[k].range.kind = "bitmap" /\ c.ranges[l].range.kind = "bitmap"
       => Len(g.ranges[k].range.mask) <= Len(c.ranges[l].range.mask)
  /\ (\E g \in sub : g.all) =>
       \A psid \in Psids : listed_explicitly(issuer, psid) => listed_explicitly(sub, psid)

\* "every subordinate CA's ranges nest inside its issuer's" (security.hpp,
\* chain_permissions_consistent): along a chain of authorities, each compared
\* with the next only, the lowest permits nothing that one above it does not,
\* but for the two cases of Comparable.
PermissionsNest ==
  (\A k \in 1 .. Len(issues) - 1 : Comparable(issues[k], issues[k + 1])) =>
  \A psid \in Psids, ssp \in Ssps : \A k \in DOMAIN issues :
    Permits(issues[1], psid, ssp) => Permits(issues[k], psid, ssp)

\* The places of a region that is given.
EntryExtent(e) ==
  {p \in Places :
     /\ e.country = p[1]
     /\ \/ e.kind = "country"
        \/ e.kind = "regions" /\ p[2] \in e.regions
        \/ /\ e.kind = "subregions"
           /\ \E k \in DOMAIN e.parts :
                e.parts[k].region = p[2] /\ p[3] \in e.parts[k].subregions}
Extent(region) ==
  IF region.kind = "identified" THEN UNION {EntryExtent(e) : e \in region.entries}
  ELSE region.covers

\* "a certificate is not valid if any part of the region indicated in its scope
\* field lies outside the region indicated in the scope of its issuer"
\* (security.cpp, before region_within): along a chain no place is gained,
\* however the lists of countries, regions and subregions are split up.  A
\* certificate without a region stands for its issuer's, but the rule compares
\* its subject with nothing: the chain is cut there.
RegionsNest ==
  \A i, j \in DOMAIN regions :
    (i < j /\ \A k \in i .. j : regions[k].kind # "none")
      => Extent(regions[i]) \subseteq Extent(regions[j])
=============================================================================
