--------------------------- MODULE MCVerifyService ---------------------------
(* VerifyService on a small hierarchy: root r with authorities x and z, and y *)
(* below z; tickets of peers under x and y, and the station's own under x.    *)
(* Beside it, from initial states of their own, the chains of ChainRules over *)
(* small sets of permissions and regions.                                     *)
(*                                                                            *)
(* TLC computes a definition without parameters once, but the one a constant  *)
(* is replaced by at every use: a large value is defined first and then named.*)
EXTENDS VerifyService, ChainRules

MCAuthorities == {"r", "x", "z", "y"}
MCIssuer ==
  [r |-> "r", x |-> "r", z |-> "r", y |-> "z",
   circled |-> "x", plain |-> "y", wide |-> "x", late |-> "x", void |-> "x", own |-> "x"]

MCHere == <<"D", 1, 1>>
MCPlaces == {"D", "F"} \X {1, 2} \X {1, 2}
NoRegion == [kind |-> "none"]
Country(c) == [kind |-> "country", country |-> c]
SomeRegions(c, rs) == [kind |-> "regions", country |-> c, regions |-> rs]
Part(n, subs) == [region |-> n, subregions |-> subs]
Subregions(c, parts) == [kind |-> "subregions", country |-> c, parts |-> parts]
Identified(es) == [kind |-> "identified", entries |-> es]
Figure(kind, ps) == [kind |-> kind, covers |-> ps]

Bitmap(value, mask) == [kind |-> "bitmap", value |-> value, mask |-> mask]
AllSsps == [kind |-> "all"]
For(psid, range) == [psid |-> psid, range |-> range]
Group(all, ranges, min, range) ==
  [app |-> TRUE, all |-> all, ranges |-> ranges, minChainLength |-> min, chainLengthRange |-> range]

-----------------------------------------------------------------------------
(* Certificates.  A second has two ticks, a year two seconds to                *)
(* valid_at_timepoint() and one to get_start_and_end_validity(), and Time32    *)
(* eight values.  x and y expire after two ticks.  circled (whose end is        *)
(* beyond Time32) and plain (a year) pass for as short-lived as they are, late *)
(* visibly ends after its issuer, and void is never valid.                     *)

Lasting(unit, count) == [unit |-> unit, count |-> count]
App(aid, bits) == [psid |-> aid, ssp |-> [kind |-> "bitmap", bits |-> bits]]
\* The first bit of a CAM's permissions is fixed by the authorities.
Listed(min) ==
  {Group(FALSE, <<For("CAM", Bitmap(<<{}>>, <<{0}>>)), For("DENM", AllSsps)>>, min, -1)}

Cert(duration, app, issue, region) ==
  [start |-> 0, duration |-> duration, app |-> app, issue |-> issue, region |-> region,
   assurance |-> 0]
Seconds(n) == Lasting("seconds", n)
Certs ==
  [r |-> Cert(Seconds(7), {}, {Group(TRUE, <<>>, 1, 2)}, Identified({Country("D")})),
   x |-> Cert(Seconds(1), {}, Listed(1), Identified({SomeRegions("D", {1})})),
   z |-> Cert(Lasting("ticks", 3), {}, Listed(2), NoRegion),
   y |-> Cert(Seconds(1), {}, Listed(1), NoRegion),
   circled |-> Cert(Seconds(9), {App("CAM", <<{1}>>)}, {}, Figure("circle", {MCHere})),
   plain |-> Cert(Lasting("years", 1), {App("CAM", <<{}>>), App("DENM", <<{0}>>)}, {}, NoRegion),
   wide |-> Cert(Seconds(1), {App("CAM", <<{0}>>)}, {}, NoRegion),
   late |-> Cert(Seconds(2), {App("CAM", <<{}>>)}, {}, NoRegion),
   void |-> Cert(Lasting("nothing", 0), {App("CAM", <<{}>>)}, {}, NoRegion),
   own |-> Cert(Seconds(1), {App("CAM", <<{}>>)}, {}, NoRegion)]

Msg(at, full, aid, time, requested, intact) ==
  [at |-> at, full |-> full, aid |-> aid, time |-> time, requested |-> requested, intact |-> intact]
Received ==
  {Msg(at, full, "CAM", 0, None, TRUE) : at \in {"circled", "plain"}, full \in BOOLEAN}
  \cup {Msg(at, TRUE, "CAM", 2, None, TRUE) : at \in {"circled", "plain", "late"}}
  \cup {Msg("plain", TRUE, "CAM", 0, a, TRUE) : a \in {"y", "z"}}
  \cup {Msg("plain", full, "DENM", 0, None, TRUE) : full \in BOOLEAN}
  \cup {Msg("circled", TRUE, "CAM", 0, None, FALSE), Msg("circled", FALSE, "CAM", 1, None, TRUE)}
  \cup {Msg(at, TRUE, "CAM", 0, None, TRUE) : at \in {"wide", "void"}}

MCContent == Certs
MCMessages == Received
MCBundles ==
  {[roots |-> <<"r">>, authorities |-> as, tickets |-> <<"own">>] : as \in {<<"x">>, <<"x", "z">>}}
MCRevocationLists == {{}, {"x"}, {"z"}}

-----------------------------------------------------------------------------
(* Chains *)

Entries ==
  {Country(c) : c \in {"D", "F"}} \cup {SomeRegions("D", rs) : rs \in SUBSET {1, 2}}
  \cup {Subregions("D", <<Part(1, s)>>) : s \in SUBSET {1, 2}}
  \cup {Subregions("D", <<Part(1, {1}), Part(n, {1, 2})>>) : n \in {1, 2}}
AllRegions ==
  {NoRegion} \cup {Identified({e}) : e \in Entries}
  \cup {Identified({SomeRegions("D", {1}), e}) : e \in Entries}
  \cup {Figure(k, {p \in MCPlaces : p[1] = "D" /\ p[2] \in rs}) :
          k \in {"circle", "rectangle", "polygon"}, rs \in SUBSET {1, 2}}

Strings == {<<>>, <<{}>>, <<{0}>>, <<{1}>>, <<{}, {0}>>, <<{0}, {}>>, <<{0}, {0}>>}
Masks == {m \in Strings : Len(m) = 2} \cup {<<{0}>>, <<{0, 1}>>}
SspRanges ==
  {AllSsps} \cup {Bitmap(v, m) : v \in Strings, m \in Masks}
  \cup {[kind |-> "opaque", entries |-> es] : es \in SUBSET {"", "a"}}
AllPermissions ==
  {[kind |-> "omitted"]} \cup {[kind |-> "opaque", octets |-> o] : o \in {"", "a"}}
  \cup {[kind |-> "bitmap", bits |-> b] : b \in Strings}

Everything == Group(TRUE, <<>>, 1, 0)
Some(ranges) == Group(FALSE, ranges, 1, 0)
AllIssues ==
  {{Everything}}
  \cup {{Some(<<For("CAM", range)>>)} : range \in SspRanges}
  \cup {{Everything, Some(<<For("CAM", range)>>)} :
          range \in {Bitmap(<<{0}>>, <<{0}>>), [kind |-> "opaque", entries |-> {"a"}]}}
  \cup {{Some(<<For("CAM", Bitmap(<<b>>, <<{0}>>)), For("CAM", AllSsps), For("DENM", AllSsps)>>)} :
          b \in {{}, {0}}}

MCRegions == AllRegions
MCSsps == AllPermissions
MCIssues == AllIssues

-----------------------------------------------------------------------------
NoChain == issues = <<>> /\ regions = <<>>

MCInit == Init /\ (NoChain \/ (ChainInit /\ saved = CHOOSE cr \in Bundles : TRUE))
MCNext ==
  \/ NoChain /\ Next /\ UNCHANGED chainVars
  \/ ~NoChain /\ ChainNext /\ UNCHANGED vars
MCSpec == MCInit /\ [][MCNext]_<<vars, chainVars>>
=============================================================================
