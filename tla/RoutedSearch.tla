---------------------------- MODULE RoutedSearch ----------------------------
(***************************************************************************)
(* A routed grep and the profile.md of the mount, over changing mappings.  *)
(*                                                                         *)
(* Cmdshim RunGrep resolves its operands to indices, ESClient.Search plans *)
(* a query for each of them from the configuration and the index's field   *)
(* capabilities (internal/escore/query.go, config.go), and only then       *)
(* streams hits.  How a stream reaches its consumer is modelled by         *)
(* HitStream.  Generator.IndexProfile (internal/profile) tells users how   *)
(* grep will search an index; it works from the caches of the mount.       *)
(*                                                                         *)
(* The field capabilities of an index give each mapped field a type.  An   *)
(* alias over indices that disagree has a choice: FieldCaps takes the      *)
(* first type of a Go map, whose order is random.                          *)
(***************************************************************************)
EXTENDS Naturals, Sequences, FiniteSets, SequencesExt

CONSTANTS
    Index,      \* names of indices and aliases, none with a leading dot
    Rank,       \* the place of each in alphabetical order
    Field,
    Inferable,  \* inferableTimeFields
    Configs,    \* configurations
    Mappings,   \* what indices may be: sets of field capabilities
    Requests,   \* grep commands
    Reader,     \* goroutines of the mount that serve reads of profile.md
    MaxChanges, \* bound on the changes of mappings
    Root,       \* an operand that is the root of the mount
    Unset,      \* the empty string
    Nil         \* a nil pointer, and the absence of an entry in a cache

Modes == {"auto", "semantic", "lexical"}
Types == {"text", "semantic_text", "dense_vector", "date", "keyword"}

Caps == [Field -> Types \cup {Unset}]

(* Configured modes are those that docs/CONFIGURATION.md allows; loading a *)
(* configuration does not check that.                                      *)
IndexSettings == [mode : Modes \cup {Nil}, timeField : Field \cup {Unset, Nil},
                  searchFields : SUBSET Field, semanticFields : SUBSET Field,
                  profile : BOOLEAN \cup {Nil}]
Config == [allow : SUBSET Index, mode : Modes \cup {Unset}, timeField : Field \cup {Unset},
           optOut : SUBSET Index, index : [Index -> IndexSettings]]

(* The mode given as a flag or in the environment may be anything.  What   *)
(* follows --since may be no duration.  unsupported stands for --exact,    *)
(* ESFS_STRICT_GREP and flags that Elasticsearch cannot serve.             *)
GrepOpts == [scopes : SUBSET (Index \cup {Root}) \ {{}},
             flag : Modes \cup {Unset, "exact", "other"},
             env : Modes \cup {Unset, "exact", "other"},
             since : {"none", "duration", "garbled"}, unsupported : BOOLEAN]

ASSUME ConstantsAssumption ==
    /\ Unset \notin Field /\ Unset \notin Modes \cup Types \cup {"exact", "other"} /\ Unset # Nil
    /\ Nil \notin Field /\ Nil \notin Modes \cup {"exact", "other"} /\ Nil \notin BOOLEAN
    /\ Nil \notin Types /\ (\A S \in SUBSET Index : S # Nil) /\ \A c \in Caps : c # Nil
    /\ Root \notin Index /\ Inferable \subseteq Field /\ IsFiniteSet(Inferable)
    /\ Rank \in [Index -> Nat] /\ \A i, j \in Index : Rank[i] = Rank[j] => i = j
    /\ Configs \subseteq Config /\ Requests \subseteq GrepOpts
    /\ Mappings \subseteq SUBSET Caps /\ MaxChanges \in Nat

VARIABLES
    cfg,        \* the configuration, which both processes load
    es,         \* what field_caps may answer, per index; {} if it is not open
    changes,    \* how often es changed
    grep,       \* the routed grep
    catalog,    \* ESClient.idxCache of the mount
    caps,       \* ESClient.capsCache of the mount
    profile,    \* Generator.idxCache
    reader      \* what each goroutine reading a profile.md is doing

esVars == <<es, changes>>
mountVars == <<catalog, caps, profile, reader>>
vars == <<cfg, es, changes, grep, catalog, caps, profile, reader>>

-----------------------------------------------------------------------------
(* Configuration and planning.                                             *)

Override(value, inherited) == IF value = Nil THEN inherited ELSE value

(* Config.ForIndex; an index without settings has all of them Nil or {}.   *)
ForIndex(i) ==
    LET s == cfg.index[i] IN
    [mode |-> Override(s.mode, IF cfg.mode = Unset THEN "auto" ELSE cfg.mode),
     timeField |-> Override(s.timeField, cfg.timeField),
     searchFields |-> s.searchFields, semanticFields |-> s.semanticFields,
     profile |-> Override(s.profile, i \notin cfg.optOut)]

FieldsOf(c, type) == {f \in Field : c[f] = type}

(* What planning yields: a query, or a diagnostic.                         *)
Query(mode, fields, timeField) ==
    [ok |-> TRUE, mode |-> mode, fields |-> fields, timeField |-> timeField]
Refused == [ok |-> FALSE, mode |-> Unset, fields |-> {}, timeField |-> Unset]

lexicalClause(ri, c) ==
    Query("lexical", IF ri.searchFields # {} THEN ri.searchFields ELSE FieldsOf(c, "text"), Unset)

planText(mode, ri, c) ==
    LET semFields == IF ri.semanticFields # {} THEN ri.semanticFields
                     ELSE FieldsOf(c, "semantic_text")
    IN IF mode \notin {"auto", "semantic"} THEN lexicalClause(ri, c)
       ELSE IF semFields # {} THEN Query("semantic", semFields, Unset)
       ELSE IF mode = "semantic" THEN Refused
       ELSE lexicalClause(ri, c)

(* Mutant: one of several candidates is taken.                             *)
inferFirstTimeField(c) ==
    LET found == {f \in Inferable : c[f] = "date"}
    IN IF found # {} THEN CHOOSE f \in found : TRUE ELSE Unset

inferTimeField(c) ==
    LET found == {f \in Inferable : c[f] = "date"}
    IN IF Cardinality(found) = 1 THEN CHOOSE f \in found : TRUE ELSE Unset

(* The field of the range filter, or Unset if there is none to use.        *)
planSince(ri, c) ==
    IF ri.timeField = Unset THEN inferTimeField(c)
    ELSE IF c[ri.timeField] = "date" THEN ri.timeField
    ELSE Unset

planQuery(mode, since, ri, c) ==
    LET q == planText(mode, ri, c)
    IN IF ~ q.ok \/ ~ since THEN q
       ELSE IF planSince(ri, c) = Unset THEN Refused
       ELSE [q EXCEPT !.timeField = planSince(ri, c)]

(* Mutant: the configuration of an index has the last word.                *)
ConfiguredMode(asked, ri) == IF ri.mode # "auto" \/ asked = Unset THEN ri.mode ELSE asked

(* The mode of a request is completed from the configuration.              *)
ModeFor(asked, ri) == IF asked = Unset THEN ri.mode ELSE asked

-----------------------------------------------------------------------------
(* State.                                                                  *)

Planned == [index : Index, caps : Caps,
            query : [ok : {TRUE}, mode : {"semantic", "lexical"}, fields : SUBSET Field,
                     timeField : Field \cup {Unset}]]

(* todo: indices without a plan; printed: indices whose hits are being     *)
(* printed; label: what was disclosed as the mode.                         *)
GrepState == [pc : {"idle", "scope", "plan", "stream", "exact"}, req : {Nil} \cup Requests,
              todo : SUBSET Index, planned : Seq(Planned), printed : SUBSET Index,
              label : {"semantic", "lexical", Unset}]

NoGrep == [pc |-> "idle", req |-> Nil, todo |-> {}, planned |-> <<>>, printed |-> {},
           label |-> Unset]

(* got: the answer to the request under way, if there is one already.      *)
IdleReader == [pc |-> "idle"]
ReaderState == {IdleReader}
    \cup [pc : {"info"}, index : Index]
    \cup [pc : {"caps"}, index : Index, got : {Nil} \cup Caps]
    \cup [pc : {"sample"}, index : Index, got : {Nil} \cup Caps, caps : Caps]

(* What a profile.md says of searching, and from which capabilities.       *)
Profile == [caps : Caps, mode : {"semantic", "lexical", "refused"}]

TypeOK ==
    /\ cfg \in Configs
    /\ es \in [Index -> Mappings \cup {{}}] /\ changes \in 0 .. MaxChanges
    /\ grep \in GrepState
    /\ catalog \in {Nil} \cup SUBSET Index
    /\ caps \in [Index -> {Nil} \cup Caps]
    /\ profile \in [Index -> {Nil} \cup Profile]
    /\ reader \in [Reader -> ReaderState]

Init ==
    /\ cfg \in Configs
    /\ es \in [Index -> Mappings] /\ changes = 0
    /\ grep = NoGrep
    /\ catalog = Nil
    /\ caps = [i \in Index |-> Nil]
    /\ profile = [i \in Index |-> Nil]
    /\ reader = [r \in Reader |-> IdleReader]

-----------------------------------------------------------------------------
(* Other clients change mappings, create indices and delete or close them. *)
Change(i, m) ==
    /\ changes < MaxChanges
    /\ es' = [es EXCEPT ![i] = m] /\ changes' = changes + 1
    /\ UNCHANGED <<cfg, grep, mountVars>>

(* All that field_caps can ever answer.                                    *)
AllCaps == UNION Mappings

Open == {i \in Index : es[i] # {}}

(* ESClient.filterVisible                                                  *)
Visible(list) == IF cfg.allow = {} THEN list ELSE list \cap cfg.allow

-----------------------------------------------------------------------------
(* Deps.RunGrep.                                                           *)

AskedMode(req) == IF req.flag # Unset THEN req.flag ELSE req.env
Exact(req) == req.unsupported \/ AskedMode(req) = "exact"

Step(f) == grep' = f /\ UNCHANGED <<cfg, esVars, mountVars>>

(* The command ends, with whatever exit code.                              *)
Exit == Step(NoGrep)

RunGrep(req) ==
    /\ grep.pc = "idle"
    /\ Step([NoGrep EXCEPT !.pc = "scope", !.req = req])

(* indicesForScopes.  An operand inside an index names it, visible or not. *)
ScopeDone ==
    LET named == (grep.req.scopes \ {Root})
                   \cup (IF Root \in grep.req.scopes THEN Visible(Open) ELSE {})
    IN /\ grep.pc = "scope"
       /\ IF named = {} /\ ~ Exact(grep.req) THEN Exit
          ELSE Step([grep EXCEPT !.pc = IF Exact(grep.req) THEN "exact" ELSE "plan",
                                 !.todo = named])

ScopeFailed == grep.pc = "scope" /\ Root \in grep.req.scopes /\ Exit

(* The indices of a command are sorted.                                    *)
IsNext(i) == i \in grep.todo /\ \A j \in grep.todo : Rank[i] <= Rank[j]

(* ESClient.Search plans the next index.                                   *)
PlanDone(i, c) ==
    LET ri == ForIndex(i)
        q == planQuery(ModeFor(AskedMode(grep.req), ri), grep.req.since = "duration", ri, c)
    IN /\ grep.pc = "plan" /\ IsNext(i) /\ c \in es[i]
       /\ IF q.ok THEN Step([grep EXCEPT !.todo = @ \ {i},
                                !.planned = Append(@, [index |-> i, caps |-> c, query |-> q])])
          ELSE Exit

PlanFailed == grep.pc = "plan" /\ grep.todo # {} /\ Exit

(* Mutant: streaming begins once there is a plan.                          *)
AnyPlanned == grep.planned # <<>>

AllPlanned == grep.todo = {}

(* Mutant: the mode that was asked for is disclosed.                       *)
DiscloseAsked ==
    /\ grep.pc = "plan" /\ AllPlanned
    /\ Step([grep EXCEPT !.pc = "stream", !.label = AskedMode(grep.req)])

(* SearchResult.Mode is that of the last index.                            *)
Disclose ==
    /\ grep.pc = "plan" /\ AllPlanned
    /\ Step([grep EXCEPT !.pc = "stream", !.label = Last(grep.planned).query.mode])

(* The hits of the next planned index.                                     *)
StreamIndex(k) ==
    /\ grep.pc = "stream" /\ k \in DOMAIN grep.planned
    /\ \A j \in 1 .. k : grep.planned[j].index \in grep.printed <=> j < k
    /\ Step([grep EXCEPT !.printed = @ \cup {grep.planned[k].index}])

(* The streams are drained, or one fails, before or after some hits.       *)
StreamEnd == grep.pc = "stream" /\ Exit

(* Deps.grepExact: no mode, no plan, no time filter.                       *)
ExactIndex(i) ==
    /\ grep.pc = "exact" /\ IsNext(i)
    /\ Step([grep EXCEPT !.todo = @ \ {i}, !.printed = @ \cup {i}])

ExactEnd == grep.pc = "exact" /\ grep.todo = {} /\ Exit

-----------------------------------------------------------------------------
(* Generator.IndexProfile, for a read or a stat of profile.md.  A request  *)
(* for capabilities is answered in one step; what its goroutine does with  *)
(* the answer is another.                                                  *)

(* Mutant: vectors count as well, as in FieldCaps.SemanticFields.          *)
vectorFields(c) == FieldsOf(c, "semantic_text") \cup FieldsOf(c, "dense_vector")

semanticFields(c) == FieldsOf(c, "semantic_text")

resolveProfileMode(mode, hasSemantic) ==
    CASE mode = "lexical" -> "lexical"
      [] mode = "semantic" -> IF hasSemantic THEN "semantic" ELSE "refused"
      [] OTHER -> IF hasSemantic THEN "semantic" ELSE "lexical"

Digest(i, c) ==
    LET ri == ForIndex(i)
        semActive == IF ri.semanticFields # {} THEN ri.semanticFields ELSE semanticFields(c)
    IN [caps |-> c, mode |-> resolveProfileMode(ri.mode, semActive # {})]

Become(r, state) == reader' = [reader EXCEPT ![r] = state]

(* A profile that is cached or disabled is served at once.                 *)
ReadProfile(r, i) ==
    /\ reader[r].pc = "idle" /\ ForIndex(i).profile /\ profile[i] = Nil
    /\ Become(r, [pc |-> "info", index |-> i])
    /\ UNCHANGED <<cfg, esVars, grep, catalog, caps, profile>>

(* ESClient.Info looks into the cached list, or asks _resolve/index.       *)
InfoDone(r) ==
    /\ reader[r].pc = "info"
    /\ catalog' = IF catalog = Nil THEN Open ELSE catalog
    /\ Become(r, IF reader[r].index \in Visible(catalog')
                  THEN [pc |-> "caps", index |-> reader[r].index, got |-> Nil] ELSE IdleReader)
    /\ UNCHANGED <<cfg, esVars, grep, caps, profile>>

(* ESClient.FieldCaps: an answer, a hit, and what is done with either.     *)
Asking(r) == reader[r].pc \in {"caps", "sample"} /\ reader[r].got = Nil

CapsAnswer(r, c) ==
    /\ Asking(r) /\ caps[reader[r].index] = Nil /\ c \in es[reader[r].index]
    /\ Become(r, [reader[r] EXCEPT !.got = c])
    /\ UNCHANGED <<cfg, esVars, grep, catalog, caps, profile>>

Obtained(r, c) ==
    /\ reader[r].pc \in {"caps", "sample"}
    /\ \/ Asking(r) /\ caps[reader[r].index] = c /\ UNCHANGED caps
       \/ reader[r].got = c /\ caps' = [caps EXCEPT ![reader[r].index] = c]

CapsDone(r, c) ==
    /\ reader[r].pc = "caps" /\ Obtained(r, c)
    /\ Become(r, [pc |-> "sample", index |-> reader[r].index, got |-> Nil, caps |-> c])
    /\ UNCHANGED <<cfg, esVars, grep, catalog, profile>>

(* writeSampleShape searches the index, which asks for its capabilities    *)
(* once more; the profile goes into the cache with those it was made from. *)
Finish(r) ==
    /\ profile' = [profile EXCEPT ![reader[r].index] = Digest(reader[r].index, reader[r].caps)]
    /\ Become(r, IdleReader)
    /\ UNCHANGED <<cfg, esVars, grep, catalog>>

SampleDone(r, c) == reader[r].pc = "sample" /\ Obtained(r, c) /\ Finish(r)

(* A request fails or the index is gone.  A sample is not insisted on.     *)
RequestFails(r) ==
    /\ \/ reader[r].pc = "info" /\ catalog = Nil
       \/ reader[r].pc = "caps" /\ Asking(r) /\ caps[reader[r].index] = Nil
    /\ Become(r, IdleReader)
    /\ UNCHANGED <<cfg, esVars, grep, catalog, caps, profile>>

SampleFails(r) ==
    /\ reader[r].pc = "sample" /\ Asking(r) /\ caps[reader[r].index] = Nil
    /\ Finish(r) /\ UNCHANGED caps

(* Entries expire, or are evicted.                                         *)
ExpireCatalog ==
    /\ catalog # Nil /\ catalog' = Nil
    /\ UNCHANGED <<cfg, esVars, grep, caps, profile, reader>>

ExpireCaps(i) ==
    /\ caps[i] # Nil /\ caps' = [caps EXCEPT ![i] = Nil]
    /\ UNCHANGED <<cfg, esVars, grep, catalog, profile, reader>>

(* Mutant: what is cached stays cached.                                    *)
ExpireNoProfile(i) == FALSE

(* ttlBytes.get                                                            *)
ExpireProfile(i) ==
    /\ profile[i] # Nil /\ profile' = [profile EXCEPT ![i] = Nil]
    /\ UNCHANGED <<cfg, esVars, grep, catalog, caps, reader>>

(* The mount ends and is started again.  It may also end in the middle of  *)
(* IndexProfile: Go stops a program that writes a map in two goroutines.   *)
Remount ==
    /\ catalog' = Nil /\ caps' = [i \in Index |-> Nil] /\ profile' = [i \in Index |-> Nil]
    /\ reader' = [r \in Reader |-> IdleReader]
    /\ UNCHANGED <<cfg, esVars, grep>>

-----------------------------------------------------------------------------
GrepStep ==
    \/ ScopeDone \/ ScopeFailed \/ PlanFailed \/ Disclose \/ StreamEnd \/ ExactEnd
    \/ \E i \in Index, c \in AllCaps : PlanDone(i, c)
    \/ \E i \in Index : ExactIndex(i)
    \/ \E k \in DOMAIN grep.planned : StreamIndex(k)

ReaderStep(r) ==
    \/ InfoDone(r) \/ RequestFails(r) \/ SampleFails(r)
    \/ \E c \in AllCaps : CapsAnswer(r, c) \/ CapsDone(r, c) \/ SampleDone(r, c)

Next ==
    \/ \E i \in Index, m \in Mappings \cup {{}} : Change(i, m)
    \/ \E req \in Requests : RunGrep(req)
    \/ GrepStep
    \/ \E r \in Reader, i \in Index : ReadProfile(r, i)
    \/ \E r \in Reader : ReaderStep(r)
    \/ \E i \in Index : ExpireCaps(i) \/ ExpireProfile(i)
    \/ ExpireCatalog \/ Remount

Spec == Init /\ [][Next]_vars

(* Requests end, because the HTTP client has a timeout, and entries expire.*)
FairSpec ==
    /\ Spec
    /\ \A r \in Reader : WF_vars(ReaderStep(r))
    /\ \A i \in Index : WF_vars(ExpireCaps(i)) /\ WF_vars(ExpireProfile(i))

-----------------------------------------------------------------------------
(* The documented precedence of search modes: the flag, the environment,   *)
(* the index, the global setting.                                          *)
Levels(req, i) == <<req.flag, req.env, cfg.index[i].mode, cfg.mode, "auto">>
WantedMode(req, i) ==
    LET set == {k \in 1 .. 5 : Levels(req, i)[k] \notin {Unset, Nil}}
    IN Levels(req, i)[CHOOSE k \in set : \A j \in set : k <= j]

SemanticFor(i, c) ==
    IF cfg.index[i].semanticFields # {} THEN cfg.index[i].semanticFields
    ELSE FieldsOf(c, "semantic_text")

(* Every index is searched in the mode that the documented precedence      *)
(* gives it: semantically exactly if that is wanted and there are fields   *)
(* for it, and a search that insists on semantic never degrades.           *)
(* RunGrep, ESClient.Search, Config.ForIndex, planText                     *)
ModeByPrecedence ==
    \A k \in DOMAIN grep.planned :
        LET p == grep.planned[k]
            wanted == WantedMode(grep.req, p.index)
        IN IF wanted \in {"auto", "semantic"} /\ SemanticFor(p.index, p.caps) # {}
           THEN p.query.mode = "semantic" /\ p.query.fields = SemanticFor(p.index, p.caps)
           ELSE p.query.mode = "lexical" /\ wanted # "semantic"

(* A ranked search with a time limit filters every index by a date field:  *)
(* the configured one, else the only candidate there is.  It never guesses *)
(* and never drops the filter.  planSince, inferTimeField                  *)
SinceRespected ==
    \A k \in DOMAIN grep.planned :
        LET p == grep.planned[k]
            f == p.query.timeField
        IN IF grep.req.since # "duration" THEN f = Unset
           ELSE /\ f \in Field /\ p.caps[f] = "date"
                /\ \/ f = ForIndex(p.index).timeField
                   \/ /\ ForIndex(p.index).timeField = Unset /\ f \in Inferable
                      /\ \A g \in Inferable : p.caps[g] = "date" => g = f

(* A ranked search prints the hits of no index before every index in its   *)
(* scope has a query and the mode has been disclosed: a refusal for one    *)
(* index leaves nothing printed.  ESClient.Search, Deps.RunGrep            *)
NothingPartial ==
    grep.printed # {} /\ ~ Exact(grep.req) =>
        /\ grep.todo = {} /\ grep.label # Unset
        /\ \A i \in grep.printed \cup (grep.req.scopes \ {Root}) :
              \E k \in DOMAIN grep.planned : grep.planned[k].index = i

(* What profile.md says of an index is what a plain grep would do, given   *)
(* the same capabilities: two packages decide it, each on its own.         *)
(* resolveProfileMode, planText                                            *)
ProfileTellsMode ==
    \A i \in Index : profile[i] # Nil =>
        LET q == planText(ForIndex(i).mode, ForIndex(i), profile[i].caps)
        IN profile[i].mode = IF q.ok THEN q.mode ELSE "refused"

Stale(i) == profile[i] # Nil /\ profile[i].caps \notin es[i]

(* When mappings no longer change, profiles come to agree with them and    *)
(* stay so, through two caches and whatever answers are still under way.   *)
(* ttlCache, ttlBytes, Generator.IndexProfile                              *)
StaleProfilesLeave == <>[](\A i \in Index : ~ Stale(i))
=============================================================================
