------------------------ MODULE RoutedSearch_proofs ------------------------
(***************************************************************************)
(* What RoutedSearch promises of every plan and of every profile, for all  *)
(* configurations, mappings, requests and readers.                         *)
(*                                                                         *)
(* The properties are about plans and profiles that were made in earlier   *)
(* states.  The invariant records how each was made: a plan is the value   *)
(* of planQuery for the capabilities it keeps, a profile that of Digest.   *)
(* Lemmas about these operators, which involve no state but cfg, do the    *)
(* rest.                                                                   *)
(***************************************************************************)
EXTENDS RoutedSearch, FiniteSetTheorems, TLAPS

(* The plan of a request for an index with these capabilities.             *)
PlanOf(req, i, c) ==
    planQuery(ModeFor(AskedMode(req), ForIndex(i)), req.since = "duration", ForIndex(i), c)

PlannedQuery == [ok : {TRUE}, mode : {"semantic", "lexical"}, fields : SUBSET Field,
                 timeField : Field \cup {Unset}]

ModeRight(req, i, c, q) ==
    IF WantedMode(req, i) \in {"auto", "semantic"} /\ SemanticFor(i, c) # {}
    THEN q.mode = "semantic" /\ q.fields = SemanticFor(i, c)
    ELSE q.mode = "lexical" /\ WantedMode(req, i) # "semantic"

SinceRight(req, i, c, f) ==
    IF req.since # "duration" THEN f = Unset
    ELSE /\ f \in Field /\ c[f] = "date"
         /\ \/ f = ForIndex(i).timeField
            \/ /\ ForIndex(i).timeField = Unset /\ f \in Inferable
               /\ \A g \in Inferable : c[g] = "date" => g = f

PlannedIndices == {grep.planned[k].index : k \in DOMAIN grep.planned}

PlannedInv ==
    \A k \in DOMAIN grep.planned :
        LET p == grep.planned[k]
        IN p.query = PlanOf(grep.req, p.index, p.caps) /\ p.query.ok

(* What is known in each phase of a grep.                                  *)
PhaseInv ==
    /\ grep.pc # "idle" => grep.req \in Requests
    /\ grep.pc \in {"idle", "scope", "exact"} => grep.planned = <<>>
    /\ grep.pc \in {"idle", "scope", "plan"} => grep.printed = {}
    /\ grep.pc = "exact" => Exact(grep.req)
    /\ grep.pc \in {"plan", "stream"} =>
          /\ grep.req.scopes \ {Root} \subseteq grep.todo \cup PlannedIndices
          /\ grep.todo # {} \/ grep.planned # <<>>
    /\ grep.pc = "stream" =>
          grep.todo = {} /\ grep.label # Unset /\ grep.printed \subseteq PlannedIndices

ProfileInv == \A i \in Index : profile[i] # Nil => profile[i] = Digest(i, profile[i].caps)

IInv == TypeOK /\ PlannedInv /\ PhaseInv /\ ProfileInv

-----------------------------------------------------------------------------
(* Configuration and planning.                                             *)

(* ForIndex yields a mode and fields of the index, whatever is inherited.  *)
LEMMA ForIndexType ==
    ASSUME cfg \in Configs, NEW i \in Index
    PROVE  /\ ForIndex(i).mode \in Modes /\ ForIndex(i).timeField \in Field \cup {Unset}
           /\ ForIndex(i).searchFields \in SUBSET Field
           /\ ForIndex(i).semanticFields \in SUBSET Field
<1>1. cfg \in Config /\ cfg.index[i] \in IndexSettings
  BY ConstantsAssumption DEF Config
<1>2. /\ cfg.mode \in Modes \cup {Unset} /\ cfg.timeField \in Field \cup {Unset}
      /\ cfg.index[i].mode \in Modes \cup {Nil}
      /\ cfg.index[i].timeField \in Field \cup {Unset, Nil}
      /\ cfg.index[i].searchFields \in SUBSET Field
      /\ cfg.index[i].semanticFields \in SUBSET Field
  BY <1>1 DEF Config, IndexSettings
<1> QED
  BY <1>2 DEF ForIndex, Override, Modes

(* ModeFor follows the documented precedence.                              *)
LEMMA Precedence ==
    ASSUME cfg \in Configs, NEW i \in Index, NEW req \in Requests
    PROVE  ModeFor(AskedMode(req), ForIndex(i)) = WantedMode(req, i)
<1> DEFINE L == Levels(req, i)
           Given(k) == L[k] \notin {Unset, Nil}
           set == {k \in 1 .. 5 : Given(k)}
           least == CHOOSE k \in set : \A j \in set : k <= j
<1>1. /\ L[1] = req.flag /\ L[2] = req.env /\ L[3] = cfg.index[i].mode
      /\ L[4] = cfg.mode /\ L[5] = "auto"
  BY DEF Levels
<1>2. /\ req.flag \in Modes \cup {Unset, "exact", "other"}
      /\ req.env \in Modes \cup {Unset, "exact", "other"}
  BY ConstantsAssumption DEF GrepOpts
<1>3. cfg.mode \in Modes \cup {Unset} /\ cfg.index[i].mode \in Modes \cup {Nil}
  <2>1. cfg \in Config /\ cfg.index[i] \in IndexSettings
    BY ConstantsAssumption DEF Config
  <2> QED
    BY <2>1 DEF Config, IndexSettings
<1>4. /\ Unset \notin Modes \cup {Nil, "exact", "other"} /\ Nil \notin Modes \cup {"exact", "other"}
      /\ "auto" \in Modes
  BY ConstantsAssumption DEF Modes
<1>5. WantedMode(req, i) = L[least]
  BY DEF WantedMode
<1>6. \A k \in 1 .. 5 : Given(k) /\ (\A j \in 1 .. 5 : j < k => ~ Given(j)) => least = k
  <2> SUFFICES ASSUME NEW k \in 1 .. 5, Given(k), \A j \in 1 .. 5 : j < k => ~ Given(j)
               PROVE  least = k
    OBVIOUS
  <2> HIDE DEF Given, L
  <2>1. k \in set /\ \A j \in set : k <= j
    OBVIOUS
  <2>2. \A n \in set : (\A j \in set : n <= j) => n = k
    BY <2>1
  <2> HIDE DEF set
  <2> QED
    BY <2>1, <2>2
<1> HIDE DEF least, set
<1>7. Given(1) <=> req.flag # Unset
  BY <1>1, <1>2, <1>4
<1>8. Given(2) <=> req.env # Unset
  BY <1>1, <1>2, <1>4
<1>9. Given(3) <=> cfg.index[i].mode # Nil
  BY <1>1, <1>3, <1>4
<1>10. Given(4) <=> cfg.mode # Unset
  BY <1>1, <1>3, <1>4
<1>11. Given(5)
  BY <1>1, <1>4
<1> HIDE DEF Given, L
<1>12. ForIndex(i).mode = IF cfg.index[i].mode # Nil THEN cfg.index[i].mode
                          ELSE IF cfg.mode = Unset THEN "auto" ELSE cfg.mode
  BY DEF ForIndex, Override
<1>13. CASE req.flag # Unset
  <2>1. least = 1
    BY <1>6, <1>7, <1>13
  <2> QED
    BY <1>1, <1>5, <1>13, <2>1 DEF ModeFor, AskedMode
<1>14. CASE req.flag = Unset /\ req.env # Unset
  <2>1. least = 2
    BY <1>6, <1>7, <1>8, <1>14
  <2> QED
    BY <1>1, <1>5, <1>14, <2>1 DEF ModeFor, AskedMode
<1>15. CASE req.flag = Unset /\ req.env = Unset
  <2>1. ModeFor(AskedMode(req), ForIndex(i)) = ForIndex(i).mode
    BY <1>15 DEF ModeFor, AskedMode
  <2>2. CASE cfg.index[i].mode # Nil
    <3>1. least = 3
      BY <1>6, <1>7, <1>8, <1>9, <1>15, <2>2
    <3> QED
      BY <1>1, <1>5, <1>12, <2>1, <2>2, <3>1
  <2>3. CASE cfg.index[i].mode = Nil /\ cfg.mode # Unset
    <3>1. least = 4
      BY <1>6, <1>7, <1>8, <1>9, <1>10, <1>15, <2>3
    <3> QED
      BY <1>1, <1>5, <1>12, <2>1, <2>3, <3>1
  <2>4. CASE cfg.index[i].mode = Nil /\ cfg.mode = Unset
    <3>1. least = 5
      BY <1>6, <1>7, <1>8, <1>9, <1>10, <1>11, <1>15, <2>4
    <3> QED
      BY <1>1, <1>5, <1>12, <2>1, <2>4, <3>1
  <2> QED
    BY <2>2, <2>3, <2>4
<1> QED
  BY <1>13, <1>14, <1>15

(* What planText yields, if it is not refused.                             *)
LEMMA TextFacts ==
    ASSUME cfg \in Configs, NEW i \in Index, NEW c \in Caps, NEW mode
    PROVE  LET q == planText(mode, ForIndex(i), c) IN
           \/ q = Refused
           \/ /\ q \in PlannedQuery /\ q.timeField = Unset
              /\ IF mode \in {"auto", "semantic"} /\ SemanticFor(i, c) # {}
                 THEN q.mode = "semantic" /\ q.fields = SemanticFor(i, c)
                 ELSE q.mode = "lexical" /\ mode # "semantic"
<1> DEFINE ri == ForIndex(i)
           semFields == IF ri.semanticFields # {} THEN ri.semanticFields
                        ELSE FieldsOf(c, "semantic_text")
           q == planText(mode, ri, c)
<1>1. ri.semanticFields = cfg.index[i].semanticFields
  BY DEF ForIndex
<1>2. semFields = SemanticFor(i, c)
  BY <1>1 DEF SemanticFor
<1>3. semFields \in SUBSET Field
  BY ForIndexType DEF FieldsOf
<1>4. /\ lexicalClause(ri, c) \in PlannedQuery
      /\ lexicalClause(ri, c).timeField = Unset /\ lexicalClause(ri, c).mode = "lexical"
  <2>1. (IF ri.searchFields # {} THEN ri.searchFields ELSE FieldsOf(c, "text")) \in SUBSET Field
    BY ForIndexType DEF FieldsOf
  <2> QED
    BY <2>1 DEF lexicalClause, Query, PlannedQuery
<1>5. /\ Query("semantic", semFields, Unset) \in PlannedQuery
      /\ Query("semantic", semFields, Unset).mode = "semantic"
      /\ Query("semantic", semFields, Unset).fields = semFields
      /\ Query("semantic", semFields, Unset).timeField = Unset
  BY <1>3 DEF Query, PlannedQuery
<1>6. q = IF mode \notin {"auto", "semantic"} THEN lexicalClause(ri, c)
          ELSE IF semFields # {} THEN Query("semantic", semFields, Unset)
          ELSE IF mode = "semantic" THEN Refused
          ELSE lexicalClause(ri, c)
  BY DEF planText
<1> HIDE DEF q, semFields, ri
<1>7. \/ q = Refused
      \/ /\ q \in PlannedQuery /\ q.timeField = Unset
         /\ IF mode \in {"auto", "semantic"} /\ semFields # {}
            THEN q.mode = "semantic" /\ q.fields = semFields
            ELSE q.mode = "lexical" /\ mode # "semantic"
  <2>1. CASE mode \notin {"auto", "semantic"}
    BY <1>4, <1>6, <2>1
  <2>2. CASE mode \in {"auto", "semantic"} /\ semFields # {}
    BY <1>5, <1>6, <2>2
  <2>3. CASE mode = "auto" /\ semFields = {}
    BY <1>4, <1>6, <2>3
  <2>4. CASE mode = "semantic" /\ semFields = {}
    BY <1>6, <2>4
  <2> QED
    BY <2>1, <2>2, <2>3, <2>4
<1> QED
  BY <1>2, <1>7 DEF q, ri

(* A field for the time filter is configured or the only candidate.        *)
LEMMA SinceFacts ==
    ASSUME cfg \in Configs, NEW i \in Index, NEW c \in Caps, planSince(ForIndex(i), c) # Unset
    PROVE  LET f == planSince(ForIndex(i), c) IN
           /\ f \in Field /\ c[f] = "date"
           /\ \/ f = ForIndex(i).timeField
              \/ /\ ForIndex(i).timeField = Unset /\ f \in Inferable
                 /\ \A g \in Inferable : c[g] = "date" => g = f
<1> DEFINE t == ForIndex(i).timeField
           found == {f \in Inferable : c[f] = "date"}
<1>1. t \in Field \cup {Unset} /\ Inferable \subseteq Field
  BY ForIndexType, ConstantsAssumption
<1>2. CASE t # Unset
  BY <1>1, <1>2 DEF planSince
<1>3. CASE t = Unset
  <2>1. planSince(ForIndex(i), c) = inferTimeField(c)
    BY <1>3 DEF planSince
  <2>2. /\ Cardinality(found) = 1
        /\ inferTimeField(c) = CHOOSE f \in found : TRUE
    BY <2>1 DEF inferTimeField
  <2>3. IsFiniteSet(found)
    BY ConstantsAssumption, FS_Subset
  <2>4. PICK f : found = {f}
    BY <2>2, <2>3, FS_Singleton
  <2>5. inferTimeField(c) = f
    BY <2>2, <2>4
  <2> QED
    BY <1>1, <1>3, <2>1, <2>4, <2>5
<1> QED
  BY <1>2, <1>3

(* A plan that is not refused searches as it should.                       *)
LEMMA PlanFacts ==
    ASSUME cfg \in Configs, NEW i \in Index, NEW c \in Caps, NEW req \in Requests,
           PlanOf(req, i, c).ok
    PROVE  /\ PlanOf(req, i, c) \in PlannedQuery
           /\ ModeRight(req, i, c, PlanOf(req, i, c))
           /\ SinceRight(req, i, c, PlanOf(req, i, c).timeField)
<1> DEFINE mode == ModeFor(AskedMode(req), ForIndex(i))
           since == req.since = "duration"
           q == planText(mode, ForIndex(i), c)
           f == planSince(ForIndex(i), c)
           plan == PlanOf(req, i, c)
<1>1. mode = WantedMode(req, i)
  BY Precedence
<1>2. plan = IF ~ q.ok \/ ~ since THEN q ELSE IF f = Unset THEN Refused
             ELSE [q EXCEPT !.timeField = f]
  BY DEF PlanOf, planQuery
<1>3. \/ q = Refused
      \/ /\ q \in PlannedQuery /\ q.timeField = Unset
         /\ IF mode \in {"auto", "semantic"} /\ SemanticFor(i, c) # {}
            THEN q.mode = "semantic" /\ q.fields = SemanticFor(i, c)
            ELSE q.mode = "lexical" /\ mode # "semantic"
  BY TextFacts
<1>4. f # Unset => f \in Field /\ (since => SinceRight(req, i, c, f))
  BY SinceFacts DEF SinceRight
<1>5. ~ since => SinceRight(req, i, c, Unset)
  BY DEF SinceRight
<1>6. Refused.ok = FALSE /\ \A p \in PlannedQuery : p.ok = TRUE
  BY DEF Refused, PlannedQuery
<1> HIDE DEF plan, f, q, since, mode
<1>7. plan.ok
  BY DEF plan
<1>8. CASE q = Refused
  BY <1>2, <1>6, <1>7, <1>8
<1>9. CASE /\ q \in PlannedQuery /\ q.timeField = Unset
           /\ IF mode \in {"auto", "semantic"} /\ SemanticFor(i, c) # {}
              THEN q.mode = "semantic" /\ q.fields = SemanticFor(i, c)
              ELSE q.mode = "lexical" /\ mode # "semantic"
  <2>1. ModeRight(req, i, c, q)
    BY <1>1, <1>9 DEF ModeRight
  <2>2. CASE ~ since
    <3>1. plan = q
      BY <1>2, <2>2
    <3> QED
      BY <1>5, <1>9, <2>1, <2>2, <3>1 DEF plan
  <2>3. CASE since
    <3>1. f # Unset /\ plan = [q EXCEPT !.timeField = f]
      BY <1>2, <1>6, <1>7, <1>9, <2>3
    <3>2. /\ plan \in PlannedQuery
          /\ plan.timeField = f /\ plan.mode = q.mode /\ plan.fields = q.fields
      BY <1>4, <1>9, <3>1 DEF PlannedQuery
    <3> QED
      BY <1>4, <2>1, <2>3, <3>1, <3>2 DEF plan, ModeRight
  <2> QED
    BY <2>2, <2>3
<1> QED
  BY <1>3, <1>8, <1>9

(* What Digest says of the mode is what planText does.                     *)
LEMMA DigestFacts ==
    ASSUME cfg \in Configs, NEW i \in Index, NEW c \in Caps
    PROVE  /\ Digest(i, c) \in Profile /\ Digest(i, c).caps = c
           /\ LET q == planText(ForIndex(i).mode, ForIndex(i), c)
              IN Digest(i, c).mode = IF q.ok THEN q.mode ELSE "refused"
<1> DEFINE ri == ForIndex(i)
           mode == ri.mode
           q == planText(mode, ri, c)
           hasSemantic == SemanticFor(i, c) # {}
<1>1. ri.semanticFields = cfg.index[i].semanticFields
  BY DEF ForIndex
<1>2. Digest(i, c) = [caps |-> c, mode |-> resolveProfileMode(mode, hasSemantic)]
  BY <1>1 DEF Digest, SemanticFor, semanticFields
<1>3. mode \in Modes
  BY ForIndexType
<1>4. resolveProfileMode(mode, hasSemantic) =
         IF mode = "lexical" THEN "lexical"
         ELSE IF hasSemantic THEN "semantic"
         ELSE IF mode = "semantic" THEN "refused" ELSE "lexical"
  BY <1>3 DEF resolveProfileMode, Modes
<1>5. q = Refused <=> mode = "semantic" /\ ~ hasSemantic
  <2>1. (IF ri.semanticFields # {} THEN ri.semanticFields ELSE FieldsOf(c, "semantic_text"))
           = SemanticFor(i, c)
    BY <1>1 DEF SemanticFor
  <2>2. lexicalClause(ri, c).ok /\ \A fields : Query("semantic", fields, Unset).ok
    BY DEF lexicalClause, Query
  <2>3. ~ Refused.ok
    BY DEF Refused
  <2>4. q = IF mode \notin {"auto", "semantic"} THEN lexicalClause(ri, c)
            ELSE IF hasSemantic THEN Query("semantic", SemanticFor(i, c), Unset)
            ELSE IF mode = "semantic" THEN Refused
            ELSE lexicalClause(ri, c)
    BY <2>1 DEF planText
  <2> HIDE DEF q, hasSemantic, mode, ri
  <2> QED
    BY <2>2, <2>3, <2>4
<1>6. \/ q = Refused
      \/ /\ q \in PlannedQuery
         /\ IF mode \in {"auto", "semantic"} /\ hasSemantic
            THEN q.mode = "semantic" ELSE q.mode = "lexical"
  BY TextFacts
<1>7. ~ Refused.ok /\ \A p \in PlannedQuery : p.ok
  BY DEF Refused, PlannedQuery
<1> HIDE DEF q, hasSemantic, mode, ri
<1>8. resolveProfileMode(mode, hasSemantic) = IF q.ok THEN q.mode ELSE "refused"
  BY <1>3, <1>4, <1>5, <1>6, <1>7 DEF Modes
<1>9. resolveProfileMode(mode, hasSemantic) \in {"semantic", "lexical", "refused"}
  BY <1>4
<1> QED
  BY <1>2, <1>8, <1>9 DEF Profile, q, mode, ri

-----------------------------------------------------------------------------
(* The invariant is preserved.                                             *)

(* The configuration never changes, so what it implies does not either.    *)
LEMMA SameConfig ==
    ASSUME cfg' = cfg
    PROVE  /\ \A req, i, c : PlanOf(req, i, c)' = PlanOf(req, i, c)
           /\ \A i, c : Digest(i, c)' = Digest(i, c)
<1>1. \A i : ForIndex(i)' = ForIndex(i)
  BY DEF ForIndex
<1>2. \A req, i, c : PlanOf(req, i, c)' = PlanOf(req, i, c)
  BY <1>1 DEF PlanOf
<1>3. \A i, c : Digest(i, c)' = Digest(i, c)
  BY <1>1 DEF Digest
<1> QED
  BY <1>2, <1>3

GrepInv == grep \in GrepState /\ PlannedInv /\ PhaseInv

LEMMA GrepUnchanged ==
    ASSUME IInv, UNCHANGED <<cfg, grep>>
    PROVE  GrepInv'
<1>1. PlannedInv'
  BY SameConfig DEF IInv, PlannedInv
<1>2. PhaseInv'
  BY DEF IInv, PhaseInv, PlannedIndices
<1>3. grep' \in GrepState
  BY DEF IInv, TypeOK
<1> QED
  BY <1>1, <1>2, <1>3 DEF GrepInv

LEMMA ProfileUnchanged ==
    ASSUME IInv, UNCHANGED <<cfg, profile>>
    PROVE  ProfileInv'
  BY SameConfig DEF IInv, ProfileInv

(* A step of the grep leaves the mount alone.                              *)
LEMMA GrepSteps ==
    ASSUME IInv, NEW f, Step(f), GrepInv'
    PROVE  IInv'
<1>1. UNCHANGED <<cfg, es, changes, catalog, caps, profile, reader>>
  BY DEF Step, esVars, mountVars
<1>2. ProfileInv'
  BY <1>1, ProfileUnchanged
<1>3. TypeOK'
  BY <1>1 DEF IInv, TypeOK, GrepInv
<1> QED
  BY <1>2, <1>3 DEF IInv, GrepInv

LEMMA NoGrepInv ==
    ASSUME grep' = NoGrep
    PROVE  GrepInv'
<1>1. NoGrep \in GrepState
  BY DEF NoGrep, GrepState
<1>2. DOMAIN grep'.planned = {}
  BY DEF NoGrep
<1>3. PlannedInv'
  BY <1>2 DEF PlannedInv
<1>4. PhaseInv'
  BY DEF PhaseInv, NoGrep
<1> QED
  BY <1>1, <1>3, <1>4 DEF GrepInv

LEMMA ExitInv ==
    ASSUME IInv, Exit
    PROVE  IInv'
  BY NoGrepInv, GrepSteps DEF Exit, Step

LEMMA RunGrepInv ==
    ASSUME IInv, NEW req \in Requests, RunGrep(req)
    PROVE  IInv'
<1> DEFINE f == [NoGrep EXCEPT !.pc = "scope", !.req = req]
<1>1. Step(f) /\ grep' = f
  BY DEF RunGrep, Step
<1>2. /\ f \in GrepState /\ f.pc = "scope" /\ f.req = req /\ f.planned = <<>> /\ f.printed = {}
  <2>1. NoGrep \in GrepState /\ NoGrep.planned = <<>> /\ NoGrep.printed = {}
    BY DEF NoGrep, GrepState
  <2> QED
    BY <2>1 DEF GrepState
<1>3. PlannedInv'
  BY <1>1, <1>2 DEF PlannedInv
<1>4. PhaseInv'
  BY <1>1, <1>2 DEF PhaseInv
<1> QED
  BY <1>1, <1>2, <1>3, <1>4, GrepSteps DEF GrepInv

LEMMA ScopeDoneInv ==
    ASSUME IInv, ScopeDone
    PROVE  IInv'
<1> DEFINE named == (grep.req.scopes \ {Root})
                      \cup (IF Root \in grep.req.scopes THEN Visible(Open) ELSE {})
           f == [grep EXCEPT !.pc = IF Exact(grep.req) THEN "exact" ELSE "plan", !.todo = named]
<1>1. CASE named = {} /\ ~ Exact(grep.req)
  BY <1>1, ExitInv DEF ScopeDone
<1>2. CASE ~ (named = {} /\ ~ Exact(grep.req))
  <2>1. Step(f) /\ grep.pc = "scope"
    BY <1>2 DEF ScopeDone
  <2>2. /\ grep \in GrepState /\ grep.req \in Requests
        /\ grep.planned = <<>> /\ grep.printed = {}
    BY <2>1 DEF IInv, TypeOK, PhaseInv
  <2>3. grep.req.scopes \in SUBSET (Index \cup {Root})
    BY <2>2, ConstantsAssumption DEF GrepOpts
  <2>4. named \in SUBSET Index
    BY <2>3 DEF Visible, Open
  <2> HIDE DEF named
  <2>5. f \in GrepState
    BY <2>2, <2>4 DEF GrepState
  <2>6. /\ f.pc \in {"exact", "plan"} /\ (f.pc = "exact" <=> Exact(grep.req))
        /\ f.req = grep.req /\ f.planned = <<>> /\ f.printed = {} /\ f.todo = named
    BY <2>2 DEF GrepState
  <2>7. grep' = f
    BY <2>1 DEF Step
  <2>8. PlannedInv'
    BY <2>6, <2>7 DEF PlannedInv
  <2>9. f.req.scopes \ {Root} \subseteq named
    BY <2>6 DEF named
  <2>10. PhaseInv'
    <3> HIDE DEF f
    <3>1. Exact(grep.req)' = Exact(f.req)
      BY <2>7 DEF Exact, AskedMode
    <3> QED
      BY <1>2, <2>2, <2>6, <2>7, <2>9, <3>1 DEF PhaseInv
  <2> QED
    BY <2>1, <2>5, <2>7, <2>8, <2>10, GrepSteps DEF GrepInv
<1> QED
  BY <1>1, <1>2

LEMMA PlanDoneInv ==
    ASSUME IInv, NEW i \in Index, NEW c \in AllCaps, PlanDone(i, c)
    PROVE  IInv'
<1> DEFINE q == PlanOf(grep.req, i, c)
           p == [index |-> i, caps |-> c, query |-> q]
           f == [grep EXCEPT !.todo = @ \ {i}, !.planned = Append(@, p)]
<1>1. grep.pc = "plan" /\ IF q.ok THEN Step(f) ELSE Exit
  BY DEF PlanDone, PlanOf
<1>2. CASE ~ q.ok
  BY <1>1, <1>2, ExitInv
<1>3. CASE q.ok
  <2>1. Step(f) /\ grep' = f
    BY <1>1, <1>3 DEF Step
  <2>2. /\ cfg \in Configs /\ grep \in GrepState /\ grep.req \in Requests /\ grep.printed = {}
        /\ grep.req.scopes \ {Root} \subseteq grep.todo \cup PlannedIndices
    BY <1>1 DEF IInv, TypeOK, PhaseInv
  <2>3. c \in Caps
    BY ConstantsAssumption DEF AllCaps
  <2>4. q \in PlannedQuery
    BY <1>3, <2>2, <2>3, PlanFacts
  <2>5. p \in Planned /\ p.index = i /\ p.caps = c /\ p.query = q
    BY <2>3, <2>4 DEF Planned, PlannedQuery
  <2> DEFINE plans == Append(grep.planned, p)
             todo == grep.todo \ {i}
             n == Len(grep.planned) + 1
  <2> HIDE DEF p, q
  <2>6. grep.planned \in Seq(Planned) /\ grep.todo \in SUBSET Index
    BY <2>2 DEF GrepState
  <2>7. plans \in Seq(Planned) /\ todo \in SUBSET Index
    BY <2>5, <2>6
  <2>8. /\ DOMAIN plans = 1 .. n /\ plans[n] = p /\ n \in 1 .. n
        /\ \A k \in DOMAIN grep.planned : k \in 1 .. n /\ plans[k] = grep.planned[k]
        /\ \A k \in 1 .. n : k # n => k \in DOMAIN grep.planned
    BY <2>5, <2>6
  <2> HIDE DEF plans, todo, n
  <2>9. /\ f \in GrepState /\ f.planned = plans /\ f.todo = todo
        /\ f.pc = "plan" /\ f.req = grep.req /\ f.printed = {}
    <3>1. f = [grep EXCEPT !.todo = todo, !.planned = plans]
      BY DEF todo, plans
    <3> HIDE DEF f
    <3> QED
      BY <1>1, <2>2, <2>7, <3>1 DEF GrepState
  <2> HIDE DEF f
  <2>10. PlannedInv'
    <3>1. \A k \in 1 .. n : /\ plans[k].query = PlanOf(grep.req, plans[k].index, plans[k].caps)
                            /\ plans[k].query.ok
      <4> SUFFICES ASSUME NEW k \in 1 .. n
                   PROVE  /\ plans[k].query = PlanOf(grep.req, plans[k].index, plans[k].caps)
                          /\ plans[k].query.ok
        OBVIOUS
      <4>1. CASE k = n
        BY <1>3, <2>5, <2>8, <4>1 DEF q
      <4>2. CASE k # n
        BY <2>8, <4>2 DEF IInv, PlannedInv
      <4> QED
        BY <4>1, <4>2
    <3>2. cfg' = cfg /\ grep'.req = grep.req /\ grep'.planned = plans
      BY <2>1, <2>9 DEF Step
    <3> QED
      BY <2>8, <3>1, <3>2, SameConfig DEF PlannedInv
  <2>11. PhaseInv'
    <3>1. PlannedIndices \cup {i} \subseteq PlannedIndices'
      <4>1. i \in PlannedIndices'
        BY <2>1, <2>5, <2>8, <2>9 DEF PlannedIndices
      <4>2. ASSUME NEW k \in DOMAIN grep.planned
            PROVE  grep.planned[k].index \in PlannedIndices'
        BY <2>1, <2>8, <2>9 DEF PlannedIndices
      <4> QED
        BY <4>1, <4>2 DEF PlannedIndices
    <3>2. plans # <<>>
      BY <2>8
    <3>3. grep'.req.scopes \ {Root} \subseteq grep'.todo \cup PlannedIndices'
      BY <2>1, <2>2, <2>9, <3>1 DEF todo
    <3> QED
      BY <2>1, <2>2, <2>9, <3>2, <3>3 DEF PhaseInv
  <2> QED
    BY <2>1, <2>9, <2>10, <2>11, GrepSteps DEF GrepInv
<1> QED
  BY <1>2, <1>3

LEMMA DiscloseInv ==
    ASSUME IInv, Disclose
    PROVE  IInv'
<1> DEFINE mode == Last(grep.planned).query.mode
           f == [grep EXCEPT !.pc = "stream", !.label = mode]
<1>1. Step(f) /\ grep' = f /\ grep.pc = "plan" /\ grep.todo = {}
  BY DEF Disclose, Step, AllPlanned
<1>2. /\ grep \in GrepState /\ grep.planned \in Seq(Planned) /\ grep.planned # <<>>
      /\ grep.req \in Requests /\ grep.printed = {}
      /\ grep.req.scopes \ {Root} \subseteq grep.todo \cup PlannedIndices
  BY <1>1 DEF IInv, TypeOK, PhaseInv, GrepState
<1>3. mode \in {"semantic", "lexical"}
  <2>1. Last(grep.planned) \in Planned
    BY <1>2 DEF Last
  <2> QED
    BY <2>1 DEF Planned
<1> HIDE DEF mode
<1>4. mode # Unset
  BY <1>3, ConstantsAssumption DEF Modes
<1>5. /\ f \in GrepState /\ f.pc = "stream" /\ f.label = mode /\ f.planned = grep.planned
      /\ f.todo = {} /\ f.req = grep.req /\ f.printed = {}
  BY <1>1, <1>2, <1>3 DEF GrepState
<1> HIDE DEF f
<1>6. cfg' = cfg
  BY <1>1 DEF Step
<1>7. PlannedInv'
  BY <1>1, <1>5, <1>6, SameConfig DEF IInv, PlannedInv
<1>8. PlannedIndices' = PlannedIndices
  BY <1>1, <1>5 DEF PlannedIndices
<1>9. PhaseInv'
  BY <1>1, <1>2, <1>4, <1>5, <1>8 DEF PhaseInv
<1> QED
  BY <1>1, <1>5, <1>7, <1>9, GrepSteps DEF GrepInv

LEMMA StreamIndexInv ==
    ASSUME IInv, NEW k \in DOMAIN grep.planned, StreamIndex(k)
    PROVE  IInv'
<1> DEFINE f == [grep EXCEPT !.printed = @ \cup {grep.planned[k].index}]
<1>1. Step(f) /\ grep' = f /\ grep.pc = "stream"
  BY DEF StreamIndex, Step
<1>2. /\ grep \in GrepState /\ grep.planned \in Seq(Planned) /\ grep.printed \in SUBSET Index
      /\ grep.req \in Requests /\ grep.todo = {} /\ grep.label # Unset
      /\ grep.printed \subseteq PlannedIndices
      /\ grep.req.scopes \ {Root} \subseteq grep.todo \cup PlannedIndices
      /\ grep.planned # <<>>
  BY <1>1 DEF IInv, TypeOK, PhaseInv, GrepState
<1>3. grep.planned[k].index \in Index \cap PlannedIndices
  <2>1. grep.planned[k] \in Planned
    BY <1>2
  <2> QED
    BY <2>1 DEF Planned, PlannedIndices
<1> DEFINE i == grep.planned[k].index
<1> HIDE DEF i
<1>4. /\ f \in GrepState /\ f.pc = "stream" /\ f.label = grep.label
      /\ f.planned = grep.planned /\ f.todo = {} /\ f.req = grep.req
      /\ f.printed = grep.printed \cup {i}
  <2>1. f = [grep EXCEPT !.printed = @ \cup {i}]
    BY DEF i
  <2> HIDE DEF f
  <2>2. i \in Index
    BY <1>3 DEF i
  <2> QED
    BY <1>1, <1>2, <2>1, <2>2 DEF GrepState
<1> HIDE DEF f
<1>5. cfg' = cfg
  BY <1>1 DEF Step
<1>6. PlannedInv'
  BY <1>1, <1>4, <1>5, SameConfig DEF IInv, PlannedInv
<1>7. PlannedIndices' = PlannedIndices
  BY <1>1, <1>4 DEF PlannedIndices
<1>8. PhaseInv'
  BY <1>1, <1>2, <1>3, <1>4, <1>7 DEF PhaseInv, i
<1> QED
  BY <1>1, <1>4, <1>6, <1>8, GrepSteps DEF GrepInv

LEMMA ExactIndexInv ==
    ASSUME IInv, NEW i \in Index, ExactIndex(i)
    PROVE  IInv'
<1> DEFINE f == [grep EXCEPT !.todo = @ \ {i}, !.printed = @ \cup {i}]
<1>1. Step(f) /\ grep' = f /\ grep.pc = "exact"
  BY DEF ExactIndex, Step
<1>2. grep \in GrepState /\ grep.req \in Requests /\ grep.planned = <<>> /\ Exact(grep.req)
  BY <1>1 DEF IInv, TypeOK, PhaseInv
<1>3. /\ f \in GrepState /\ f.pc = "exact" /\ f.planned = <<>> /\ f.req = grep.req
  BY <1>1, <1>2 DEF GrepState
<1> HIDE DEF f
<1>4. PlannedInv'
  BY <1>1, <1>3 DEF PlannedInv
<1>5. Exact(grep.req)'
  BY <1>1, <1>2, <1>3 DEF Exact, AskedMode
<1>6. PhaseInv'
  BY <1>1, <1>2, <1>3, <1>5 DEF PhaseInv
<1> QED
  BY <1>1, <1>3, <1>4, <1>6, GrepSteps DEF GrepInv

LEMMA GrepStepInv ==
    ASSUME IInv, GrepStep
    PROVE  IInv'
<1>1. CASE ScopeDone
  BY <1>1, ScopeDoneInv
<1>2. CASE ScopeFailed \/ PlanFailed \/ StreamEnd \/ ExactEnd
  BY <1>2, ExitInv DEF ScopeFailed, PlanFailed, StreamEnd, ExactEnd
<1>3. CASE Disclose
  BY <1>3, DiscloseInv
<1>4. CASE \E i \in Index, c \in AllCaps : PlanDone(i, c)
  BY <1>4, PlanDoneInv
<1>5. CASE \E i \in Index : ExactIndex(i)
  BY <1>5, ExactIndexInv
<1>6. CASE \E k \in DOMAIN grep.planned : StreamIndex(k)
  BY <1>6, StreamIndexInv
<1> QED
  BY <1>1, <1>2, <1>3, <1>4, <1>5, <1>6 DEF GrepStep

(* A step of the mount, or of Elasticsearch, leaves the grep alone.        *)
LEMMA MountSteps ==
    ASSUME IInv, UNCHANGED <<cfg, grep>>, ProfileInv',
           es' \in [Index -> Mappings \cup {{}}], changes' \in 0 .. MaxChanges,
           catalog' \in {Nil} \cup SUBSET Index, caps' \in [Index -> {Nil} \cup Caps],
           profile' \in [Index -> {Nil} \cup Profile], reader' \in [Reader -> ReaderState]
    PROVE  IInv'
<1>1. GrepInv'
  BY GrepUnchanged
<1>2. TypeOK'
  BY <1>1 DEF IInv, TypeOK, GrepInv
<1> QED
  BY <1>1, <1>2 DEF IInv, GrepInv

(* What a reader holds, by its phase.                                      *)
LEMMA ReaderFacts ==
    ASSUME TypeOK, NEW r \in Reader
    PROVE  /\ reader[r].pc \in {"idle", "info", "caps", "sample"}
           /\ reader[r].pc # "idle" => reader[r].index \in Index
           /\ reader[r].pc = "caps" =>
                 reader[r] \in [pc : {"caps"}, index : Index, got : {Nil} \cup Caps]
           /\ reader[r].pc = "sample" =>
                 reader[r] \in [pc : {"sample"}, index : Index, got : {Nil} \cup Caps, caps : Caps]
  BY DEF TypeOK, ReaderState, IdleReader

LEMMA BecomeType ==
    ASSUME TypeOK, NEW r \in Reader, NEW state \in ReaderState, Become(r, state)
    PROVE  reader' \in [Reader -> ReaderState]
  BY DEF TypeOK, Become

LEMMA ReadProfileInv ==
    ASSUME IInv, NEW r \in Reader, NEW i \in Index, ReadProfile(r, i)
    PROVE  IInv'
<1>1. [pc |-> "info", index |-> i] \in ReaderState
  BY DEF ReaderState
<1>2. reader' \in [Reader -> ReaderState]
  BY <1>1, BecomeType DEF ReadProfile, IInv
<1>3. UNCHANGED <<cfg, es, changes, grep, catalog, caps, profile>>
  BY DEF ReadProfile, esVars
<1> QED
  BY <1>2, <1>3, ProfileUnchanged, MountSteps DEF IInv, TypeOK

LEMMA InfoDoneInv ==
    ASSUME IInv, NEW r \in Reader, InfoDone(r)
    PROVE  IInv'
<1>1. reader[r].index \in Index
  BY ReaderFacts DEF InfoDone, IInv
<1>2. /\ [pc |-> "caps", index |-> reader[r].index, got |-> Nil] \in ReaderState
      /\ IdleReader \in ReaderState
  BY <1>1 DEF ReaderState
<1>3. reader' \in [Reader -> ReaderState]
  <2>1. (IF reader[r].index \in Visible(catalog')
         THEN [pc |-> "caps", index |-> reader[r].index, got |-> Nil] ELSE IdleReader)
           \in ReaderState
    BY <1>2
  <2> QED
    BY <2>1, BecomeType DEF InfoDone, IInv
<1>4. catalog' \in {Nil} \cup SUBSET Index
  BY DEF InfoDone, IInv, TypeOK, Open
<1>5. UNCHANGED <<cfg, es, changes, grep, caps, profile>>
  BY DEF InfoDone, esVars
<1> QED
  BY <1>3, <1>4, <1>5, ProfileUnchanged, MountSteps DEF IInv, TypeOK

LEMMA CapsAnswerInv ==
    ASSUME IInv, NEW r \in Reader, NEW c \in AllCaps, CapsAnswer(r, c)
    PROVE  IInv'
<1>1. c \in Caps
  BY ConstantsAssumption DEF AllCaps
<1>2. [reader[r] EXCEPT !.got = c] \in ReaderState
  <2>1. CASE reader[r].pc = "caps"
    BY <1>1, <2>1, ReaderFacts DEF IInv, ReaderState
  <2>2. CASE reader[r].pc = "sample"
    BY <1>1, <2>2, ReaderFacts DEF IInv, ReaderState
  <2> QED
    BY <2>1, <2>2 DEF CapsAnswer, Asking
<1>3. reader' \in [Reader -> ReaderState]
  BY <1>2, BecomeType DEF CapsAnswer, IInv
<1>4. UNCHANGED <<cfg, es, changes, grep, catalog, caps, profile>>
  BY DEF CapsAnswer, esVars
<1> QED
  BY <1>3, <1>4, ProfileUnchanged, MountSteps DEF IInv, TypeOK

(* The capabilities that are put into the cache are some.                  *)
LEMMA ObtainedType ==
    ASSUME IInv, NEW r \in Reader, NEW c \in AllCaps, Obtained(r, c)
    PROVE  c \in Caps /\ caps' \in [Index -> {Nil} \cup Caps] /\ reader[r].index \in Index
<1>1. c \in Caps
  BY ConstantsAssumption DEF AllCaps
<1>2. reader[r].index \in Index
  BY ReaderFacts DEF Obtained, IInv
<1> QED
  BY <1>1, <1>2 DEF Obtained, IInv, TypeOK

LEMMA CapsDoneInv ==
    ASSUME IInv, NEW r \in Reader, NEW c \in AllCaps, CapsDone(r, c)
    PROVE  IInv'
<1>1. c \in Caps /\ caps' \in [Index -> {Nil} \cup Caps] /\ reader[r].index \in Index
  BY ObtainedType DEF CapsDone
<1>2. [pc |-> "sample", index |-> reader[r].index, got |-> Nil, caps |-> c] \in ReaderState
  BY <1>1 DEF ReaderState
<1>3. reader' \in [Reader -> ReaderState]
  BY <1>2, BecomeType DEF CapsDone, IInv
<1>4. UNCHANGED <<cfg, es, changes, grep, catalog, profile>>
  BY DEF CapsDone, esVars
<1> QED
  BY <1>1, <1>3, <1>4, ProfileUnchanged, MountSteps DEF IInv, TypeOK

(* A new profile is a digest of the capabilities it keeps.                 *)
LEMMA FinishInv ==
    ASSUME IInv, NEW r \in Reader, reader[r].pc = "sample", Finish(r),
           caps' \in [Index -> {Nil} \cup Caps]
    PROVE  IInv'
<1> DEFINE i == reader[r].index
           c == reader[r].caps
           d == Digest(i, c)
<1>1. i \in Index /\ c \in Caps
  BY ReaderFacts DEF IInv
<1>2. UNCHANGED <<cfg, es, changes, grep, catalog>> /\ cfg \in Configs
  BY DEF Finish, esVars, IInv, TypeOK
<1>3. d \in Profile /\ d.caps = c
  BY <1>1, <1>2, DigestFacts
<1>4. profile' = [profile EXCEPT ![i] = d]
  BY DEF Finish
<1>5. IdleReader \in ReaderState /\ Become(r, IdleReader)
  BY DEF ReaderState, Finish
<1>6. reader' \in [Reader -> ReaderState]
  BY <1>5, BecomeType DEF IInv
<1> HIDE DEF d, c, i
<1>7. profile' \in [Index -> {Nil} \cup Profile]
  BY <1>1, <1>3, <1>4 DEF IInv, TypeOK
<1>8. ProfileInv'
  <2>1. \A j \in Index : profile'[j] # Nil => profile'[j] = Digest(j, profile'[j].caps)
    <3> SUFFICES ASSUME NEW j \in Index, profile'[j] # Nil
                 PROVE  profile'[j] = Digest(j, profile'[j].caps)
      OBVIOUS
    <3>1. CASE j = i
      BY <1>1, <1>3, <1>4, <3>1 DEF IInv, TypeOK, d
    <3>2. CASE j # i
      BY <1>1, <1>4, <3>2 DEF IInv, TypeOK, ProfileInv
    <3> QED
      BY <3>1, <3>2
  <2> QED
    BY <1>2, <2>1, SameConfig DEF ProfileInv
<1> QED
  BY <1>2, <1>6, <1>7, <1>8, MountSteps DEF IInv, TypeOK

LEMMA ReaderStepInv ==
    ASSUME IInv, NEW r \in Reader, ReaderStep(r)
    PROVE  IInv'
<1>1. CASE InfoDone(r)
  BY <1>1, InfoDoneInv
<1>2. CASE RequestFails(r)
  <2>1. IdleReader \in ReaderState
    BY DEF ReaderState
  <2>2. reader' \in [Reader -> ReaderState]
    BY <1>2, <2>1, BecomeType DEF RequestFails, IInv
  <2>3. UNCHANGED <<cfg, es, changes, grep, catalog, caps, profile>>
    BY <1>2 DEF RequestFails, esVars
  <2> QED
    BY <2>2, <2>3, ProfileUnchanged, MountSteps DEF IInv, TypeOK
<1>3. CASE SampleFails(r)
  BY <1>3, FinishInv DEF SampleFails, IInv, TypeOK
<1>4. ASSUME NEW c \in AllCaps, CapsAnswer(r, c) PROVE IInv'
  BY <1>4, CapsAnswerInv
<1>5. ASSUME NEW c \in AllCaps, CapsDone(r, c) PROVE IInv'
  BY <1>5, CapsDoneInv
<1>6. ASSUME NEW c \in AllCaps, SampleDone(r, c) PROVE IInv'
  BY <1>6, FinishInv, ObtainedType DEF SampleDone
<1> QED
  BY <1>1, <1>2, <1>3, <1>4, <1>5, <1>6 DEF ReaderStep

LEMMA ForgetInv ==
    ASSUME IInv,
           \/ ExpireCatalog \/ Remount
           \/ \E i \in Index : ExpireCaps(i) \/ ExpireProfile(i)
    PROVE  IInv'
<1>1. CASE ExpireCatalog
  BY <1>1, ProfileUnchanged, MountSteps DEF ExpireCatalog, esVars, IInv, TypeOK
<1>2. ASSUME NEW i \in Index, ExpireCaps(i) PROVE IInv'
  BY <1>2, ProfileUnchanged, MountSteps DEF ExpireCaps, esVars, IInv, TypeOK
<1>3. ASSUME NEW i \in Index, ExpireProfile(i) PROVE IInv'
  <2>1. UNCHANGED <<cfg, es, changes, grep, catalog, caps, reader>>
    BY <1>3 DEF ExpireProfile, esVars
  <2>2. /\ profile' \in [Index -> {Nil} \cup Profile]
        /\ \A j \in Index : profile'[j] \in {Nil, profile[j]}
    BY <1>3 DEF ExpireProfile, IInv, TypeOK
  <2>3. ProfileInv'
    BY <2>1, <2>2, SameConfig DEF IInv, ProfileInv
  <2> QED
    BY <2>1, <2>2, <2>3, MountSteps DEF IInv, TypeOK
<1>4. CASE Remount
  <2>1. UNCHANGED <<cfg, es, changes, grep>>
    BY <1>4 DEF Remount, esVars
  <2>2. /\ catalog' = Nil /\ caps' \in [Index -> {Nil} \cup Caps]
        /\ profile' \in [Index -> {Nil} \cup Profile]
        /\ reader' \in [Reader -> ReaderState]
    BY <1>4 DEF Remount, ReaderState
  <2>3. ProfileInv'
    BY <1>4 DEF Remount, ProfileInv
  <2> QED
    BY <2>1, <2>2, <2>3, MountSteps DEF IInv, TypeOK
<1> QED
  BY <1>1, <1>2, <1>3, <1>4

LEMMA ChangeInv ==
    ASSUME IInv, NEW i \in Index, NEW m \in Mappings \cup {{}}, Change(i, m)
    PROVE  IInv'
<1>1. UNCHANGED <<cfg, grep, catalog, caps, profile, reader>>
  BY DEF Change, mountVars
<1>2. es' \in [Index -> Mappings \cup {{}}] /\ changes' \in 0 .. MaxChanges
  BY ConstantsAssumption DEF Change, IInv, TypeOK
<1> QED
  BY <1>1, <1>2, ProfileUnchanged, MountSteps DEF IInv, TypeOK

LEMMA InitInv == Init => IInv
<1> SUFFICES ASSUME Init PROVE IInv
  OBVIOUS
<1>1. grep \in GrepState /\ DOMAIN grep.planned = {}
  BY DEF Init, NoGrep, GrepState
<1>2. TypeOK
  BY <1>1, ConstantsAssumption DEF Init, TypeOK, ReaderState
<1>3. PlannedInv /\ PhaseInv /\ ProfileInv
  BY <1>1 DEF Init, NoGrep, PlannedInv, PhaseInv, ProfileInv
<1> QED
  BY <1>2, <1>3 DEF IInv

LEMMA NextInv == IInv /\ [Next]_vars => IInv'
<1> SUFFICES ASSUME IInv, [Next]_vars PROVE IInv'
  OBVIOUS
<1>1. ASSUME NEW i \in Index, NEW m \in Mappings \cup {{}}, Change(i, m) PROVE IInv'
  BY <1>1, ChangeInv
<1>2. ASSUME NEW req \in Requests, RunGrep(req) PROVE IInv'
  BY <1>2, RunGrepInv
<1>3. CASE GrepStep
  BY <1>3, GrepStepInv
<1>4. ASSUME NEW r \in Reader, NEW i \in Index, ReadProfile(r, i) PROVE IInv'
  BY <1>4, ReadProfileInv
<1>5. ASSUME NEW r \in Reader, ReaderStep(r) PROVE IInv'
  BY <1>5, ReaderStepInv
<1>6. CASE \/ ExpireCatalog \/ Remount
           \/ \E i \in Index : ExpireCaps(i) \/ ExpireProfile(i)
  BY <1>6, ForgetInv
<1>7. CASE UNCHANGED vars
  BY <1>7, ProfileUnchanged, MountSteps DEF vars, IInv, TypeOK
<1> QED
  BY <1>1, <1>2, <1>3, <1>4, <1>5, <1>6, <1>7 DEF Next

-----------------------------------------------------------------------------
(* The inductive invariant: every plan is the value of planQuery for what  *)
(* it keeps, every profile that of Digest, and each phase of a grep has    *)
(* done what comes before it.                                              *)
THEOREM Invariance == Spec => []IInv
  BY InitInv, NextInv, PTL DEF Spec

(* Every variable keeps its type; in particular the mode that a search     *)
(* discloses is always one in which an index was searched.                 *)
THEOREM TypeCorrect == Spec => []TypeOK
<1>1. IInv => TypeOK
  BY DEF IInv
<1> QED
  BY <1>1, Invariance, PTL

LEMMA PlansAreRight ==
    ASSUME IInv, NEW k \in DOMAIN grep.planned
    PROVE  LET p == grep.planned[k] IN
           /\ ModeRight(grep.req, p.index, p.caps, p.query)
           /\ SinceRight(grep.req, p.index, p.caps, p.query.timeField)
<1> DEFINE p == grep.planned[k]
<1>1. grep \in GrepState /\ cfg \in Configs
  BY DEF IInv, TypeOK
<1>2. p \in Planned
  BY <1>1 DEF GrepState
<1>3. p.index \in Index /\ p.caps \in Caps
  BY <1>2 DEF Planned
<1>4. grep.req \in Requests
  BY <1>1 DEF IInv, PhaseInv, GrepState
<1>5. p.query = PlanOf(grep.req, p.index, p.caps) /\ p.query.ok
  BY DEF IInv, PlannedInv
<1> HIDE DEF p
<1>6. PlanOf(grep.req, p.index, p.caps).ok
  BY <1>5
<1>7. /\ ModeRight(grep.req, p.index, p.caps, PlanOf(grep.req, p.index, p.caps))
      /\ SinceRight(grep.req, p.index, p.caps, PlanOf(grep.req, p.index, p.caps).timeField)
  BY <1>1, <1>3, <1>4, <1>6, PlanFacts
<1> QED
  BY <1>5, <1>7 DEF p

(* Every index is searched in the mode of the documented precedence, and   *)
(* semantic search never degrades silently (RunGrep, ForIndex, planText).  *)
THEOREM PrecedenceHolds == Spec => []ModeByPrecedence
<1>1. IInv => ModeByPrecedence
  BY PlansAreRight DEF ModeByPrecedence, ModeRight
<1> QED
  BY <1>1, Invariance, PTL

(* A time limit is applied to every index, by a configured date field or   *)
(* the only candidate (planSince, inferTimeField).                         *)
THEOREM TimeLimitsHold == Spec => []SinceRespected
<1>1. IInv => SinceRespected
  BY PlansAreRight DEF SinceRespected, SinceRight
<1> QED
  BY <1>1, Invariance, PTL

(* No hit of a ranked search is printed before every index in its scope    *)
(* has a query (ESClient.Search).                                          *)
THEOREM NothingPrintedEarly == Spec => []NothingPartial
<1>1. IInv => NothingPartial
  <2> SUFFICES ASSUME IInv, grep.printed # {}, ~ Exact(grep.req)
               PROVE  /\ grep.todo = {} /\ grep.label # Unset
                      /\ \A i \in grep.printed \cup (grep.req.scopes \ {Root}) :
                            \E k \in DOMAIN grep.planned : grep.planned[k].index = i
    BY DEF NothingPartial
  <2>1. grep.pc = "stream"
    BY DEF IInv, TypeOK, GrepState, PhaseInv
  <2>2. /\ grep.todo = {} /\ grep.label # Unset
        /\ grep.printed \cup (grep.req.scopes \ {Root}) \subseteq PlannedIndices
    BY <2>1 DEF IInv, PhaseInv
  <2> QED
    BY <2>2 DEF PlannedIndices
<1> QED
  BY <1>1, Invariance, PTL

(* The mode that profile.md states is the one a plain grep would use, of   *)
(* the capabilities the profile was made from (resolveProfileMode).        *)
THEOREM ProfilesAgree == Spec => []ProfileTellsMode
<1>1. IInv => ProfileTellsMode
  <2> SUFFICES ASSUME IInv, NEW i \in Index, profile[i] # Nil
               PROVE  LET q == planText(ForIndex(i).mode, ForIndex(i), profile[i].caps)
                      IN profile[i].mode = IF q.ok THEN q.mode ELSE "refused"
    BY DEF ProfileTellsMode
  <2>1. cfg \in Configs /\ profile[i] \in Profile
    BY DEF IInv, TypeOK
  <2>2. profile[i].caps \in Caps
    BY <2>1 DEF Profile
  <2>3. profile[i] = Digest(i, profile[i].caps)
    BY DEF IInv, ProfileInv
  <2> QED
    BY <2>1, <2>2, <2>3, DigestFacts
<1> QED
  BY <1>1, Invariance, PTL

-----------------------------------------------------------------------------
(* How stale capabilities leave the mount.                                 *)

(* A reader was answered c for index i, or makes a profile of it.          *)
Gets(s, i, c) == s.pc \in {"caps", "sample"} /\ s.index = i /\ s.got = c
Keeps(s, i, c) == s.pc = "sample" /\ s.index = i /\ s.caps = c

Profiled(i, c) == profile[i] # Nil /\ profile[i].caps = c

Descends(i, c) ==
    /\ \A r \in Reader : Gets(reader'[r], i, c) => Gets(reader[r], i, c)
    /\ caps'[i] = c =>
         \/ caps[i] = c
         \/ \E r \in Reader : Gets(reader[r], i, c) /\ ~ Gets(reader'[r], i, c)
    /\ \A r \in Reader : Keeps(reader'[r], i, c) =>
         \/ Keeps(reader[r], i, c)
         \/ reader[r].pc = "caps" /\ (caps[i] = c \/ Gets(reader[r], i, c))
    /\ Profiled(i, c)' =>
         \/ Profiled(i, c)
         \/ \E r \in Reader : Keeps(reader[r], i, c) /\ ~ Keeps(reader'[r], i, c)

(* Capabilities that an index no longer has only move on: from the answers *)
(* under way, of which there are no more, into the cache of capabilities,  *)
(* from either into profiles being made, and from these into the cache of  *)
(* profiles, each hand giving away what it had.  With entries that expire, *)
(* this is all of StaleProfilesLeave that is not about fairness.           *)
(* ESClient.FieldCaps, Generator.IndexProfile                              *)
StaleCapsDescend == [][\A i \in Index : \A c \in Caps \ es[i] : Descends(i, c)]_vars

LEMMA OneReader ==
    ASSUME TypeOK, NEW r \in Reader, NEW p, Become(r, p)
    PROVE  reader'[r] = p /\ \A q \in Reader \ {r} : reader'[q] = reader[q]
  BY DEF TypeOK, Become

(* A reader's step that touches neither cache and brings nothing stale.    *)
LEMMA QuietReader ==
    ASSUME TypeOK, NEW i \in Index, NEW c \in Caps, UNCHANGED <<caps, profile>>,
           NEW r \in Reader, NEW p, Become(r, p),
           Gets(p, i, c) => Gets(reader[r], i, c),
           Keeps(p, i, c) => Keeps(reader[r], i, c)
    PROVE  Descends(i, c)
<1>1. \A q \in Reader : /\ Gets(reader'[q], i, c) => Gets(reader[q], i, c)
                        /\ Keeps(reader'[q], i, c) => Keeps(reader[q], i, c)
  BY OneReader
<1> QED
  BY <1>1 DEF Descends, Profiled

LEMMA IdleHasNothing == \A i, c : ~ Gets(IdleReader, i, c) /\ ~ Keeps(IdleReader, i, c)
  BY DEF Gets, Keeps, IdleReader

LEMMA NoNil == \A c \in Caps : c # Nil
  BY ConstantsAssumption

(* Reading begins with nothing, and capabilities that Elasticsearch gives  *)
(* are not stale yet.                                                      *)
LEMMA AsksDescend ==
    ASSUME TypeOK, NEW i \in Index, NEW c \in Caps \ es[i], NEW r \in Reader,
           \/ \E j \in Index : ReadProfile(r, j)
           \/ InfoDone(r) \/ RequestFails(r)
           \/ \E d \in AllCaps : CapsAnswer(r, d)
    PROVE  Descends(i, c)
<1>1. ASSUME NEW j \in Index, ReadProfile(r, j) PROVE Descends(i, c)
  <2> DEFINE p == [pc |-> "info", index |-> j]
  <2>1. Become(r, p) /\ UNCHANGED <<caps, profile>>
    BY <1>1 DEF ReadProfile
  <2>2. ~ Gets(p, i, c) /\ ~ Keeps(p, i, c)
    BY DEF Gets, Keeps
  <2> HIDE DEF p
  <2> QED
    BY <2>1, <2>2, QuietReader
<1>2. CASE InfoDone(r)
  <2> DEFINE q == [pc |-> "caps", index |-> reader[r].index, got |-> Nil]
  <2>1. (Become(r, q) \/ Become(r, IdleReader)) /\ UNCHANGED <<caps, profile>>
    BY <1>2 DEF InfoDone
  <2>2. ~ Gets(q, i, c) /\ ~ Keeps(q, i, c)
    BY NoNil DEF Gets, Keeps
  <2> HIDE DEF q
  <2> QED
    BY <2>1, <2>2, QuietReader, IdleHasNothing
<1>3. CASE RequestFails(r)
  BY <1>3, QuietReader, IdleHasNothing DEF RequestFails
<1>4. ASSUME NEW d \in AllCaps, CapsAnswer(r, d) PROVE Descends(i, c)
  <2> DEFINE p == [reader[r] EXCEPT !.got = d]
  <2>1. /\ Become(r, p) /\ UNCHANGED <<caps, profile>>
        /\ d \in es[reader[r].index] /\ reader[r].pc \in {"caps", "sample"}
    BY <1>4 DEF CapsAnswer, Asking
  <2>2. /\ p.index = reader[r].index /\ p.got = d /\ p.pc = reader[r].pc
        /\ p.pc = "sample" => p.caps = reader[r].caps
    BY <2>1, ReaderFacts
  <2> HIDE DEF p
  <2>3. ~ Gets(p, i, c) /\ (Keeps(p, i, c) => Keeps(reader[r], i, c))
    BY <2>1, <2>2 DEF Gets, Keeps
  <2> QED
    BY <2>1, <2>3, QuietReader
<1> QED
  BY <1>1, <1>2, <1>3, <1>4

(* What enters the cache of capabilities was an answer.                    *)
LEMMA ObtainedFrom ==
    ASSUME TypeOK, NEW i \in Index, NEW c \in Caps, NEW r \in Reader, NEW d \in AllCaps,
           Obtained(r, d), caps'[i] = c
    PROVE  caps[i] = c \/ Gets(reader[r], i, c)
<1>1. CASE UNCHANGED caps
  BY <1>1
<1>2. CASE reader[r].got = d /\ caps' = [caps EXCEPT ![reader[r].index] = d]
  BY <1>2 DEF TypeOK, Obtained, Gets
<1> QED
  BY <1>1, <1>2 DEF Obtained

LEMMA CapsDoneDescends ==
    ASSUME TypeOK, NEW i \in Index, NEW c \in Caps, NEW r \in Reader, NEW d \in AllCaps,
           CapsDone(r, d)
    PROVE  Descends(i, c)
<1> DEFINE p == [pc |-> "sample", index |-> reader[r].index, got |-> Nil, caps |-> d]
<1>1. /\ reader[r].pc = "caps" /\ Obtained(r, d) /\ Become(r, p) /\ UNCHANGED profile
  BY DEF CapsDone
<1>2. p.index = reader[r].index /\ p.got = Nil /\ p.caps = d
  OBVIOUS
<1> HIDE DEF p
<1>3. reader'[r] = p /\ \A q \in Reader \ {r} : reader'[q] = reader[q]
  BY <1>1, OneReader
<1>4. ~ Gets(p, i, c)
  BY <1>2, NoNil DEF Gets
<1>5. \A q \in Reader : Gets(reader'[q], i, c) => Gets(reader[q], i, c)
  BY <1>3, <1>4
<1>6. caps'[i] = c => caps[i] = c \/ (Gets(reader[r], i, c) /\ ~ Gets(reader'[r], i, c))
  BY <1>1, <1>3, <1>4, ObtainedFrom
<1>7. Keeps(p, i, c) => caps[i] = c \/ Gets(reader[r], i, c)
  <2> SUFFICES ASSUME Keeps(p, i, c) PROVE caps[i] = c \/ Gets(reader[r], i, c)
    OBVIOUS
  <2>1. reader[r].index = i /\ d = c
    BY <1>2 DEF Keeps
  <2>2. caps[i] = c \/ reader[r].got = c
    BY <1>1, <2>1 DEF Obtained
  <2> QED
    BY <1>1, <2>1, <2>2 DEF Gets
<1>8. \A q \in Reader : Keeps(reader'[q], i, c) =>
         \/ Keeps(reader[q], i, c)
         \/ reader[q].pc = "caps" /\ (caps[i] = c \/ Gets(reader[q], i, c))
  BY <1>1, <1>3, <1>7
<1>9. Profiled(i, c)' => Profiled(i, c)
  BY <1>1 DEF Profiled
<1> QED
  BY <1>5, <1>6, <1>8, <1>9 DEF Descends

(* A profile is made of what its reader kept.                              *)
LEMMA FinishDescends ==
    ASSUME TypeOK, NEW i \in Index, NEW c \in Caps, NEW r \in Reader,
           reader[r].pc = "sample", Finish(r),
           caps'[i] = c => caps[i] = c \/ Gets(reader[r], i, c)
    PROVE  Descends(i, c)
<1> DEFINE j == reader[r].index
           d == Digest(j, reader[r].caps)
<1>1. j \in Index /\ reader[r].caps \in Caps
  BY ReaderFacts
<1>2. profile' = [profile EXCEPT ![j] = d] /\ Become(r, IdleReader)
  BY DEF Finish
<1>3. d.caps = reader[r].caps
  BY DEF Digest
<1> HIDE DEF d
<1>4. reader'[r] = IdleReader /\ \A q \in Reader \ {r} : reader'[q] = reader[q]
  BY <1>2, OneReader
<1>5. ~ Gets(reader'[r], i, c) /\ ~ Keeps(reader'[r], i, c)
  BY <1>4, IdleHasNothing
<1>6. \A q \in Reader : /\ Gets(reader'[q], i, c) => Gets(reader[q], i, c)
                        /\ Keeps(reader'[q], i, c) => Keeps(reader[q], i, c)
  BY <1>4, <1>5
<1>7. Profiled(i, c)' => Profiled(i, c) \/ Keeps(reader[r], i, c)
  <2>1. CASE j = i
    <3>1. profile'[i] = d
      BY <1>1, <1>2, <2>1 DEF TypeOK
    <3> QED
      BY <1>3, <2>1, <3>1 DEF Profiled, Keeps
  <2>2. CASE j # i
    <3>1. profile'[i] = profile[i]
      BY <1>1, <1>2, <2>2 DEF TypeOK
    <3> QED
      BY <3>1 DEF Profiled
  <2> QED
    BY <2>1, <2>2
<1> QED
  BY <1>5, <1>6, <1>7 DEF Descends

(* Whatever forgets, brings nothing.                                       *)
LEMMA ForgettingDescends ==
    ASSUME TypeOK, NEW i \in Index, NEW c \in Caps,
           \/ ExpireCatalog \/ Remount
           \/ \E j \in Index : ExpireCaps(j) \/ ExpireProfile(j)
    PROVE  Descends(i, c)
<1>1. CASE Remount
  <2>1. /\ caps'[i] = Nil /\ profile'[i] = Nil
        /\ \A r \in Reader : reader'[r] = IdleReader
    BY <1>1 DEF Remount
  <2> QED
    BY <2>1, IdleHasNothing, NoNil DEF Descends, Profiled
<1>2. ASSUME NEW j \in Index, ExpireCaps(j) PROVE Descends(i, c)
  <2>1. UNCHANGED <<reader, profile>> /\ (caps'[i] = Nil \/ caps'[i] = caps[i])
    BY <1>2 DEF ExpireCaps, TypeOK
  <2> QED
    BY <2>1, NoNil DEF Descends, Profiled
<1>3. ASSUME NEW j \in Index, ExpireProfile(j) PROVE Descends(i, c)
  <2>1. UNCHANGED <<reader, caps>> /\ (profile'[i] = Nil \/ profile'[i] = profile[i])
    BY <1>3 DEF ExpireProfile, TypeOK
  <2> QED
    BY <2>1 DEF Descends, Profiled
<1>4. CASE ExpireCatalog
  BY <1>4 DEF ExpireCatalog, Descends, Profiled
<1> QED
  BY <1>1, <1>2, <1>3, <1>4

(* Stale capabilities, and the profiles made of them, are used up: for any *)
(* number of readers, mappings and changes of them.                        *)
THEOREM StaleCapsAlwaysDescend == Spec => StaleCapsDescend
<1>1. ASSUME TypeOK, [Next]_vars, NEW i \in Index, NEW c \in Caps \ es[i]
      PROVE  Descends(i, c)
  <2>1. CASE UNCHANGED <<caps, profile, reader>>
    BY <2>1 DEF Descends, Profiled
  <2>2. ASSUME NEW r \in Reader, ReaderStep(r) PROVE Descends(i, c)
    <3>1. CASE InfoDone(r) \/ RequestFails(r) \/ \E d \in AllCaps : CapsAnswer(r, d)
      BY <1>1, <3>1, AsksDescend
    <3>2. ASSUME NEW d \in AllCaps, CapsDone(r, d) PROVE Descends(i, c)
      BY <1>1, <3>2, CapsDoneDescends
    <3>3. ASSUME NEW d \in AllCaps, SampleDone(r, d) PROVE Descends(i, c)
      <4>1. reader[r].pc = "sample" /\ Obtained(r, d) /\ Finish(r)
        BY <3>3 DEF SampleDone
      <4>2. caps'[i] = c => caps[i] = c \/ Gets(reader[r], i, c)
        BY <1>1, <4>1, ObtainedFrom
      <4> QED
        BY <1>1, <4>1, <4>2, FinishDescends
    <3>4. CASE SampleFails(r)
      <4>1. reader[r].pc = "sample" /\ Finish(r) /\ UNCHANGED caps
        BY <3>4 DEF SampleFails
      <4> QED
        BY <1>1, <4>1, FinishDescends
    <3> QED
      BY <2>2, <3>1, <3>2, <3>3, <3>4 DEF ReaderStep
  <2>3. ASSUME NEW r \in Reader, NEW j \in Index, ReadProfile(r, j) PROVE Descends(i, c)
    BY <1>1, <2>3, AsksDescend
  <2>4. CASE \/ ExpireCatalog \/ Remount
             \/ \E j \in Index : ExpireCaps(j) \/ ExpireProfile(j)
    BY <1>1, <2>4, ForgettingDescends
  <2>5. ASSUME NEW j \in Index, NEW m \in Mappings \cup {{}}, Change(j, m)
        PROVE  UNCHANGED <<caps, profile, reader>>
    BY <2>5 DEF Change, mountVars
  <2>6. ASSUME NEW req \in Requests, RunGrep(req) PROVE UNCHANGED <<caps, profile, reader>>
    BY <2>6 DEF RunGrep, Step, mountVars
  <2>7. CASE GrepStep
    <3>1. PICK f : Step(f)
      BY <2>7 DEF GrepStep, ScopeDone, ScopeFailed, PlanDone, PlanFailed, Disclose,
                  StreamIndex, StreamEnd, ExactIndex, ExactEnd, Exit
    <3> QED
      BY <2>1, <3>1 DEF Step, mountVars
  <2> QED
    BY <1>1, <2>1, <2>2, <2>3, <2>4, <2>5, <2>6, <2>7 DEF Next, vars
<1>2. IInv => TypeOK
  BY DEF IInv
<1>3. TypeOK /\ [Next]_vars => [\A i \in Index : \A c \in Caps \ es[i] : Descends(i, c)]_vars
  BY <1>1
<1> QED
  BY <1>2, <1>3, Invariance, PTL DEF Spec, StaleCapsDescend
=============================================================================
