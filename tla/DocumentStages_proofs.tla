----------------------- MODULE DocumentStages_proofs -----------------------
(***************************************************************************)
(* Proofs about DocumentStages for every number of documents and runs,     *)
(* every set of garbage scores and every value of the bounds.              *)
(***************************************************************************)
EXTENDS DocumentStages, WellFoundedInduction, TLAPS

(***************************************************************************)
(* Facts about the constants and about the selection of documents.         *)
(***************************************************************************)

\* The order of the stages.
LEMMA RankValues ==
    /\ Stages = {"", "triaged", "reocr_done", "metadata_done"}
    /\ Rank[""] = 0 /\ Rank["triaged"] = 1
    /\ Rank["reocr_done"] = 2 /\ Rank["metadata_done"] = 3
BY DEF Stages, Rank

\* The same as numbers (the SMT backend cannot take the empty string).
LEMMA RankNumbers ==
    /\ Rank["triaged"] = 1 /\ Rank["reocr_done"] = 2 /\ Rank["metadata_done"] = 3
    /\ \A x \in Stages : Rank[x] \in {0, 1, 2, 3}
    /\ \A x \in Stages : x # "metadata_done" => Rank[x] \in {0, 1, 2}
BY RankValues, Zenon

\* The stages of a run.
LEMMA StageNames ==
    /\ Enabled \subseteq RunStages
    /\ Billable \subseteq RunStages
    /\ \A s : StagesAfter(s) \subseteq RunStages
BY StagesAssumption DEF RunStages, Billable, StagesAfter

\* Limiting a set takes nothing in.
LEMMA FirstOfShrinks == ASSUME NEW S PROVE FirstOf(S) \subseteq S
BY DEF FirstOf

\* What a queued document looks like on the server.
LEMMA QueueFacts ==
    ASSUME TypeOK, NEW s \in RunStages, NEW t, NEW d \in Queue(s, t)
    PROVE  /\ d \in Docs /\ docs[d].present /\ docs[d] \in DocRecord
           /\ s = "triage" => Retriage \/ ~AlreadyTriaged(docs[d])
           /\ s = "reocr" => ReocrMatches(docs[d])
           /\ s = "metadata" => MetadataEligible(docs[d])
<1> DEFINE listed == {e \in Docs : docs[e].present /\ t \in {0, e}}
<1>1. /\ FirstOf(listed) \subseteq listed
      /\ FirstOf({e \in listed : ReocrMatches(docs[e])})
            \subseteq {e \in listed : ReocrMatches(docs[e])}
      /\ FirstOf({e \in listed : MetadataEligible(docs[e])})
            \subseteq {e \in listed : MetadataEligible(docs[e])}
  BY FirstOfShrinks
<1>2. d \in listed
  BY <1>1 DEF Queue, RunStages
<1>3. /\ s = "triage" => Retriage \/ ~AlreadyTriaged(docs[d])
      /\ s = "reocr" => ReocrMatches(docs[d])
      /\ s = "metadata" => MetadataEligible(docs[d])
  BY <1>1 DEF Queue, RunStages
<1> QED
  BY <1>2, <1>3 DEF TypeOK

\* A score in hundredths stays a number when it is coerced.
LEMMA CoerceType == ASSUME NEW q \in Int PROVE Coerce(q) \in Int
BY DEF Coerce

\* A new document is a document.
LEMMA NewDocType ==
    ASSUME NEW present \in BOOLEAN, NEW q \in Qualities
    PROVE  /\ NewDoc(present, q) \in DocRecord
           /\ NewDoc(present, q).present = present
           /\ NewDoc(present, q).stage = ""
           /\ NewDoc(present, q).tags = {}
<1>1. NoScore \in Int
  BY DEF NoScore
<1>2. "" \in Stages
  BY RankValues
<1> QED
  BY <1>1, <1>2 DEF NewDoc, DocRecord

\* A document with parts of it PATCHed.
Patched(old, stage, score, tags, user) ==
    [old EXCEPT !.stage = stage, !.score = score, !.tags = tags, !.user = user]
Triaged(old, stage, score, user) ==
    [old EXCEPT !.stage = stage, !.score = score, !.user = user]
Retagged(old, tags, user) == [old EXCEPT !.tags = tags, !.user = user]

\* What PATCHing parts of a document leaves alone.
LEMMA PatchedDoc ==
    ASSUME NEW old \in DocRecord, NEW stage \in Stages, NEW score \in Int,
           NEW tags \in SUBSET {"superseded", "extracted"},
           NEW user \in SUBSET {"tag", "field"},
           NEW new, new = Patched(old, stage, score, tags, user)
    PROVE  /\ new \in DocRecord
           /\ new.present = old.present /\ new.quality = old.quality
           /\ new.stage = stage /\ new.score = score
           /\ new.tags = tags /\ new.user = user
<1>1. old = [present |-> old.present, quality |-> old.quality,
             stage |-> old.stage, score |-> old.score,
             tags |-> old.tags, user |-> old.user]
  BY Zenon DEF DocRecord
<1>2. new = [present |-> old.present, quality |-> old.quality, stage |-> stage,
             score |-> score, tags |-> tags, user |-> user]
  BY <1>1 DEF Patched
<1> QED
  BY <1>2 DEF DocRecord

\* The same for a PATCH that leaves the tags alone.
LEMMA TriagedDoc ==
    ASSUME NEW old \in DocRecord, NEW stage \in Stages, NEW score \in Int,
           NEW user \in SUBSET {"tag", "field"},
           NEW new, new = Triaged(old, stage, score, user)
    PROVE  /\ new \in DocRecord
           /\ new.present = old.present /\ new.quality = old.quality
           /\ new.stage = stage /\ new.score = score
           /\ new.tags = old.tags /\ new.user = user
<1>1. old = [present |-> old.present, quality |-> old.quality,
             stage |-> old.stage, score |-> old.score,
             tags |-> old.tags, user |-> old.user]
  BY Zenon DEF DocRecord
<1>2. new = [present |-> old.present, quality |-> old.quality, stage |-> stage,
             score |-> score, tags |-> old.tags, user |-> user]
  BY <1>1 DEF Triaged
<1> QED
  BY <1>2 DEF DocRecord

\* The same for an edit by the user.
LEMMA EditedDoc ==
    ASSUME NEW old \in DocRecord, NEW user \in SUBSET {"tag", "field"},
           NEW new, new = [old EXCEPT !.user = user]
    PROVE  /\ new \in DocRecord
           /\ new.present = old.present /\ new.quality = old.quality
           /\ new.stage = old.stage /\ new.score = old.score
           /\ new.tags = old.tags
<1>1. old = [present |-> old.present, quality |-> old.quality,
             stage |-> old.stage, score |-> old.score,
             tags |-> old.tags, user |-> old.user]
  BY Zenon DEF DocRecord
<1>2. new = [present |-> old.present, quality |-> old.quality,
             stage |-> old.stage, score |-> old.score,
             tags |-> old.tags, user |-> user]
  BY <1>1
<1> QED
  BY <1>2 DEF DocRecord

\* The same for the tags an upload sets.
LEMMA RetaggedDoc ==
    ASSUME NEW old \in DocRecord, NEW tags \in SUBSET {"superseded", "extracted"},
           NEW user \in SUBSET {"tag", "field"},
           NEW new, new = Retagged(old, tags, user)
    PROVE  /\ new \in DocRecord
           /\ new.present = old.present /\ new.quality = old.quality
           /\ new.stage = old.stage /\ new.tags = tags
<1>1. old = [present |-> old.present, quality |-> old.quality,
             stage |-> old.stage, score |-> old.score,
             tags |-> old.tags, user |-> old.user]
  BY Zenon DEF DocRecord
<1>2. new = [present |-> old.present, quality |-> old.quality,
             stage |-> old.stage, score |-> old.score,
             tags |-> tags, user |-> user]
  BY <1>1 DEF Retagged
<1> QED
  BY <1>2 DEF DocRecord

(***************************************************************************)
(* Type correctness.                                                       *)
(***************************************************************************)

\* A document that is being worked on has a copy, belongs to a running stage
\* and, once uploaded, has a successor.
Held ==
    \A r \in Runners, d \in Docs :
        /\ step[r][d] # "out" => /\ pc[r] # "idle"
                                 /\ view[r][d] \in DocRecord
        /\ step[r][d] \in {"uploaded", "carried"} => copy[r][d] \in Docs
        /\ step[r][d] \in InHand => pc[r] \in Billable

TypeInv == TypeOK /\ Held

\* What a run has in hand stays as it is, or is dropped.
DropOnly ==
    \A r \in Runners, d \in Docs :
        \/ step'[r][d] = "out"
        \/ /\ step'[r][d] = step[r][d]
           /\ view'[r][d] = view[r][d]
           /\ copy'[r][d] = copy[r][d]
           /\ pc'[r] = pc[r]
           /\ dry'[r] = dry[r]

\* The variables of a run keep their types.
RunTypeOK ==
    /\ pc \in [Runners -> {"idle"} \cup RunStages]
    /\ target \in [Runners -> 0..NDocs]
    /\ dry \in [Runners -> BOOLEAN]
    /\ stopped \in BOOLEAN
    /\ view \in [Runners -> [Docs -> DocRecord \cup {NoCopy}]]
    /\ step \in [Runners -> [Docs -> Steps]]
    /\ copy \in [Runners -> [Docs -> 0..NDocs]]

\* Dropping work keeps Held.
LEMMA DropKeepsHeld ==
    ASSUME Held, DropOnly PROVE Held'
BY DEF Held, DropOnly, InHand

\* Leaving a document drops it.
LEMMA LeaveDrops ==
    ASSUME TypeOK, NEW r \in Runners, NEW d \in Docs, Leave(r, d),
           UNCHANGED <<pc, target, dry, stopped>>
    PROVE  DropOnly /\ RunTypeOK' /\ step'[r][d] = "out"
<1>1. /\ step' \in [Runners -> [Docs -> Steps]]
      /\ view' \in [Runners -> [Docs -> DocRecord \cup {NoCopy}]]
      /\ copy' \in [Runners -> [Docs -> 0..NDocs]]
  BY StagesAssumption DEF Leave, TypeOK, Steps
<1>2. DropOnly /\ step'[r][d] = "out"
  BY DEF Leave, TypeOK, DropOnly
<1> QED
  BY <1>1, <1>2 DEF TypeOK, RunTypeOK

\* A run that dies drops everything.
LEMMA DeathDrops ==
    ASSUME TypeOK, NEW r \in Runners, RunDies(r)
    PROVE  DropOnly /\ RunTypeOK'
<1>1. /\ pc' \in [Runners -> {"idle"} \cup RunStages]
      /\ target' \in [Runners -> 0..NDocs]
      /\ dry' \in [Runners -> BOOLEAN]
      /\ stopped' \in BOOLEAN
  BY StagesAssumption DEF RunDies, TypeOK
<1>2. /\ view' \in [Runners -> [Docs -> DocRecord \cup {NoCopy}]]
      /\ step' \in [Runners -> [Docs -> Steps]]
      /\ copy' \in [Runners -> [Docs -> 0..NDocs]]
  BY StagesAssumption DEF RunDies, TypeOK, NoCopies, AllOut, Nothing, Steps
<1>3. DropOnly
  BY DEF RunDies, TypeOK, DropOnly, AllOut
<1> QED
  BY <1>1, <1>2, <1>3 DEF RunTypeOK

\* A rejecting provider makes the run drop what it has not begun.
LEMMA RejectionDrops ==
    ASSUME TypeOK, NEW r \in Runners, NEW account \in BOOLEAN,
           ProviderRejects(r, account)
    PROVE  DropOnly /\ RunTypeOK'
<1>1. /\ view' \in [Runners -> [Docs -> DocRecord \cup {NoCopy}]]
      /\ step' \in [Runners -> [Docs -> Steps]]
  BY DEF ProviderRejects, TypeOK, Steps
<1>2. DropOnly
  BY DEF ProviderRejects, TypeOK, DropOnly
<1> QED
  BY <1>1, <1>2 DEF ProviderRejects, TypeOK, RunTypeOK

\* Moving on with a document that is being worked on.
LEMMA MoveHolds ==
    ASSUME TypeInv, NEW r \in Runners, NEW d \in Docs,
           step[r][d] # "out", NEW label \in Steps,
           label \in InHand => pc[r] \in Billable,
           label # "out", label \in {"uploaded", "carried"} => copy[r][d] \in Docs,
           MoveTo(r, d, label), UNCHANGED <<pc, target, dry, stopped>>
    PROVE  RunTypeOK' /\ Held'
<1>1. /\ step' \in [Runners -> [Docs -> Steps]]
      /\ step'[r][d] = label
      /\ \A q \in Runners, e \in Docs :
            ~(q = r /\ e = d) => step'[q][e] = step[q][e]
  BY DEF MoveTo, TypeInv, TypeOK
<1>2. RunTypeOK'
  BY <1>1 DEF MoveTo, TypeInv, TypeOK, RunTypeOK
<1>3. Held'
  BY <1>1 DEF MoveTo, TypeInv, Held
<1> QED
  BY <1>2, <1>3

\* Entering a stage fetches copies of its queue.
LEMMA EnterHolds ==
    ASSUME TypeInv, NEW r \in Runners, NEW s \in RunStages, NEW t,
           EnterStage(r, s, t),
           target' \in [Runners -> 0..NDocs], dry' \in [Runners -> BOOLEAN],
           stopped' \in BOOLEAN
    PROVE  /\ RunTypeOK' /\ Held'
           /\ pc'[r] = s
           /\ \A q \in Runners : q # r => pc'[q] = pc[q]
           /\ \A d \in Docs : step'[r][d] # "out" =>
                 step'[r][d] = "queued" /\ d \in Queue(s, t) /\ view'[r][d] = docs[d]
           /\ \A q \in Runners, d \in Docs : q # r =>
                 /\ step'[q][d] = step[q][d]
                 /\ view'[q][d] = view[q][d]
<1>1. /\ pc' \in [Runners -> {"idle"} \cup RunStages]
      /\ pc'[r] = s
      /\ \A q \in Runners : q # r => pc'[q] = pc[q]
      /\ copy' = copy
  BY DEF EnterStage, TypeInv, TypeOK
<1>2. /\ step' \in [Runners -> [Docs -> Steps]]
      /\ \A d \in Docs : step'[r][d] =
            (IF d \in Queue(s, t) THEN "queued" ELSE "out")
      /\ \A q \in Runners : q # r => step'[q] = step[q]
  BY DEF EnterStage, TypeInv, TypeOK, Steps
<1>3. /\ view' \in [Runners -> [Docs -> DocRecord \cup {NoCopy}]]
      /\ \A d \in Docs : view'[r][d] =
            (IF d \in Queue(s, t) THEN docs[d] ELSE NoCopy)
      /\ \A q \in Runners : q # r => view'[q] = view[q]
  BY DEF EnterStage, TypeInv, TypeOK
<1>4. RunTypeOK'
  BY <1>1, <1>2, <1>3 DEF RunTypeOK, TypeInv, TypeOK
<1>5. Held'
  <2> SUFFICES ASSUME NEW q \in Runners, NEW d \in Docs
      PROVE /\ step'[q][d] # "out" => /\ pc'[q] # "idle"
                                      /\ view'[q][d] \in DocRecord
            /\ step'[q][d] \in {"uploaded", "carried"} => copy'[q][d] \in Docs
            /\ step'[q][d] \in InHand => pc'[q] \in Billable
    BY DEF Held, InHand
  <2>1. CASE q = r
    <3>1. docs[d] \in DocRecord /\ s # "idle"
      BY DEF TypeInv, TypeOK, RunStages
    <3> QED
      BY <2>1, <3>1, <1>1, <1>2, <1>3 DEF InHand
  <2>2. CASE q # r
    BY <2>2, <1>1, <1>2, <1>3 DEF TypeInv, Held
  <2> QED
    BY <2>1, <2>2
<1> QED
  BY <1>1, <1>2, <1>3, <1>4, <1>5

(***************************************************************************)
(* What the actions do to the documents.                                   *)
(***************************************************************************)

\* A PATCH of document x that makes it new.
LEMMA PatchEffect ==
    ASSUME TypeOK, NEW x \in Docs, NEW new \in DocRecord, Patch(x, new)
    PROVE  /\ docs' \in [Docs -> DocRecord]
           /\ docs'[x] = new
           /\ \A e \in Docs : e # x => docs'[e] = docs[e]
BY DEF Patch, TypeOK

\* The copy a worker holds, and the document itself, are documents.
LEMMA InWork ==
    ASSUME TypeInv, NEW r \in Runners, NEW d \in Docs, step[r][d] # "out"
    PROVE  /\ docs[d] \in DocRecord /\ view[r][d] \in DocRecord
           /\ view[r][d].quality \in Int /\ view[r][d].score \in Int
           /\ view[r][d].tags \in SUBSET {"superseded", "extracted"}
           /\ view[r][d].user \in SUBSET {"tag", "field"}
           /\ docs[d].user \in SUBSET {"tag", "field"}
<1>1. docs[d] \in DocRecord /\ view[r][d] \in DocRecord
  BY DEF TypeInv, TypeOK, Held
<1>2. Qualities \subseteq Int
  BY StagesAssumption
<1> QED
  BY <1>1, <1>2 DEF DocRecord

\* What the triage PATCH leaves in the document.
LEMMA WriteTriageEffect ==
    ASSUME TypeInv, NEW r \in Runners, NEW d \in Docs, WriteTriage(r, d)
    PROVE  /\ docs' \in [Docs -> DocRecord]
           /\ \A e \in Docs : e # d => docs'[e] = docs[e]
           /\ docs'[d].present = docs[d].present
           /\ docs'[d].quality = docs[d].quality
           /\ docs'[d].stage = "triaged"
           /\ docs'[d].score = Coerce(view[r][d].quality)
           /\ docs'[d].tags = docs[d].tags
<1> DEFINE user == (docs[d].user \ {"field"}) \cup (view[r][d].user \cap {"field"})
           new == Triaged(docs[d], "triaged", Coerce(view[r][d].quality), user)
<1>1. step[r][d] # "out"
  BY DEF WriteTriage, At
<1>2. user \in SUBSET {"tag", "field"}
  BY <1>1, InWork
<1>3. "triaged" \in Stages /\ Coerce(view[r][d].quality) \in Int
  BY <1>1, InWork, CoerceType, RankValues
<1>4. docs[d] \in DocRecord
  BY <1>1, InWork
<1>5. Patch(d, new)
  BY DEF WriteTriage, Triaged
<1> HIDE DEF user
<1>6. /\ new \in DocRecord
      /\ new.present = docs[d].present /\ new.quality = docs[d].quality
      /\ new.stage = "triaged" /\ new.score = Coerce(view[r][d].quality)
      /\ new.tags = docs[d].tags
  BY <1>2, <1>3, <1>4, TriagedDoc
<1> HIDE DEF new
<1> QED
  BY <1>5, <1>6, PatchEffect DEF TypeInv

\* What the metadata PATCH leaves in the document.
LEMMA WriteMetadataEffect ==
    ASSUME TypeInv, NEW r \in Runners, NEW d \in Docs, WriteMetadata(r, d)
    PROVE  /\ docs' \in [Docs -> DocRecord]
           /\ \A e \in Docs : e # d => docs'[e] = docs[e]
           /\ docs'[d].present = docs[d].present
           /\ docs'[d].quality = docs[d].quality
           /\ docs'[d].stage = "metadata_done"
           /\ docs'[d].tags = view[r][d].tags \cup {"extracted"}
<1> DEFINE tags == view[r][d].tags \cup {"extracted"}
           new == Patched(docs[d], "metadata_done", view[r][d].score, tags,
                          view[r][d].user)
<1>1. step[r][d] # "out"
  BY DEF WriteMetadata, At
<1>2. tags \in SUBSET {"superseded", "extracted"}
  BY <1>1, InWork
<1>3. "metadata_done" \in Stages
  BY RankValues
<1>4. /\ docs[d] \in DocRecord
      /\ view[r][d].score \in Int /\ view[r][d].user \in SUBSET {"tag", "field"}
  BY <1>1, InWork
<1>5. Patch(d, new)
  BY DEF WriteMetadata, Patched
<1> HIDE DEF tags
<1>6. /\ new \in DocRecord
      /\ new.present = docs[d].present /\ new.quality = docs[d].quality
      /\ new.stage = "metadata_done" /\ new.tags = tags
  BY <1>2, <1>3, <1>4, PatchedDoc
<1> HIDE DEF new
<1>7. /\ docs' \in [Docs -> DocRecord] /\ docs'[d] = new
      /\ \A e \in Docs : e # d => docs'[e] = docs[e]
  BY <1>5, <1>6, PatchEffect DEF TypeInv
<1> QED
  BY <1>6, <1>7 DEF tags

\* What superseding the old document leaves in it.
LEMMA MarkSupersededEffect ==
    ASSUME TypeInv, NEW r \in Runners, NEW d \in Docs, MarkSuperseded(r, d)
    PROVE  /\ docs' \in [Docs -> DocRecord]
           /\ \A e \in Docs : e # d => docs'[e] = docs[e]
           /\ docs'[d].present = docs[d].present
           /\ docs'[d].quality = docs[d].quality
           /\ docs'[d].stage = "reocr_done"
<1> DEFINE tags == view[r][d].tags \cup {"superseded"}
           new == Patched(docs[d], "reocr_done", view[r][d].score, tags,
                          view[r][d].user)
<1>1. step[r][d] # "out"
  BY DEF MarkSuperseded, At
<1>2. tags \in SUBSET {"superseded", "extracted"}
  BY <1>1, InWork
<1>3. "reocr_done" \in Stages
  BY RankValues
<1>4. /\ docs[d] \in DocRecord
      /\ view[r][d].score \in Int /\ view[r][d].user \in SUBSET {"tag", "field"}
  BY <1>1, InWork
<1>5. Patch(d, new)
  BY DEF MarkSuperseded, Patched
<1> HIDE DEF tags
<1>6. /\ new \in DocRecord
      /\ new.present = docs[d].present /\ new.quality = docs[d].quality
      /\ new.stage = "reocr_done"
  BY <1>2, <1>3, <1>4, PatchedDoc
<1> HIDE DEF new
<1> QED
  BY <1>5, <1>6, PatchEffect DEF TypeInv

\* What the PATCH of the uploaded copy leaves in the copy.
LEMMA CarryOverEffect ==
    ASSUME TypeInv, NEW r \in Runners, NEW d \in Docs, CarryOver(r, d)
    PROVE  /\ docs' \in [Docs -> DocRecord]
           /\ copy[r][d] \in Docs
           /\ \A e \in Docs : e # copy[r][d] => docs'[e] = docs[e]
           /\ docs'[copy[r][d]].present = docs[copy[r][d]].present
           /\ docs'[copy[r][d]].quality = docs[copy[r][d]].quality
           /\ docs'[copy[r][d]].stage = "reocr_done"
           /\ docs'[copy[r][d]].tags = docs[copy[r][d]].tags
<1> DEFINE c == copy[r][d]
           user == docs[c].user \ {"field"}
           new == Triaged(docs[c], "reocr_done", view[r][d].score, user)
<1>1. step[r][d] = "uploaded"
  BY DEF CarryOver, At
<1>2. c \in Docs
  BY <1>1 DEF TypeInv, Held
<1>3. docs[c] \in DocRecord /\ view[r][d].score \in Int
  BY <1>1, <1>2, InWork DEF TypeInv, TypeOK
<1>4. user \in SUBSET {"tag", "field"}
  BY <1>3 DEF DocRecord
<1>5. "reocr_done" \in Stages
  BY RankValues
<1>6. Patch(c, new)
  BY DEF CarryOver, Triaged
<1> HIDE DEF user
<1>7. /\ new \in DocRecord
      /\ new.present = docs[c].present /\ new.quality = docs[c].quality
      /\ new.stage = "reocr_done" /\ new.tags = docs[c].tags
  BY <1>3, <1>4, <1>5, TriagedDoc
<1> HIDE DEF new
<1> QED
  BY <1>2, <1>6, <1>7, PatchEffect DEF TypeInv

\* The user changes nothing but what is his own.
LEMMA UserEditEffect ==
    ASSUME TypeInv, NEW d \in Docs, NEW what \in {"tag", "field"}, UserEdit(d, what)
    PROVE  /\ docs' \in [Docs -> DocRecord]
           /\ \A e \in Docs : e # d => docs'[e] = docs[e]
           /\ docs'[d].present = docs[d].present
           /\ docs'[d].quality = docs[d].quality
           /\ docs'[d].stage = docs[d].stage
           /\ docs'[d].score = docs[d].score
           /\ docs'[d].tags = docs[d].tags
<1> DEFINE user == docs[d].user \cup {what}
           new == [docs[d] EXCEPT !.user = user]
<1>1. docs[d] \in DocRecord
  BY DEF TypeInv, TypeOK
<1>2. user \in SUBSET {"tag", "field"}
  BY <1>1 DEF DocRecord
<1>3. Patch(d, new)
  BY DEF UserEdit
<1> HIDE DEF user
<1>4. /\ new \in DocRecord
      /\ new.present = docs[d].present /\ new.quality = docs[d].quality
      /\ new.stage = docs[d].stage /\ new.score = docs[d].score
      /\ new.tags = docs[d].tags
  BY <1>1, <1>2, EditedDoc
<1> HIDE DEF new
<1> QED
  BY <1>3, <1>4, PatchEffect DEF TypeInv

\* An upload fills a free id.
UploadsTo(r, d, c) ==
    /\ ~docs[c].present
    /\ docs' \in [Docs -> DocRecord]
    /\ \A e \in Docs : e # c => docs'[e] = docs[e]
    /\ docs'[c].present = TRUE /\ docs'[c].stage = ""
    /\ docs'[c].tags = view[r][d].tags
    /\ origin' = [origin EXCEPT ![c] = origin[d]]
    /\ copy' = [copy EXCEPT ![r][d] = c]

\* An upload does so for one of the free ids.
LEMMA UploadEffect ==
    ASSUME TypeInv, NEW r \in Runners, NEW d \in Docs, Upload(r, d)
    PROVE  \E c \in Docs : UploadsTo(r, d, c)
<1>1. PICK c \in Docs, q \in Qualities :
          /\ ~docs[c].present
          /\ docs' = [docs EXCEPT ![c] =
                [NewDoc(TRUE, q) EXCEPT
                    !.tags = view[r][d].tags,
                    !.user = view[r][d].user \cap {"tag"}]]
          /\ origin' = [origin EXCEPT ![c] = origin[d]]
          /\ copy' = [copy EXCEPT ![r][d] = c]
  BY Zenon DEF Upload
<1> DEFINE user == view[r][d].user \cap {"tag"}
           tags == view[r][d].tags
           new == Retagged(NewDoc(TRUE, q), tags, user)
<1>2. step[r][d] # "out"
  BY DEF Upload, At
<1>3. /\ user \in SUBSET {"tag", "field"}
      /\ tags \in SUBSET {"superseded", "extracted"}
  BY <1>2, InWork
<1>4. docs' = [docs EXCEPT ![c] = new]
  BY <1>1, Zenon DEF Retagged
<1>5. NewDoc(TRUE, q) \in DocRecord /\ NewDoc(TRUE, q).present = TRUE
      /\ NewDoc(TRUE, q).stage = ""
  BY NewDocType
<1> HIDE DEF user, tags
<1>6. new \in DocRecord /\ new.present = TRUE /\ new.stage = ""
  BY <1>3, <1>5, RetaggedDoc
<1>8. NewDoc(TRUE, q) \in DocRecord
  BY NewDocType
<1>9. new.tags = tags
  BY <1>3, <1>8, RetaggedDoc
<1> HIDE DEF new
<1>7. /\ docs' \in [Docs -> DocRecord]
      /\ \A e \in Docs : e # c => docs'[e] = docs[e]
      /\ docs'[c] = new
  BY <1>4, <1>6 DEF TypeInv, TypeOK
<1> QED
  BY <1>1, <1>6, <1>7, <1>9, Zenon DEF UploadsTo, tags

(***************************************************************************)
(* TypeInv is inductive.                                                   *)
(***************************************************************************)

\* TypeOK without the variables of the runs.
ServerTypeOK ==
    /\ docs \in [Docs -> DocRecord]
    /\ origin \in [Docs -> 0..NDocs]
    /\ made \subseteq Billable
    /\ snapshots \in [RunStages -> [Docs -> DocRecord \cup {NoCopy, Torn}]]
    /\ firstRunDone \in BOOLEAN
    /\ failures \in Nat
    /\ edits \in Nat
    /\ paid \in [Billable -> [Docs -> Nat]]
    /\ {wasted, proposed} \subseteq [Billable -> [Docs -> Nat]]
    /\ dryRuns \in Nat

\* The two halves of TypeOK.
LEMMA TypeParts ==
    /\ ServerTypeOK /\ RunTypeOK => TypeOK
    /\ ServerTypeOK' /\ RunTypeOK' => TypeOK'
BY DEF TypeOK, ServerTypeOK, RunTypeOK

\* Throwing answers away only counts.
LEMMA WasteType ==
    ASSUME TypeOK, NEW r \in Runners, NEW S, Waste(r, S)
    PROVE  wasted' \in [Billable -> [Docs -> Nat]]
BY DEF Waste, TypeOK

\* The initial states are well typed.
LEMMA TypeInit == Init => TypeInv
<1> SUFFICES ASSUME Init PROVE TypeInv
  OBVIOUS
<1>1. PICK n \in Docs, q \in [Docs -> Qualities] :
          docs = [d \in Docs |-> NewDoc(d <= n, q[d])]
  BY DEF Init
<1>2. \A d \in Docs : NewDoc(d <= n, q[d]) \in DocRecord
  <2> TAKE d \in Docs
  <2>1. (d <= n) \in BOOLEAN /\ q[d] \in Qualities
    BY <1>1 DEF Docs
  <2> QED
    BY <2>1, NewDocType
<1>3. docs \in [Docs -> DocRecord]
  BY <1>1, <1>2
<1>4. origin \in [Docs -> 0..NDocs]
  BY StagesAssumption DEF Init, Docs
<1>5. ServerTypeOK
  <2>1. /\ paid \in [Billable -> [Docs -> Nat]]
        /\ wasted \in [Billable -> [Docs -> Nat]]
        /\ proposed \in [Billable -> [Docs -> Nat]]
    BY DEF Init, Nothing
  <2> QED
    BY <1>3, <1>4, <2>1 DEF Init, ServerTypeOK, NoCopies
<1>6. RunTypeOK
  <2>1. 0 \in 0..NDocs
    BY StagesAssumption
  <2>2. /\ NoCopies \in [Docs -> DocRecord \cup {NoCopy}]
        /\ AllOut \in [Docs -> Steps]
        /\ Nothing \in [Docs -> 0..NDocs]
    BY <2>1 DEF NoCopies, Nothing, AllOut, Steps
  <2> QED
    BY <2>1, <2>2 DEF Init, RunTypeOK
<1>7. Held
  BY DEF Init, Held, AllOut, InHand
<1> QED
  BY <1>5, <1>6, <1>7, TypeParts DEF TypeInv

\* The actions that begin a stage.
LEMMA EnterType ==
    ASSUME TypeInv, NEW r \in Runners, NEW s \in RunStages, NEW t,
           EnterStage(r, s, t),
           target' \in [Runners -> 0..NDocs], dry' \in [Runners -> BOOLEAN],
           stopped' \in BOOLEAN, UNCHANGED firstRunDone, dryRuns' \in Nat
    PROVE  TypeInv'
<1>1. RunTypeOK' /\ Held'
  BY EnterHolds
<1>2. ServerTypeOK'
  BY DEF EnterStage, TypeInv, TypeOK, ServerTypeOK, boundVars, histVars
<1> QED
  BY <1>1, <1>2, TypeParts DEF TypeInv

\* How a run that begins or goes on sets its variables.
LEMMA BeginRunEnters ==
    ASSUME TypeInv, NEW r \in Runners, NEW t \in 0..NDocs, BeginRun(r, t)
    PROVE  \E s \in RunStages :
              /\ EnterStage(r, s, t)
              /\ target' = [target EXCEPT ![r] = t]
              /\ dry' = [dry EXCEPT ![r] = ResolveDryRun]
              /\ dry' \in [Runners -> BOOLEAN]
              /\ target' \in [Runners -> 0..NDocs]
              /\ stopped' \in BOOLEAN
              /\ UNCHANGED firstRunDone
              /\ dryRuns' = dryRuns + (IF ResolveDryRun THEN 1 ELSE 0)
              /\ dryRuns' \in Nat
<1>1. ResolveDryRun \in BOOLEAN
  BY DEF ResolveDryRun, TypeInv, TypeOK
<1>2. PICK s \in RunStages : EnterStage(r, s, t)
  BY StageNames DEF BeginRun, EnterFirstOf
<1>3. /\ target' = [target EXCEPT ![r] = t]
      /\ dry' = [dry EXCEPT ![r] = ResolveDryRun]
      /\ UNCHANGED firstRunDone
  BY DEF BeginRun
<1>4. /\ dry' \in [Runners -> BOOLEAN]
      /\ target' \in [Runners -> 0..NDocs]
  BY <1>1, <1>3 DEF TypeInv, TypeOK
<1>5. stopped' \in BOOLEAN
  BY DEF BeginRun, TypeInv, TypeOK
<1>6. dryRuns' = dryRuns + (IF ResolveDryRun THEN 1 ELSE 0)
  BY <1>3 DEF BeginRun, TypeInv, TypeOK
<1>7. dryRuns' \in Nat
  BY <1>6 DEF TypeInv, TypeOK
<1> QED
  BY <1>2, <1>3, <1>4, <1>5, <1>6, <1>7

\* The same for a run that goes on to its next stage.
LEMMA NextStageEnters ==
    ASSUME TypeInv, NEW r \in Runners, NextStage(r)
    PROVE  \E s \in RunStages :
              /\ EnterStage(r, s, target[r])
              /\ UNCHANGED <<target, dry, stopped, firstRunDone, dryRuns>>
<1>1. StagesLeft(r) \subseteq RunStages
  BY StageNames DEF StagesLeft
<1> QED
  BY <1>1 DEF NextStage, EnterFirstOf

\* A run that ends has dropped everything.
LEMMA EndDrops ==
    ASSUME TypeOK, NEW r \in Runners, EndRun(r)
    PROVE  DropOnly /\ RunTypeOK'
<1>1. /\ pc' \in [Runners -> {"idle"} \cup RunStages]
      /\ target' \in [Runners -> 0..NDocs]
      /\ dry' \in [Runners -> BOOLEAN]
  BY StagesAssumption DEF EndRun, TypeOK
<1>2. DropOnly
  BY DEF EndRun, StageDone, AllOut, DropOnly, TypeOK
<1> QED
  BY <1>1, <1>2 DEF EndRun, TypeOK, RunTypeOK

\* Every step that drops what it had in hand, with its effect on the server.
LEMMA DropType ==
    ASSUME TypeInv, DropOnly, RunTypeOK', ServerTypeOK'
    PROVE  TypeInv'
BY DropKeepsHeld, TypeParts DEF TypeInv

\* Paying moves on, or leaves when the run is dry.
LEMMA PayEffect ==
    ASSUME TypeInv, NEW r \in Runners, NEW d \in Docs, Pay(r, d)
    PROVE  /\ Held' /\ RunTypeOK'
           /\ paid' \in [Billable -> [Docs -> Nat]]
           /\ proposed' \in [Billable -> [Docs -> Nat]]
<1> pc[r] \in Billable /\ step[r][d] = "saved" /\ UNCHANGED <<pc, target, dry, stopped>>
  BY DEF Pay, RunUnchanged
<1>0. paid' \in [Billable -> [Docs -> Nat]]
  BY DEF Pay, TypeInv, TypeOK
<1>1. CASE dry[r]
  <2>1. Leave(r, d) /\ proposed' = [proposed EXCEPT ![pc[r]][d] = @ + 1]
    BY <1>1 DEF Pay
  <2>2. DropOnly /\ RunTypeOK'
    BY <2>1, LeaveDrops DEF TypeInv
  <2> QED
    BY <1>0, <2>1, <2>2, DropKeepsHeld DEF TypeInv, TypeOK
<1>2. CASE ~dry[r]
  <2>1. MoveTo(r, d, "paid") /\ UNCHANGED proposed
    BY <1>2 DEF Pay
  <2>2. Held' /\ RunTypeOK'
    BY <2>1, MoveHolds DEF Steps
  <2> QED
    BY <1>0, <2>1, <2>2 DEF TypeInv, TypeOK
<1> QED
  BY <1>1, <1>2

\* Uploading gives the document in hand a copy.
LEMMA UploadHolds ==
    ASSUME TypeInv, NEW r \in Runners, NEW d \in Docs, Upload(r, d)
    PROVE  Held' /\ RunTypeOK' /\ origin' \in [Docs -> 0..NDocs]
<1>0. PICK c \in Docs : UploadsTo(r, d, c)
  BY UploadEffect
<1>1. /\ copy' = [copy EXCEPT ![r][d] = c]
      /\ origin' = [origin EXCEPT ![c] = origin[d]]
  BY <1>0 DEF UploadsTo
<1>2. /\ pc[r] = "reocr" /\ step[r][d] = "paid"
      /\ step' = [step EXCEPT ![r][d] = "uploaded"]
      /\ UNCHANGED <<pc, target, dry, stopped, view>>
  BY DEF Upload, At, RunUnchanged
<1>3. c \in 0..NDocs
  BY DEF Docs
<1>4. RunTypeOK'
  BY <1>1, <1>2, <1>3 DEF RunTypeOK, TypeInv, TypeOK, Steps
<1>5. Held'
  BY <1>1, <1>2 DEF Held, TypeInv, TypeOK, InHand
<1> QED
  BY <1>1, <1>4, <1>5 DEF TypeInv, TypeOK

\* Carrying over moves on with a document that has a copy.
LEMMA CarryOverHolds ==
    ASSUME TypeInv, NEW r \in Runners, NEW d \in Docs, CarryOver(r, d)
    PROVE  Held' /\ RunTypeOK'
<1>1. /\ pc[r] = "reocr" /\ step[r][d] = "uploaded"
      /\ MoveTo(r, d, "carried")
      /\ UNCHANGED <<pc, target, dry, stopped>>
  BY DEF CarryOver, At, RunUnchanged
<1>2. copy[r][d] \in Docs /\ "reocr" \in Billable
  BY <1>1 DEF TypeInv, Held, Billable
<1> QED
  BY <1>1, <1>2, MoveHolds DEF Steps

\* A saved snapshot is the copy in hand, or the one that was there.
LEMMA SaveSnapshotEffect ==
    ASSUME TypeInv, NEW r \in Runners, NEW d \in Docs, SaveSnapshot(r, d)
    PROVE  /\ Held' /\ RunTypeOK'
           /\ pc[r] \in RunStages /\ step[r][d] = "queued"
           /\ view[r][d] \in DocRecord
           /\ snapshots' \in [RunStages -> [Docs -> DocRecord \cup {NoCopy, Torn}]]
           /\ snapshots'[pc[r]][d] # NoCopy
           /\ \/ snapshots'[pc[r]][d] = view[r][d]
              \/ snapshots'[pc[r]][d] = snapshots[pc[r]][d]
           /\ \A s \in RunStages, e \in Docs :
                 ~(s = pc[r] /\ e = d) => snapshots'[s][e] = snapshots[s][e]
<1>1. step[r][d] = "queued" /\ MoveTo(r, d, "saved")
      /\ UNCHANGED <<pc, target, dry, stopped>>
  BY DEF SaveSnapshot, RunUnchanged
<1>2. pc[r] \in RunStages /\ view[r][d] \in DocRecord
  BY <1>1 DEF TypeInv, TypeOK, Held
<1>3. Held' /\ RunTypeOK'
  BY <1>1, MoveHolds DEF Steps, InHand
<1>4. view[r][d] # NoCopy
  BY <1>2, CopyAssumption
<1>5. snapshots' = IF snapshots[pc[r]][d] = NoCopy
                   THEN [snapshots EXCEPT ![pc[r]][d] = view[r][d]]
                   ELSE snapshots
  BY DEF SaveSnapshot
<1> QED
  BY <1>1, <1>2, <1>3, <1>4, <1>5 DEF TypeInv, TypeOK

\* Every step of the system keeps the types.
LEMMA TypeNext == TypeInv /\ [Next]_vars => TypeInv'
<1> SUFFICES ASSUME TypeInv, [Next]_vars PROVE TypeInv'
  OBVIOUS
<1> USE DEF RunUnchanged
<1>1. ASSUME NEW r \in Runners, NEW t \in 0..NDocs, BeginRun(r, t) PROVE TypeInv'
  BY <1>1, BeginRunEnters, EnterType
<1>2. ASSUME NEW r \in Runners, NextStage(r) PROVE TypeInv'
  <2>1. PICK s \in RunStages :
            /\ EnterStage(r, s, target[r])
            /\ UNCHANGED <<target, dry, stopped, firstRunDone, dryRuns>>
    BY <1>2, NextStageEnters
  <2>2. /\ target' \in [Runners -> 0..NDocs] /\ dry' \in [Runners -> BOOLEAN]
        /\ stopped' \in BOOLEAN /\ dryRuns' \in Nat
    BY <2>1 DEF TypeInv, TypeOK
  <2> QED
    BY <2>1, <2>2, EnterType
<1>3. ASSUME NEW r \in Runners, EndRun(r) PROVE TypeInv'
  <2>1. DropOnly /\ RunTypeOK'
    BY <1>3, EndDrops DEF TypeInv
  <2>2. ServerTypeOK'
    BY <1>3 DEF EndRun, TypeInv, TypeOK, ServerTypeOK, serverVars, boundVars, histVars
  <2> QED
    BY <2>1, <2>2, DropType
<1>4. ASSUME NEW r \in Runners, NEW d \in Docs, WorkOn(r, d) PROVE TypeInv'
  <2>1. CASE ProposeTriage(r, d)
    <3>1. DropOnly /\ RunTypeOK'
      BY <2>1, LeaveDrops DEF ProposeTriage, TypeInv
    <3>2. ServerTypeOK'
      BY <2>1 DEF ProposeTriage, TypeInv, TypeOK, ServerTypeOK, serverVars, boundVars, histVars
    <3> QED
      BY <3>1, <3>2, DropType
  <2>2. CASE SaveSnapshot(r, d)
    <3>1. /\ Held' /\ RunTypeOK'
          /\ snapshots' \in [RunStages -> [Docs -> DocRecord \cup {NoCopy, Torn}]]
      BY <2>2, SaveSnapshotEffect
    <3>2. ServerTypeOK'
      BY <2>2, <3>1 DEF SaveSnapshot, TypeInv, TypeOK, ServerTypeOK, serverVars, boundVars, histVars
    <3> QED
      BY <3>1, <3>2, TypeParts DEF TypeInv
  <2>3. CASE WriteTriage(r, d)
    <3>1. DropOnly /\ RunTypeOK'
      BY <2>3, LeaveDrops DEF WriteTriage, TypeInv
    <3>2. ServerTypeOK'
      BY <2>3, WriteTriageEffect
      DEF WriteTriage, Patch, TypeInv, TypeOK, ServerTypeOK, boundVars, histVars
    <3> QED
      BY <3>1, <3>2, DropType
  <2>4. CASE Pay(r, d)
    <3>1. /\ Held' /\ RunTypeOK'
          /\ paid' \in [Billable -> [Docs -> Nat]]
          /\ proposed' \in [Billable -> [Docs -> Nat]]
      BY <2>4, PayEffect
    <3>2. ServerTypeOK'
      BY <2>4, <3>1 DEF Pay, TypeInv, TypeOK, ServerTypeOK, serverVars, boundVars
    <3> QED
      BY <3>1, <3>2, TypeParts DEF TypeInv
  <2>5. CASE WriteMetadata(r, d)
    <3>1. DropOnly /\ RunTypeOK'
      BY <2>5, LeaveDrops DEF WriteMetadata, TypeInv
    <3>2. ServerTypeOK'
      BY <2>5, WriteMetadataEffect
      DEF WriteMetadata, Patch, TypeInv, TypeOK, ServerTypeOK, boundVars, histVars
    <3> QED
      BY <3>1, <3>2, DropType
  <2>6. CASE CapReached(r, d)
    <3>1. DropOnly /\ RunTypeOK'
      BY <2>6, LeaveDrops DEF CapReached, TypeInv
    <3>2. ServerTypeOK'
      BY <2>6 DEF CapReached, TypeInv, TypeOK, ServerTypeOK, serverVars, boundVars, histVars
    <3> QED
      BY <3>1, <3>2, DropType
  <2>7. CASE Upload(r, d)
    <3>1. Held' /\ RunTypeOK' /\ origin' \in [Docs -> 0..NDocs]
      BY <2>7, UploadHolds
    <3>2. PICK c \in Docs : UploadsTo(r, d, c)
      BY <2>7, UploadEffect
    <3>3. ServerTypeOK'
      BY <2>7, <3>1, <3>2
      DEF Upload, UploadsTo, TypeInv, TypeOK, ServerTypeOK, boundVars, histVars
    <3> QED
      BY <3>1, <3>3, TypeParts DEF TypeInv
  <2>8. CASE CarryOver(r, d)
    <3>1. Held' /\ RunTypeOK'
      BY <2>8, CarryOverHolds
    <3>2. ServerTypeOK'
      BY <2>8, CarryOverEffect
      DEF CarryOver, Patch, TypeInv, TypeOK, ServerTypeOK, boundVars, histVars
    <3> QED
      BY <3>1, <3>2, TypeParts DEF TypeInv
  <2>9. CASE MarkSuperseded(r, d)
    <3>1. DropOnly /\ RunTypeOK'
      BY <2>9, LeaveDrops DEF MarkSuperseded, TypeInv
    <3>2. ServerTypeOK'
      BY <2>9, MarkSupersededEffect
      DEF MarkSuperseded, Patch, TypeInv, TypeOK, ServerTypeOK, boundVars, histVars
    <3> QED
      BY <3>1, <3>2, DropType
  <2> QED
    BY <1>4, <2>1, <2>2, <2>3, <2>4, <2>5, <2>6, <2>7, <2>8, <2>9 DEF WorkOn
<1>5. ASSUME NEW r \in Runners, NEW d \in Docs, GiveUp(r, d) PROVE TypeInv'
  <2>1. DropOnly /\ RunTypeOK'
    BY <1>5, LeaveDrops DEF GiveUp, TypeInv
  <2>2. wasted' \in [Billable -> [Docs -> Nat]]
    BY <1>5, WasteType DEF GiveUp, TypeInv
  <2>3. ServerTypeOK'
    BY <1>5, <2>2 DEF GiveUp, Fail, TypeInv, TypeOK, ServerTypeOK, serverVars
  <2> QED
    BY <2>1, <2>3, DropType
<1>6. ASSUME NEW r \in Runners, NEW account \in BOOLEAN, ProviderRejects(r, account)
      PROVE  TypeInv'
  <2>1. DropOnly /\ RunTypeOK'
    BY <1>6, RejectionDrops DEF TypeInv
  <2>2. ServerTypeOK'
    BY <1>6
    DEF ProviderRejects, Fail, TypeInv, TypeOK, ServerTypeOK, serverVars, fileVars, histVars
  <2> QED
    BY <2>1, <2>2, DropType
<1>7. ASSUME NEW r \in Runners, RunDies(r),
             snapshots' \in [RunStages -> [Docs -> DocRecord \cup {NoCopy, Torn}]]
      PROVE  TypeInv'
  <2>1. DropOnly /\ RunTypeOK'
    BY <1>7, DeathDrops DEF TypeInv
  <2>2. wasted' \in [Billable -> [Docs -> Nat]]
    BY <1>7, WasteType DEF RunDies, TypeInv
  <2>3. ServerTypeOK'
    BY <1>7, <2>2 DEF RunDies, Fail, TypeInv, TypeOK, ServerTypeOK, serverVars
  <2> QED
    BY <2>1, <2>3, DropType
<1>8. ASSUME NEW r \in Runners, CrashRun(r) PROVE TypeInv'
  BY <1>7, <1>8 DEF CrashRun, TypeInv, TypeOK
<1>9. ASSUME NEW r \in Runners, NEW d \in Docs, CrashInSnapshot(r, d) PROVE TypeInv'
  BY <1>7, <1>9 DEF CrashInSnapshot, TypeInv, TypeOK
<1>10. ASSUME NEW d \in Docs, NEW what \in {"tag", "field"}, UserEdit(d, what)
       PROVE  TypeInv'
  <2>1. DropOnly /\ RunTypeOK'
    BY <1>10 DEF UserEdit, runVars, DropOnly, TypeInv, TypeOK, RunTypeOK
  <2>2. docs' \in [Docs -> DocRecord] /\ edits' \in Nat
    <3>1. docs' \in [Docs -> DocRecord]
      BY <1>10, UserEditEffect
    <3> QED
      BY <1>10, <3>1 DEF UserEdit, TypeInv, TypeOK
  <2>3. ServerTypeOK'
    BY <1>10, <2>2
    DEF UserEdit, Patch, TypeInv, TypeOK, ServerTypeOK, fileVars, histVars
  <2> QED
    BY <2>1, <2>3, DropType
<1>11. CASE UNCHANGED vars
  BY <1>11 DEF vars, serverVars, fileVars, runVars, boundVars, histVars, TypeInv,
               TypeOK, Held, InHand
<1> QED
  BY <1>1, <1>2, <1>3, <1>4, <1>5, <1>6, <1>8, <1>9, <1>10, <1>11
  DEF Next, RunStep, Trouble

\* Every reachable state of DocumentStages is well typed.
THEOREM TypeCorrect == Spec => []TypeOK
<1>1. Spec => []TypeInv
  BY TypeInit, TypeNext, PTL DEF Spec
<1>2. TypeInv => TypeOK
  BY DEF TypeInv
<1> QED
  BY <1>1, <1>2, PTL

(***************************************************************************)
(* Safety.  The parts of the inductive invariant.                          *)
(***************************************************************************)

\* Documents stay on the server, a copy goes back to a document that is not a
\* copy, and a fetched copy has the text of its document.
ScanInv ==
    /\ \A d \in Docs : docs[d].present =>
          /\ origin[d] \in Docs
          /\ docs[origin[d]].present
          /\ origin[origin[d]] = origin[d]
    /\ \A r \in Runners, d \in Docs :
          /\ step[r][d] # "out" =>
                docs[d].present /\ view[r][d].quality = docs[d].quality
          /\ step[r][d] \in {"uploaded", "carried"} =>
                origin[copy[r][d]] # copy[r][d]

\* A fetched copy is of a document its stage has not written or has a snapshot
\* of, and work beyond the snapshot has one.  A document whose metadata is done
\* may come back to that stage: it has a snapshot, also when it is a copy.
SnapInv ==
    /\ SnapshotPredatesWrite
    /\ \A d \in Docs : docs[d].stage = "metadata_done" =>
          snapshots["metadata"][d] # NoCopy
    /\ \A r \in Runners, d \in Docs :
          /\ step[r][d] # "out" =>
                \/ Rank[view[r][d].stage] < Rank[WrittenBy[pc[r]]]
                \/ snapshots[pc[r]][d] # NoCopy
          /\ step[r][d] \notin {"out", "queued"} =>
                snapshots[pc[r]][d] # NoCopy

\* A document that is triaged has the score of its text.
ScoreInv ==
    /\ OnlyGarbageIsReocred
    /\ \A d \in Docs : docs[d].stage = "triaged" => docs[d].score = docs[d].quality

\* A dry run gets nowhere near a write, and before the first sweep has ended
\* every run is dry.
DryInv ==
    /\ \A r \in Runners, d \in Docs : dry[r] =>
          /\ step[r][d] \notin InHand
          /\ ~(pc[r] = "triage" /\ step[r][d] = "saved")
    /\ DryRun # "write" =>
          \/ firstRunDone
          \/ /\ \A d \in Docs : Untouched(d) /\ origin[d] \in {0, d}
             /\ \A r \in Runners : pc[r] # "idle" => dry[r]

\* A step that drops work and writes nothing but a torn snapshot.
QuietStep ==
    /\ DropOnly
    /\ \A r \in Runners : \/ pc'[r] = "idle"
                          \/ pc'[r] = pc[r] /\ dry'[r] = dry[r]
    /\ \A d \in Docs : /\ docs'[d].present = docs[d].present
                       /\ docs'[d].quality = docs[d].quality
                       /\ docs'[d].stage = docs[d].stage
                       /\ docs'[d].score = docs[d].score
                       /\ docs'[d].tags = docs[d].tags
    /\ origin' = origin
    /\ \A s \in RunStages, d \in Docs :
          \/ snapshots'[s][d] = snapshots[s][d]
          \/ snapshots[s][d] = NoCopy /\ snapshots'[s][d] = Torn
    /\ firstRunDone => firstRunDone'

\* Quiet steps keep each part.
LEMMA QuietScan == ASSUME TypeInv, ScanInv, QuietStep PROVE ScanInv'
BY DEF ScanInv, QuietStep, DropOnly

\* A torn snapshot is a snapshot.
LEMMA QuietSnap == ASSUME TypeInv, SnapInv, QuietStep PROVE SnapInv'
<1>1. SnapshotPredatesWrite'
  BY CopyAssumption DEF SnapInv, SnapshotPredatesWrite, QuietStep
<1>2. ASSUME NEW r \in Runners, NEW d \in Docs, step'[r][d] # "out"
      PROVE  /\ \/ Rank[view'[r][d].stage] < Rank[WrittenBy[pc'[r]]]
                \/ snapshots'[pc'[r]][d] # NoCopy
             /\ step'[r][d] # "queued" => snapshots'[pc'[r]][d] # NoCopy
  <2>1. /\ step[r][d] = step'[r][d] /\ view[r][d] = view'[r][d] /\ pc[r] = pc'[r]
        /\ pc[r] \in RunStages
    BY <1>2 DEF QuietStep, DropOnly, TypeInv, TypeOK, Held
  <2> QED
    BY <1>2, <2>1, CopyAssumption DEF SnapInv, QuietStep
<1>3. ASSUME NEW d \in Docs, docs'[d].stage = "metadata_done"
      PROVE  snapshots'["metadata"][d] # NoCopy
  <2>1. docs[d].stage = "metadata_done" /\ "metadata" \in RunStages
    BY <1>3 DEF QuietStep, RunStages
  <2> QED
    BY <2>1, CopyAssumption DEF SnapInv, QuietStep
<1> QED
  BY <1>1, <1>2, <1>3 DEF SnapInv

\* Quiet steps change no score and no queue.
LEMMA QuietScore == ASSUME TypeInv, ScoreInv, QuietStep PROVE ScoreInv'
BY DEF ScoreInv, OnlyGarbageIsReocred, QuietStep, DropOnly

\* Quiet steps change no document and begin no run.
LEMMA QuietDry == ASSUME TypeInv, DryInv, QuietStep PROVE DryInv'
<1>1. ASSUME NEW r \in Runners, NEW d \in Docs, dry'[r]
      PROVE  /\ step'[r][d] \notin InHand
             /\ ~(pc'[r] = "triage" /\ step'[r][d] = "saved")
  BY <1>1 DEF DryInv, QuietStep, DropOnly, InHand
<1>2. ASSUME DryRun # "write", ~firstRunDone'
      PROVE  /\ \A d \in Docs : Untouched(d)' /\ origin'[d] \in {0, d}
             /\ \A r \in Runners : pc'[r] # "idle" => dry'[r]
  BY <1>2 DEF DryInv, QuietStep, Untouched
<1> QED
  BY <1>1, <1>2 DEF DryInv

\* The quiet steps.
LEMMA QuietSteps ==
    ASSUME TypeInv, NEW r \in Runners
    PROVE  /\ EndRun(r) => QuietStep
           /\ \A d \in Docs :
                 /\ ProposeTriage(r, d) => QuietStep
                 /\ CapReached(r, d) => QuietStep
                 /\ GiveUp(r, d) => QuietStep
                 /\ CrashInSnapshot(r, d) => QuietStep
                 /\ Pay(r, d) /\ dry[r] => QuietStep
           /\ \A account \in BOOLEAN : ProviderRejects(r, account) => QuietStep
           /\ CrashRun(r) => QuietStep
<1> USE DEF RunUnchanged
<1>1. ASSUME NEW d \in Docs, Leave(r, d), UNCHANGED <<pc, target, dry, stopped>>,
             UNCHANGED serverVars, UNCHANGED <<snapshots, firstRunDone>>
      PROVE  QuietStep
  BY <1>1, LeaveDrops DEF QuietStep, TypeInv, serverVars
<1>2. EndRun(r) => QuietStep
  <2> SUFFICES ASSUME EndRun(r) PROVE QuietStep
    OBVIOUS
  <2>1. DropOnly
    BY EndDrops DEF TypeInv
  <2>2. \A q \in Runners : pc'[q] = "idle" \/ (pc'[q] = pc[q] /\ dry'[q] = dry[q])
    BY DEF EndRun, TypeInv, TypeOK
  <2> QED
    BY <2>1, <2>2 DEF EndRun, QuietStep, serverVars
<1>3. ASSUME NEW d \in Docs PROVE ProposeTriage(r, d) => QuietStep
  BY <1>1 DEF ProposeTriage
<1>4. ASSUME NEW d \in Docs PROVE CapReached(r, d) => QuietStep
  BY <1>1 DEF CapReached
<1>5. ASSUME NEW d \in Docs PROVE GiveUp(r, d) => QuietStep
  BY <1>1 DEF GiveUp
<1>6. ASSUME NEW d \in Docs PROVE Pay(r, d) /\ dry[r] => QuietStep
  BY <1>1 DEF Pay
<1>7. ASSUME NEW account \in BOOLEAN PROVE ProviderRejects(r, account) => QuietStep
  <2> SUFFICES ASSUME ProviderRejects(r, account) PROVE QuietStep
    OBVIOUS
  <2>1. DropOnly
    BY RejectionDrops DEF TypeInv
  <2> QED
    BY <2>1 DEF ProviderRejects, QuietStep, serverVars, fileVars
<1>8. ASSUME RunDies(r),
             \A s \in RunStages, d \in Docs :
                \/ snapshots'[s][d] = snapshots[s][d]
                \/ snapshots[s][d] = NoCopy /\ snapshots'[s][d] = Torn
      PROVE  QuietStep
  <2>1. DropOnly
    BY <1>8, DeathDrops DEF TypeInv
  <2>2. \A q \in Runners : pc'[q] = "idle" \/ (pc'[q] = pc[q] /\ dry'[q] = dry[q])
    BY <1>8 DEF RunDies, TypeInv, TypeOK
  <2> QED
    BY <1>8, <2>1, <2>2 DEF RunDies, QuietStep, serverVars
<1>9. CrashRun(r) => QuietStep
  BY <1>8 DEF CrashRun
<1>10. ASSUME NEW d \in Docs PROVE CrashInSnapshot(r, d) => QuietStep
  <2> SUFFICES ASSUME CrashInSnapshot(r, d) PROVE QuietStep
    OBVIOUS
  <2>1. \A s \in RunStages, e \in Docs :
                \/ snapshots'[s][e] = snapshots[s][e]
                \/ snapshots[s][e] = NoCopy /\ snapshots'[s][e] = Torn
    BY DEF CrashInSnapshot, TypeInv, TypeOK
  <2> QED
    BY <1>8, <2>1 DEF CrashInSnapshot
<1> QED
  BY <1>2, <1>3, <1>4, <1>5, <1>6, <1>7, <1>9, <1>10

\* An edit by the user is quiet.
LEMMA EditIsQuiet ==
    ASSUME TypeInv, NEW d \in Docs, NEW what \in {"tag", "field"}, UserEdit(d, what)
    PROVE  QuietStep
<1>1. \A e \in Docs : /\ docs'[e].present = docs[e].present
                      /\ docs'[e].quality = docs[e].quality
                      /\ docs'[e].stage = docs[e].stage
                      /\ docs'[e].score = docs[e].score
                      /\ docs'[e].tags = docs[e].tags
  BY UserEditEffect
<1>2. UNCHANGED <<fileVars, runVars>> /\ origin' = origin
  BY DEF UserEdit, Patch
<1> QED
  BY <1>1, <1>2 DEF QuietStep, DropOnly, fileVars, runVars

\* So is stuttering.
LEMMA StutterIsQuiet == ASSUME UNCHANGED vars PROVE QuietStep
BY DEF vars, serverVars, fileVars, runVars, QuietStep, DropOnly

(***************************************************************************)
(* Entering a stage keeps the parts.                                       *)
(***************************************************************************)

\* What every step that enters a stage does.
EnterStep(r, s, t) ==
    /\ EnterStage(r, s, t)
    /\ UNCHANGED firstRunDone
    /\ \A q \in Runners : q # r => dry'[q] = dry[q]
    /\ \/ dry'[r] = ResolveDryRun
       \/ dry'[r] = dry[r] /\ pc[r] # "idle"

\* The run it enters holds fresh copies of queued documents only.
Entered(r, s, t) ==
    /\ pc'[r] = s
    /\ \A q \in Runners : q # r => pc'[q] = pc[q]
    /\ \A d \in Docs : step'[r][d] # "out" =>
          step'[r][d] = "queued" /\ d \in Queue(s, t) /\ view'[r][d] = docs[d]
    /\ \A q \in Runners, d \in Docs : q # r =>
          /\ step'[q][d] = step[q][d]
          /\ view'[q][d] = view[q][d]
          /\ copy'[q][d] = copy[q][d]
    /\ UNCHANGED <<docs, origin, snapshots>>

\* EnterStage does that.
LEMMA EnterFacts ==
    ASSUME TypeInv, NEW r \in Runners, NEW s \in RunStages, NEW t, EnterStage(r, s, t)
    PROVE  Entered(r, s, t)
<1>1. pc'[r] = s /\ \A q \in Runners : q # r => pc'[q] = pc[q]
  BY DEF EnterStage, TypeInv, TypeOK
<1>2. \A d \in Docs : step'[r][d] # "out" =>
          step'[r][d] = "queued" /\ d \in Queue(s, t) /\ view'[r][d] = docs[d]
  BY DEF EnterStage, TypeInv, TypeOK
<1>3. \A q \in Runners, d \in Docs : q # r =>
          step'[q][d] = step[q][d] /\ view'[q][d] = view[q][d]
  BY DEF EnterStage, TypeInv, TypeOK
<1> QED
  BY <1>1, <1>2, <1>3 DEF EnterStage, Entered

\* A fetched copy is the document itself.
LEMMA EnterScan ==
    ASSUME TypeInv, ScanInv, NEW r \in Runners, NEW s \in RunStages, NEW t,
           Entered(r, s, t)
    PROVE  ScanInv'
<1>1. ASSUME NEW d \in Docs, step'[r][d] # "out"
      PROVE  docs[d].present /\ view'[r][d] = docs[d] /\ step'[r][d] = "queued"
  BY <1>1, QueueFacts DEF Entered, TypeInv
<1> QED
  BY <1>1 DEF ScanInv, Entered

\* A queue holds documents that its stage has not written or has a snapshot of.
LEMMA EnterSnap ==
    ASSUME TypeInv, SnapInv, ~Retriage, NEW r \in Runners, NEW s \in RunStages,
           NEW t, Entered(r, s, t)
    PROVE  SnapInv'
<1>1. ASSUME NEW d \in Docs, step'[r][d] # "out"
      PROVE  \/ Rank[docs[d].stage] < Rank[WrittenBy[s]]
             \/ snapshots[s][d] # NoCopy
  <2>1. /\ docs[d] \in DocRecord
        /\ s = "triage" => Retriage \/ ~AlreadyTriaged(docs[d])
        /\ s = "reocr" => ReocrMatches(docs[d])
        /\ s = "metadata" => MetadataEligible(docs[d])
    BY <1>1, QueueFacts DEF Entered, TypeInv
  <2>2. docs[d].stage \in Stages
    BY <2>1 DEF DocRecord
  <2> DEFINE stage == docs[d].stage
  <2>0. /\ WrittenBy["triage"] = "triaged" /\ WrittenBy["reocr"] = "reocr_done"
        /\ WrittenBy["metadata"] = "metadata_done"
    BY DEF WrittenBy
  <2>3. CASE s = "triage"
    BY <2>0, <2>1, <2>2, <2>3, RankNumbers DEF AlreadyTriaged
  <2>4. CASE s = "reocr"
    <3>1. stage = "triaged"
      BY <2>1, <2>4, Zenon DEF ReocrMatches
    <3> QED
      BY <2>0, <2>4, <3>1, RankNumbers
  <2>5. CASE s = "metadata"
    <3>1. CASE stage = "metadata_done"
      BY <2>5, <3>1 DEF SnapInv
    <3>2. CASE stage # "metadata_done"
      <4> HIDE DEF stage
      <4>1. stage \in Stages
        BY <2>2 DEF stage
      <4>2. Rank[stage] < Rank["metadata_done"]
        BY <3>2, <4>1, RankNumbers
      <4> QED
        BY <2>0, <2>5, <4>2 DEF stage
    <3> QED
      BY <3>1, <3>2
  <2> QED
    BY <2>3, <2>4, <2>5 DEF RunStages
<1>2. SnapshotPredatesWrite'
  BY DEF SnapInv, SnapshotPredatesWrite, Entered
<1>3. ASSUME NEW q \in Runners, NEW d \in Docs
      PROVE  /\ step'[q][d] # "out" =>
                   \/ Rank[view'[q][d].stage] < Rank[WrittenBy[pc'[q]]]
                   \/ snapshots'[pc'[q]][d] # NoCopy
             /\ step'[q][d] \notin {"out", "queued"} => snapshots'[pc'[q]][d] # NoCopy
  <2>1. CASE q = r
    BY <1>1, <2>1 DEF Entered
  <2>2. CASE q # r
    BY <2>2 DEF Entered, SnapInv
  <2> QED
    BY <2>1, <2>2
<1>4. \A d \in Docs : docs'[d].stage = "metadata_done" => snapshots'["metadata"][d] # NoCopy
  BY DEF SnapInv, Entered
<1> QED
  BY <1>2, <1>3, <1>4 DEF SnapInv

\* The re-OCR queue holds documents whose score is that of garbage.
LEMMA EnterScore ==
    ASSUME TypeInv, ScoreInv, NEW r \in Runners, NEW s \in RunStages, NEW t,
           Entered(r, s, t)
    PROVE  ScoreInv'
<1>1. ASSUME NEW d \in Docs, step'[r][d] # "out", s = "reocr"
      PROVE  docs[d].quality >= Threshold
  <2>1. ReocrMatches(docs[d])
    BY <1>1, QueueFacts DEF Entered, TypeInv
  <2> QED
    BY <2>1 DEF ReocrMatches, ScoreInv
<1> QED
  BY <1>1 DEF ScoreInv, OnlyGarbageIsReocred, Entered

\* A run begins dry as long as the first sweep has not ended.
LEMMA EnterDry ==
    ASSUME TypeInv, DryInv, NEW r \in Runners, NEW s \in RunStages, NEW t,
           Entered(r, s, t), EnterStep(r, s, t)
    PROVE  DryInv'
<1>1. ASSUME NEW q \in Runners, NEW d \in Docs, dry'[q]
      PROVE  /\ step'[q][d] \notin InHand
             /\ ~(pc'[q] = "triage" /\ step'[q][d] = "saved")
  <2>1. CASE q = r
    BY <2>1 DEF Entered, InHand
  <2>2. CASE q # r
    BY <1>1, <2>2 DEF Entered, EnterStep, DryInv
  <2> QED
    BY <2>1, <2>2
<1>2. ASSUME DryRun # "write", ~firstRunDone
      PROVE  \A q \in Runners : pc'[q] # "idle" => dry'[q]
  <2>1. ResolveDryRun
    BY <1>2, StagesAssumption DEF ResolveDryRun
  <2> QED
    BY <1>2, <2>1 DEF DryInv, Entered, EnterStep
<1> QED
  BY <1>1, <1>2 DEF DryInv, Entered, EnterStep, Untouched

(***************************************************************************)
(* Moving on without a write keeps the parts.                              *)
(***************************************************************************)

\* Run r moves on with document d.
Moved(r, d, label) ==
    /\ step'[r][d] = label
    /\ \A q \in Runners, e \in Docs :
          ~(q = r /\ e = d) => step'[q][e] = step[q][e]
    /\ UNCHANGED <<pc, dry, firstRunDone, view>>

\* MoveTo does that.
LEMMA MoveFacts ==
    ASSUME TypeInv, NEW r \in Runners, NEW d \in Docs, NEW label,
           step' = [step EXCEPT ![r][d] = label],
           UNCHANGED <<pc, dry, firstRunDone, view>>
    PROVE  Moved(r, d, label)
BY DEF Moved, TypeInv, TypeOK

\* So does saving the snapshot.
LEMMA SavedMoves ==
    ASSUME TypeInv, NEW r \in Runners, NEW d \in Docs, SaveSnapshot(r, d)
    PROVE  Moved(r, d, "saved") /\ UNCHANGED <<docs, origin, copy>>
BY MoveFacts DEF SaveSnapshot, MoveTo, RunUnchanged, serverVars

\* So does a payment of a run that writes.
LEMMA PaidMoves ==
    ASSUME TypeInv, NEW r \in Runners, NEW d \in Docs, Pay(r, d), ~dry[r]
    PROVE  /\ Moved(r, d, "paid") /\ UNCHANGED <<docs, origin, copy, snapshots>>
           /\ step[r][d] = "saved"
BY MoveFacts DEF Pay, MoveTo, RunUnchanged, serverVars

\* Before the first sweep has ended: nothing is written and every run is dry.
DryRest ==
    DryRun # "write" =>
          \/ firstRunDone
          \/ /\ \A d \in Docs : Untouched(d) /\ origin[d] \in {0, d}
             /\ \A r \in Runners : pc[r] # "idle" => dry[r]

\* It depends on nothing else.
LEMMA DryRestStays ==
    ASSUME DryRest, UNCHANGED <<docs, origin, pc, dry, firstRunDone>>
    PROVE  DryRest'
BY DEF DryRest, Untouched

\* Saving the snapshot keeps the parts.
LEMMA SaveKeeps ==
    ASSUME TypeInv, NEW r \in Runners, NEW d \in Docs, SaveSnapshot(r, d)
    PROVE  /\ ScanInv => ScanInv'
           /\ SnapInv => SnapInv'
           /\ ScoreInv => ScoreInv'
           /\ DryInv => DryInv'
<1>1. Moved(r, d, "saved") /\ UNCHANGED <<docs, origin, copy>>
  BY SavedMoves
<1>2. /\ pc[r] \in RunStages /\ step[r][d] = "queued"
      /\ snapshots'[pc[r]][d] # NoCopy
      /\ \/ snapshots'[pc[r]][d] = view[r][d]
         \/ snapshots'[pc[r]][d] = snapshots[pc[r]][d]
      /\ \A s \in RunStages, e \in Docs :
            ~(s = pc[r] /\ e = d) => snapshots'[s][e] = snapshots[s][e]
      /\ \A s \in RunStages, e \in Docs :
            snapshots[s][e] # NoCopy => snapshots'[s][e] = snapshots[s][e]
  BY SaveSnapshotEffect DEF SaveSnapshot
<1>3. pc[r] = "triage" => ~dry[r]
  BY DEF SaveSnapshot
<1>4. ScanInv => ScanInv'
  BY <1>1, <1>2 DEF ScanInv, Moved
<1>5. ScoreInv => ScoreInv'
  BY <1>1, <1>2 DEF ScoreInv, OnlyGarbageIsReocred, Moved
<1>6. ASSUME DryInv PROVE DryInv'
  <2>1. ASSUME NEW q \in Runners, NEW e \in Docs, dry'[q]
        PROVE  /\ step'[q][e] \notin InHand
               /\ ~(pc'[q] = "triage" /\ step'[q][e] = "saved")
    <3>1. CASE q = r /\ e = d
      BY <1>1, <1>3, <2>1, <3>1 DEF Moved, InHand
    <3>2. CASE ~(q = r /\ e = d)
      BY <1>1, <1>6, <2>1, <3>2 DEF DryInv, Moved
    <3> QED
      BY <3>1, <3>2
  <2> QED
    BY <1>1, <1>6, <2>1, DryRestStays DEF Moved, DryInv, DryRest
<1>7. ASSUME SnapInv PROVE SnapInv'
  <2>1. SnapshotPredatesWrite'
    <3> SUFFICES ASSUME NEW s \in RunStages, NEW e \in Docs
        PROVE /\ docs'[e].stage = WrittenBy[s] /\ origin'[e] = e =>
                    snapshots'[s][e] # NoCopy
              /\ snapshots'[s][e] \notin {NoCopy, Torn} =>
                    Rank[snapshots'[s][e].stage] < Rank[WrittenBy[s]]
      BY DEF SnapshotPredatesWrite
    <3>1. CASE s = pc[r] /\ e = d
      BY <1>1, <1>2, <1>7, <3>1 DEF SnapInv, SnapshotPredatesWrite
    <3>2. CASE ~(s = pc[r] /\ e = d)
      BY <1>1, <1>2, <1>7, <3>2 DEF SnapInv, SnapshotPredatesWrite
    <3> QED
      BY <3>1, <3>2
  <2>2. ASSUME NEW q \in Runners, NEW e \in Docs, step'[q][e] # "out"
        PROVE  /\ \/ Rank[view'[q][e].stage] < Rank[WrittenBy[pc'[q]]]
                  \/ snapshots'[pc'[q]][e] # NoCopy
               /\ step'[q][e] # "queued" => snapshots'[pc'[q]][e] # NoCopy
    <3>1. CASE q = r /\ e = d
      BY <1>1, <1>2, <1>7, <3>1 DEF SnapInv, Moved
    <3>2. CASE ~(q = r /\ e = d)
      <4>1. /\ step[q][e] = step'[q][e] /\ view[q][e] = view'[q][e] /\ pc[q] = pc'[q]
        BY <1>1, <3>2 DEF Moved
      <4>2. pc[q] \in RunStages
        BY <2>2, <4>1 DEF TypeInv, TypeOK, Held
      <4> QED
        BY <1>2, <1>7, <2>2, <4>1, <4>2 DEF SnapInv
    <3> QED
      BY <3>1, <3>2
  <2>3. \A e \in Docs : docs'[e].stage = "metadata_done" => snapshots'["metadata"][e] # NoCopy
    BY <1>1, <1>2, <1>7 DEF SnapInv, RunStages
  <2> QED
    BY <2>1, <2>2, <2>3 DEF SnapInv
<1> QED
  BY <1>4, <1>5, <1>6, <1>7

\* Paying keeps the parts.
LEMMA PayKeeps ==
    ASSUME TypeInv, NEW r \in Runners, NEW d \in Docs, Pay(r, d), ~dry[r]
    PROVE  /\ ScanInv => ScanInv'
           /\ SnapInv => SnapInv'
           /\ ScoreInv => ScoreInv'
           /\ DryInv => DryInv'
<1>1. /\ Moved(r, d, "paid") /\ UNCHANGED <<docs, origin, copy, snapshots>>
      /\ step[r][d] = "saved"
  BY PaidMoves
<1>2. ScanInv => ScanInv'
  BY <1>1 DEF ScanInv, Moved
<1>3. SnapInv => SnapInv'
  BY <1>1 DEF SnapInv, SnapshotPredatesWrite, Moved
<1>4. ScoreInv => ScoreInv'
  BY <1>1 DEF ScoreInv, OnlyGarbageIsReocred, Moved
<1>5. ASSUME DryInv PROVE DryInv'
  <2>1. ASSUME NEW q \in Runners, NEW e \in Docs, dry'[q]
        PROVE  /\ step'[q][e] \notin InHand
               /\ ~(pc'[q] = "triage" /\ step'[q][e] = "saved")
    <3>1. CASE q = r /\ e = d
      BY <1>1, <2>1, <3>1 DEF Moved
    <3>2. CASE ~(q = r /\ e = d)
      BY <1>1, <1>5, <2>1, <3>2 DEF DryInv, Moved
    <3> QED
      BY <3>1, <3>2
  <2> QED
    BY <1>1, <1>5, <2>1, DryRestStays DEF Moved, DryInv, DryRest
<1> QED
  BY <1>2, <1>3, <1>4, <1>5


(***************************************************************************)
(* Writing to a document keeps the parts.                                  *)
(***************************************************************************)

\* Run r, at work on document d, changes document e and drops d or moves on
\* with it.
Writes(r, d, e) ==
    /\ pc[r] # "idle" /\ step[r][d] \notin {"out", "queued"}
    /\ step[r][d] \in InHand \/ (pc[r] = "triage" /\ step[r][d] = "saved")
    /\ \A q \in Runners, x \in Docs :
          step'[q][x] # "out" =>
             /\ view'[q][x] = view[q][x] /\ copy'[q][x] = copy[q][x]
             /\ \/ step'[q][x] = step[q][x]
                \/ q = r /\ x = d /\ step[q][x] = "uploaded" /\ step'[q][x] = "carried"
    /\ \A x \in Docs : x # e => docs'[x] = docs[x]
    /\ docs'[e].present = docs[e].present /\ docs'[e].quality = docs[e].quality
    /\ UNCHANGED <<origin, snapshots, pc, dry, firstRunDone>>

\* The three writes to the document itself.
LEMMA OwnWrites ==
    ASSUME TypeInv, NEW r \in Runners, NEW d \in Docs,
           WriteTriage(r, d) \/ WriteMetadata(r, d) \/ MarkSuperseded(r, d)
    PROVE  Writes(r, d, d)
<1>1. /\ Leave(r, d) /\ UNCHANGED <<pc, target, dry, stopped>>
      /\ UNCHANGED <<snapshots, firstRunDone>> /\ UNCHANGED origin
  BY DEF WriteTriage, WriteMetadata, MarkSuperseded, Patch, RunUnchanged
<1>2. DropOnly
  BY <1>1, LeaveDrops DEF TypeInv
<1>3. /\ pc[r] # "idle" /\ step[r][d] \notin {"out", "queued"}
      /\ step[r][d] \in InHand \/ (pc[r] = "triage" /\ step[r][d] = "saved")
  BY DEF WriteTriage, WriteMetadata, MarkSuperseded, At, InHand
<1>4. /\ \A x \in Docs : x # d => docs'[x] = docs[x]
      /\ docs'[d].present = docs[d].present /\ docs'[d].quality = docs[d].quality
  BY WriteTriageEffect, WriteMetadataEffect, MarkSupersededEffect
<1> QED
  BY <1>1, <1>2, <1>3, <1>4, Zenon DEF Writes, DropOnly

\* The write to the copy.
LEMMA CopyWrite ==
    ASSUME TypeInv, NEW r \in Runners, NEW d \in Docs, CarryOver(r, d)
    PROVE  Writes(r, d, copy[r][d]) /\ copy[r][d] \in Docs /\ step[r][d] = "uploaded"
<1>1. /\ pc[r] = "reocr" /\ step[r][d] = "uploaded"
      /\ UNCHANGED <<pc, dry, view, copy, snapshots, firstRunDone, origin>>
      /\ step' = [step EXCEPT ![r][d] = "carried"]
  BY DEF CarryOver, At, MoveTo, Patch, RunUnchanged
<1>2. \A q \in Runners, x \in Docs :
          \/ step'[q][x] = step[q][x]
          \/ q = r /\ x = d /\ step'[q][x] = "carried"
  BY <1>1 DEF TypeInv, TypeOK
<1>3. /\ \A x \in Docs : x # copy[r][d] => docs'[x] = docs[x]
      /\ docs'[copy[r][d]].present = docs[copy[r][d]].present
      /\ docs'[copy[r][d]].quality = docs[copy[r][d]].quality
      /\ copy[r][d] \in Docs
  BY CarryOverEffect, Zenon
<1>4. step[r][d] \notin {"out", "queued"} /\ step[r][d] \in InHand
  BY <1>1 DEF InHand
<1> QED
  BY <1>1, <1>2, <1>3, <1>4, Zenon DEF Writes

\* Writes keep what does not depend on what is written.
LEMMA WriteScan ==
    ASSUME TypeInv, ScanInv, NEW r \in Runners, NEW d \in Docs, NEW e \in Docs,
           Writes(r, d, e)
    PROVE  ScanInv'
<1>1. \A x \in Docs : /\ docs'[x].present = docs[x].present
                      /\ docs'[x].quality = docs[x].quality
  BY DEF Writes
<1>2. origin' = origin
  BY DEF Writes
<1>3. ASSUME NEW q \in Runners, NEW x \in Docs
      PROVE  /\ step'[q][x] # "out" =>
                   docs'[x].present /\ view'[q][x].quality = docs'[x].quality
             /\ step'[q][x] \in {"uploaded", "carried"} =>
                   origin'[copy'[q][x]] # copy'[q][x]
  <2>1. step'[q][x] # "out" =>
             /\ view'[q][x] = view[q][x] /\ copy'[q][x] = copy[q][x]
             /\ step[q][x] # "out"
             /\ step'[q][x] \in {"uploaded", "carried"} =>
                   step[q][x] \in {"uploaded", "carried"}
    BY DEF Writes
  <2> QED
    BY <1>1, <1>2, <2>1 DEF ScanInv
<1>4. \A x \in Docs : docs'[x].present =>
          /\ origin'[x] \in Docs
          /\ docs'[origin'[x]].present
          /\ origin'[origin'[x]] = origin'[x]
  BY <1>1, <1>2 DEF ScanInv
<1> QED
  BY <1>3, <1>4 DEF ScanInv

\* With a snapshot, a write keeps SnapInv.
LEMMA WriteSnap ==
    ASSUME TypeInv, SnapInv, NEW r \in Runners, NEW d \in Docs, NEW e \in Docs,
           Writes(r, d, e),
           \A s \in RunStages : docs'[e].stage = WrittenBy[s] /\ origin[e] = e =>
               snapshots[s][e] # NoCopy,
           docs'[e].stage = "metadata_done" => snapshots["metadata"][e] # NoCopy
    PROVE  SnapInv'
<1>1. UNCHANGED <<origin, snapshots, pc>> /\ \A x \in Docs : x # e => docs'[x] = docs[x]
  BY DEF Writes
<1>2. SnapshotPredatesWrite'
  BY <1>1 DEF SnapInv, SnapshotPredatesWrite
<1>3. ASSUME NEW q \in Runners, NEW x \in Docs
      PROVE  /\ step'[q][x] # "out" =>
                   \/ Rank[view'[q][x].stage] < Rank[WrittenBy[pc'[q]]]
                   \/ snapshots'[pc'[q]][x] # NoCopy
             /\ step'[q][x] \notin {"out", "queued"} => snapshots'[pc'[q]][x] # NoCopy
  <2>1. step'[q][x] # "out" =>
             /\ view'[q][x] = view[q][x]
             /\ step[q][x] # "out"
             /\ step'[q][x] # "queued" => step[q][x] # "queued"
    BY DEF Writes
  <2> QED
    BY <1>1, <2>1 DEF SnapInv
<1>4. \A x \in Docs : docs'[x].stage = "metadata_done" => snapshots'["metadata"][x] # NoCopy
  BY <1>1 DEF SnapInv
<1> QED
  BY <1>2, <1>3, <1>4 DEF SnapInv

\* A triage write must write the score of the text.
LEMMA WriteScore ==
    ASSUME TypeInv, ScoreInv, NEW r \in Runners, NEW d \in Docs, NEW e \in Docs,
           Writes(r, d, e),
           docs'[e].stage = "triaged" => docs'[e].score = docs[e].quality
    PROVE  ScoreInv'
<1>1. \A x \in Docs : /\ docs'[x].quality = docs[x].quality
                      /\ x # e => docs'[x] = docs[x]
  BY DEF Writes
<1>2. \A q \in Runners, x \in Docs : pc'[q] = pc[q] /\
          (step'[q][x] # "out" => step[q][x] # "out")
  BY DEF Writes
<1> QED
  BY <1>1, <1>2 DEF ScoreInv, OnlyGarbageIsReocred

\* Only a run that is not dry writes.
LEMMA WriteDry ==
    ASSUME TypeInv, DryInv, NEW r \in Runners, NEW d \in Docs, NEW e \in Docs,
           Writes(r, d, e)
    PROVE  DryInv'
<1>1. ~dry[r] /\ pc[r] # "idle"
  BY DEF DryInv, Writes
<1>2. DryRun # "write" => firstRunDone'
  BY <1>1 DEF DryInv, Writes
<1>3. ASSUME NEW q \in Runners, NEW x \in Docs, dry'[q]
      PROVE  /\ step'[q][x] \notin InHand
             /\ ~(pc'[q] = "triage" /\ step'[q][x] = "saved")
  <2>1. dry[q] /\ q # r /\ pc'[q] = pc[q]
    BY <1>1, <1>3 DEF Writes
  <2>2. step'[q][x] = "out" \/ step'[q][x] = step[q][x]
    BY <2>1 DEF Writes
  <2> QED
    BY <2>1, <2>2 DEF DryInv, InHand
<1> QED
  BY <1>2, <1>3 DEF DryInv

(***************************************************************************)
(* Uploading keeps the parts.                                              *)
(***************************************************************************)

\* What an upload does, c being the copy.
Uploaded(r, d, c) ==
    /\ pc[r] = "reocr" /\ step[r][d] = "paid"
    /\ ~docs[c].present
    /\ docs'[c].present /\ docs'[c].tags = view[r][d].tags
    /\ docs'[c].stage \notin {"triaged", "reocr_done", "metadata_done"}
    /\ \A x \in Docs : x # c => docs'[x] = docs[x] /\ origin'[x] = origin[x]
    /\ origin'[c] = origin[d]
    /\ step'[r][d] = "uploaded" /\ copy'[r][d] = c
    /\ \A q \in Runners, x \in Docs : ~(q = r /\ x = d) =>
          step'[q][x] = step[q][x] /\ copy'[q][x] = copy[q][x]
    /\ UNCHANGED <<view, snapshots, pc, dry, firstRunDone>>

\* Upload does that.
LEMMA UploadFacts ==
    ASSUME TypeInv, NEW r \in Runners, NEW d \in Docs, Upload(r, d)
    PROVE  \E c \in Docs : Uploaded(r, d, c)
<1>1. PICK c \in Docs : UploadsTo(r, d, c)
  BY UploadEffect
<1>2. /\ pc[r] = "reocr" /\ step[r][d] = "paid"
      /\ step' = [step EXCEPT ![r][d] = "uploaded"]
      /\ UNCHANGED <<view, snapshots, pc, dry, firstRunDone>>
  BY DEF Upload, At, RunUnchanged
<1>3. /\ step'[r][d] = "uploaded" /\ copy'[r][d] = c
      /\ \A q \in Runners, x \in Docs : ~(q = r /\ x = d) =>
            step'[q][x] = step[q][x] /\ copy'[q][x] = copy[q][x]
  BY <1>1, <1>2 DEF UploadsTo, TypeInv, TypeOK
<1>4. origin'[c] = origin[d] /\ \A x \in Docs : x # c => origin'[x] = origin[x]
  BY <1>1 DEF UploadsTo, TypeInv, TypeOK
<1>5. /\ ~docs[c].present
      /\ docs'[c].present /\ docs'[c].tags = view[r][d].tags
      /\ docs'[c].stage \notin {"triaged", "reocr_done", "metadata_done"}
      /\ \A x \in Docs : x # c => docs'[x] = docs[x]
  BY <1>1, Zenon DEF UploadsTo
<1>6. Uploaded(r, d, c)
  BY <1>2, <1>3, <1>4, <1>5, Zenon DEF Uploaded
<1> QED
  BY <1>6

\* A copy takes a free id, so no fetched copy is touched.
LEMMA UploadKeeps ==
    ASSUME TypeInv, ScanInv, NEW r \in Runners, NEW d \in Docs, Upload(r, d)
    PROVE  /\ ScanInv'
           /\ SnapInv => SnapInv'
           /\ ScoreInv => ScoreInv'
           /\ DryInv => DryInv'
<1>1. PICK c \in Docs : Uploaded(r, d, c)
  BY UploadFacts
<1>2. docs[d].present /\ origin[d] \in Docs /\ docs[origin[d]].present
      /\ origin[origin[d]] = origin[d] /\ origin[d] # c
  BY <1>1 DEF ScanInv, Uploaded
<1>3. ASSUME NEW q \in Runners, NEW x \in Docs, step'[q][x] # "out"
      PROVE  /\ x # c /\ docs'[x] = docs[x] /\ docs[x].present
             /\ step[q][x] # "out" /\ view'[q][x] = view[q][x] /\ pc'[q] = pc[q]
  BY <1>1, <1>3 DEF ScanInv, Uploaded
<1>4. ScanInv'
  <2>1. ASSUME NEW x \in Docs, docs'[x].present
        PROVE  /\ origin'[x] \in Docs
               /\ docs'[origin'[x]].present
               /\ origin'[origin'[x]] = origin'[x]
    <3>1. CASE x = c
      BY <1>1, <1>2, <3>1 DEF Uploaded
    <3>2. CASE x # c
      <4>1. /\ docs[x].present /\ origin'[x] = origin[x]
            /\ origin[x] \in Docs /\ docs[origin[x]].present
            /\ origin[origin[x]] = origin[x]
        BY <1>1, <2>1, <3>2 DEF Uploaded, ScanInv
      <4> QED
        BY <1>1, <4>1 DEF Uploaded
    <3> QED
      BY <3>1, <3>2
  <2>2. ASSUME NEW q \in Runners, NEW x \in Docs, step'[q][x] \in {"uploaded", "carried"}
        PROVE  origin'[copy'[q][x]] # copy'[q][x]
    <3>1. CASE q = r /\ x = d
      BY <1>1, <1>2, <3>1 DEF Uploaded
    <3>2. CASE ~(q = r /\ x = d)
      <4>1. copy'[q][x] = copy[q][x] /\ copy[q][x] \in Docs
            /\ origin[copy[q][x]] # copy[q][x]
        BY <1>1, <2>2, <3>2 DEF Uploaded, ScanInv, TypeInv, Held
      <4> QED
        BY <1>1, <1>2, <4>1 DEF Uploaded
    <3> QED
      BY <3>1, <3>2
  <2>3. ASSUME NEW q \in Runners, NEW x \in Docs, step'[q][x] # "out"
        PROVE  docs'[x].present /\ view'[q][x].quality = docs'[x].quality
    BY <1>3, <2>3 DEF ScanInv
  <2> QED
    BY <2>1, <2>2, <2>3 DEF ScanInv
<1>5. ASSUME SnapInv PROVE SnapInv'
  <2>1. /\ WrittenBy["triage"] = "triaged" /\ WrittenBy["reocr"] = "reocr_done"
        /\ WrittenBy["metadata"] = "metadata_done"
    BY DEF WrittenBy
  <2>2. \A s \in RunStages : docs'[c].stage # WrittenBy[s]
    BY <1>1, <2>1, Zenon DEF Uploaded, RunStages
  <2>3. snapshots' = snapshots
        /\ \A x \in Docs : x # c => docs'[x] = docs[x] /\ origin'[x] = origin[x]
    BY <1>1 DEF Uploaded
  <2>4. SnapshotPredatesWrite'
    BY <1>5, <2>2, <2>3 DEF SnapInv, SnapshotPredatesWrite
  <2>5. ASSUME NEW q \in Runners, NEW x \in Docs, step'[q][x] # "out"
        PROVE  /\ \/ Rank[view'[q][x].stage] < Rank[WrittenBy[pc'[q]]]
                  \/ snapshots'[pc'[q]][x] # NoCopy
               /\ step'[q][x] # "queued" => snapshots'[pc'[q]][x] # NoCopy
    <3>1. step'[q][x] # "queued" => step[q][x] \notin {"out", "queued"}
      BY <1>1, <2>5 DEF Uploaded
    <3> QED
      BY <1>3, <1>5, <2>3, <2>5, <3>1 DEF SnapInv
  <2>6. docs'[c].stage # "metadata_done"
    BY <1>1, Zenon DEF Uploaded
  <2>7. \A x \in Docs : docs'[x].stage = "metadata_done" => snapshots'["metadata"][x] # NoCopy
    BY <1>5, <2>3, <2>6 DEF SnapInv
  <2> QED
    BY <2>4, <2>5, <2>7 DEF SnapInv
<1>6. ASSUME ScoreInv PROVE ScoreInv'
  <2>1. OnlyGarbageIsReocred'
    BY <1>3, <1>6 DEF ScoreInv, OnlyGarbageIsReocred
  <2>2. docs'[c].stage # "triaged"
    BY <1>1, Zenon DEF Uploaded
  <2>3. \A x \in Docs : x # c => docs'[x] = docs[x]
    BY <1>1 DEF Uploaded
  <2> QED
    BY <1>6, <2>1, <2>2, <2>3 DEF ScoreInv
<1>7. ASSUME DryInv PROVE DryInv'
  <2>1. ~dry[r] /\ pc[r] # "idle" /\ pc' = pc /\ dry' = dry /\ firstRunDone' = firstRunDone
    BY <1>1, <1>7 DEF DryInv, InHand, Uploaded
  <2>2. DryRun # "write" => firstRunDone'
    BY <1>7, <2>1 DEF DryInv
  <2>3. \A q \in Runners, x \in Docs : q # r => step'[q][x] = step[q][x]
    BY <1>1 DEF Uploaded
  <2>4. ASSUME NEW q \in Runners, NEW x \in Docs, dry'[q]
        PROVE  /\ step'[q][x] \notin InHand
               /\ ~(pc'[q] = "triage" /\ step'[q][x] = "saved")
    BY <1>7, <2>1, <2>3, <2>4 DEF DryInv
  <2> QED
    BY <2>2, <2>4 DEF DryInv
<1> QED
  BY <1>4, <1>5, <1>6, <1>7


(***************************************************************************)
(* The parts are inductive.                                                *)
(***************************************************************************)

\* A run begins or goes on to its next stage.
EnterAny == \E r \in Runners, s \in RunStages, t \in 0..NDocs : EnterStep(r, s, t)

\* Every step is quiet, enters a stage, or is one of those on a document.
LEMMA StepKinds ==
    ASSUME TypeInv, [Next]_vars
    PROVE  \/ QuietStep
           \/ EnterAny
           \/ \E r \in Runners, d \in Docs :
                 \/ SaveSnapshot(r, d)
                 \/ Pay(r, d) /\ ~dry[r]
                 \/ WriteTriage(r, d) \/ WriteMetadata(r, d) \/ MarkSuperseded(r, d)
                 \/ CarryOver(r, d)
                 \/ Upload(r, d)
<1>1. ASSUME NEW r \in Runners, NEW t \in 0..NDocs, BeginRun(r, t) PROVE EnterAny
  <2>1. PICK s \in RunStages :
              /\ EnterStage(r, s, t)
              /\ dry' = [dry EXCEPT ![r] = ResolveDryRun]
              /\ UNCHANGED firstRunDone
    BY <1>1, BeginRunEnters
  <2>2. dry'[r] = ResolveDryRun /\ \A q \in Runners : q # r => dry'[q] = dry[q]
    BY <2>1 DEF TypeInv, TypeOK
  <2> QED
    BY <2>1, <2>2 DEF EnterAny, EnterStep
<1>2. ASSUME NEW r \in Runners, NextStage(r) PROVE EnterAny
  <2>1. PICK s \in RunStages :
              /\ EnterStage(r, s, target[r])
              /\ UNCHANGED <<target, dry, stopped, firstRunDone, dryRuns>>
    BY <1>2, NextStageEnters
  <2>2. pc[r] # "idle" /\ target[r] \in 0..NDocs
    BY <1>2 DEF NextStage, StageDone, TypeInv, TypeOK
  <2> QED
    BY <2>1, <2>2 DEF EnterAny, EnterStep
<1>3. CASE UNCHANGED vars
  BY <1>3, StutterIsQuiet
<1>4. ASSUME NEW d \in Docs, NEW what \in {"tag", "field"}, UserEdit(d, what)
      PROVE  QuietStep
  BY <1>4, EditIsQuiet
<1> QED
  BY <1>1, <1>2, <1>3, <1>4, QuietSteps, Zenon DEF Next, RunStep, Trouble, WorkOn

\* Documents of the start are scans of their own.
LEMMA ScanInit == Init => ScanInv
<1> SUFFICES ASSUME Init PROVE ScanInv
  OBVIOUS
<1>1. \A d \in Docs : docs[d].present => origin[d] = d
  BY DEF Init
<1> QED
  BY <1>1 DEF Init, ScanInv, AllOut

\* ScanInv is inductive.
LEMMA ScanNext == TypeInv /\ ScanInv /\ [Next]_vars => ScanInv'
<1> SUFFICES ASSUME TypeInv, ScanInv, [Next]_vars PROVE ScanInv'
  OBVIOUS
<1>1. CASE EnterAny
  BY <1>1, EnterFacts, EnterScan DEF EnterAny, EnterStep
<1>2. ASSUME NEW r \in Runners, NEW d \in Docs,
             WriteTriage(r, d) \/ WriteMetadata(r, d) \/ MarkSuperseded(r, d)
      PROVE  ScanInv'
  BY <1>2, OwnWrites, WriteScan
<1>3. ASSUME NEW r \in Runners, NEW d \in Docs, CarryOver(r, d) PROVE ScanInv'
  BY <1>3, CopyWrite, WriteScan
<1> QED
  BY <1>1, <1>2, <1>3, StepKinds, QuietScan, SaveKeeps, PayKeeps, UploadKeeps

\* No document is written at the start.
LEMMA SnapInit == Init => SnapInv
<1> SUFFICES ASSUME Init PROVE SnapInv
  OBVIOUS
<1>1. \A s \in RunStages, d \in Docs : snapshots[s][d] = NoCopy
  BY DEF Init, NoCopies
<1>2. \A d \in Docs : docs[d].stage = ""
  <2>1. PICK n \in Docs, q \in [Docs -> Qualities] :
          docs = [d \in Docs |-> NewDoc(d <= n, q[d])]
    BY DEF Init
  <2> QED
    BY <2>1, Zenon DEF NewDoc
<1>3. \A s \in RunStages, d \in Docs : docs[d].stage # WrittenBy[s]
  <2>1. /\ WrittenBy["triage"] = "triaged" /\ WrittenBy["reocr"] = "reocr_done"
        /\ WrittenBy["metadata"] = "metadata_done"
    BY DEF WrittenBy
  <2> QED
    BY <1>2, <2>1, Zenon DEF RunStages
<1>4. SnapshotPredatesWrite
  BY <1>1, <1>3 DEF SnapshotPredatesWrite
<1>5. \A r \in Runners, d \in Docs : step[r][d] = "out"
  BY DEF Init, AllOut
<1> QED
  BY <1>2, <1>4, <1>5 DEF SnapInv

\* The write is of the stage the run is in, and its snapshot is there.
LEMMA OwnWriteHasSnapshot ==
    ASSUME TypeInv, SnapInv, NEW r \in Runners, NEW d \in Docs,
           WriteTriage(r, d) \/ WriteMetadata(r, d) \/ MarkSuperseded(r, d)
    PROVE  \A s \in RunStages : docs'[d].stage = WrittenBy[s] =>
               snapshots[s][d] # NoCopy
<1>1. \A s \in RunStages : docs'[d].stage = WrittenBy[s] => s = pc[r]
  <2>1. /\ WrittenBy["triage"] = "triaged" /\ WrittenBy["reocr"] = "reocr_done"
        /\ WrittenBy["metadata"] = "metadata_done"
    BY DEF WrittenBy
  <2>2. \/ pc[r] = "triage" /\ docs'[d].stage = "triaged"
        \/ pc[r] = "metadata" /\ docs'[d].stage = "metadata_done"
        \/ pc[r] = "reocr" /\ docs'[d].stage = "reocr_done"
    BY WriteTriageEffect, WriteMetadataEffect, MarkSupersededEffect
    DEF WriteTriage, WriteMetadata, MarkSuperseded, At
  <2> QED
    BY <2>1, <2>2 DEF RunStages
<1>2. step[r][d] \notin {"out", "queued"}
  BY DEF WriteTriage, WriteMetadata, MarkSuperseded, At
<1> QED
  BY <1>1, <1>2 DEF SnapInv

\* SnapInv is inductive where nothing is triaged again.
LEMMA SnapNext ==
    ASSUME ~Retriage
    PROVE  TypeInv /\ ScanInv /\ SnapInv /\ [Next]_vars => SnapInv'
<1> SUFFICES ASSUME TypeInv, ScanInv, SnapInv, [Next]_vars PROVE SnapInv'
  OBVIOUS
<1>1. CASE EnterAny
  BY <1>1, EnterFacts, EnterSnap DEF EnterAny, EnterStep
<1>2. ASSUME NEW r \in Runners, NEW d \in Docs,
             WriteTriage(r, d) \/ WriteMetadata(r, d) \/ MarkSuperseded(r, d)
      PROVE  SnapInv'
  <2>1. docs'[d].stage = "metadata_done" => snapshots["metadata"][d] # NoCopy
    BY <1>2, OwnWriteHasSnapshot DEF WrittenBy, RunStages
  <2> QED
    BY <1>2, <2>1, OwnWrites, OwnWriteHasSnapshot, WriteSnap
<1>3. ASSUME NEW r \in Runners, NEW d \in Docs, CarryOver(r, d) PROVE SnapInv'
  <2>1. /\ Writes(r, d, copy[r][d]) /\ copy[r][d] \in Docs
        /\ origin[copy[r][d]] # copy[r][d]
    BY <1>3, CopyWrite DEF ScanInv
  <2>2. docs'[copy[r][d]].stage # "metadata_done"
    BY <1>3, CarryOverEffect
  <2> QED
    BY <2>1, <2>2, WriteSnap
<1> QED
  BY <1>1, <1>2, <1>3, StepKinds, QuietSnap, SaveKeeps, PayKeeps, UploadKeeps

\* No document is triaged at the start.
LEMMA ScoreInit == Init => ScoreInv
<1> SUFFICES ASSUME Init PROVE ScoreInv
  OBVIOUS
<1>1. \A d \in Docs : docs[d].stage # "triaged"
  <2>1. PICK n \in Docs, q \in [Docs -> Qualities] :
          docs = [d \in Docs |-> NewDoc(d <= n, q[d])]
    BY DEF Init
  <2> QED
    BY <2>1, Zenon DEF NewDoc
<1>2. \A r \in Runners, d \in Docs : step[r][d] = "out"
  BY DEF Init, AllOut
<1> QED
  BY <1>1, <1>2 DEF ScoreInv, OnlyGarbageIsReocred

\* ScoreInv is inductive where the score is not scaled.
LEMMA ScoreNext ==
    ASSUME ScoreField = "float"
    PROVE  TypeInv /\ ScanInv /\ ScoreInv /\ [Next]_vars => ScoreInv'
<1> SUFFICES ASSUME TypeInv, ScanInv, ScoreInv, [Next]_vars PROVE ScoreInv'
  OBVIOUS
<1>1. CASE EnterAny
  BY <1>1, EnterFacts, EnterScore DEF EnterAny, EnterStep
<1>2. ASSUME NEW r \in Runners, NEW d \in Docs,
             WriteTriage(r, d) \/ WriteMetadata(r, d) \/ MarkSuperseded(r, d)
      PROVE  ScoreInv'
  <2>1. docs'[d].stage = "triaged" => docs'[d].score = docs[d].quality
    <3>1. CASE WriteTriage(r, d)
      <4>1. step[r][d] # "out"
        BY <3>1 DEF WriteTriage, At
      <4>2. view[r][d].quality = docs[d].quality
        BY <4>1 DEF ScanInv
      <4>3. docs'[d].score = Coerce(view[r][d].quality)
        BY <3>1, WriteTriageEffect
      <4> QED
        BY <4>2, <4>3 DEF Coerce
    <3>2. CASE WriteMetadata(r, d) \/ MarkSuperseded(r, d)
      BY <3>2, WriteMetadataEffect, MarkSupersededEffect
    <3> QED
      BY <1>2, <3>1, <3>2
  <2> QED
    BY <1>2, <2>1, OwnWrites, WriteScore
<1>3. ASSUME NEW r \in Runners, NEW d \in Docs, CarryOver(r, d) PROVE ScoreInv'
  <2>1. docs'[copy[r][d]].stage # "triaged"
    BY <1>3, CarryOverEffect
  <2> QED
    BY <1>3, <2>1, CopyWrite, WriteScore
<1> QED
  BY <1>1, <1>2, <1>3, StepKinds, QuietScore, SaveKeeps, PayKeeps, UploadKeeps

\* No document is touched at the start.
LEMMA DryInit == Init => DryInv
<1> SUFFICES ASSUME Init PROVE DryInv
  OBVIOUS
<1>1. \A d \in Docs : Untouched(d)
  <2>1. PICK n \in Docs, q \in [Docs -> Qualities] :
          docs = [d \in Docs |-> NewDoc(d <= n, q[d])]
    BY DEF Init
  <2> QED
    BY <2>1, Zenon DEF NewDoc, Untouched
<1>2. \A d \in Docs : origin[d] \in {0, d}
  BY DEF Init
<1>3. \A r \in Runners : ~dry[r] /\ pc[r] = "idle"
  BY DEF Init
<1> QED
  BY <1>1, <1>2, <1>3 DEF DryInv

\* DryInv is inductive.
LEMMA DryNext == TypeInv /\ ScanInv /\ DryInv /\ [Next]_vars => DryInv'
<1> SUFFICES ASSUME TypeInv, ScanInv, DryInv, [Next]_vars PROVE DryInv'
  OBVIOUS
<1>1. CASE EnterAny
  BY <1>1, EnterFacts, EnterDry DEF EnterAny, EnterStep
<1>2. ASSUME NEW r \in Runners, NEW d \in Docs,
             WriteTriage(r, d) \/ WriteMetadata(r, d) \/ MarkSuperseded(r, d)
      PROVE  DryInv'
  BY <1>2, OwnWrites, WriteDry
<1>3. ASSUME NEW r \in Runners, NEW d \in Docs, CarryOver(r, d) PROVE DryInv'
  BY <1>3, CopyWrite, WriteDry
<1> QED
  BY <1>1, <1>2, <1>3, StepKinds, QuietDry, SaveKeeps, PayKeeps, UploadKeeps

(***************************************************************************)
(* What is marked superseded has a replacement that is not.  With runs     *)
(* that overlap, a replacement may itself be replaced, and a run that holds *)
(* an old copy may take a mark back or put it on a copy.  The documents of *)
(* a scan can be ranked so that each one that is marked, or about to be,   *)
(* has one below it that some stage has written; the lowest is not marked. *)
(***************************************************************************)

Finished == {"triaged", "reocr_done", "metadata_done"}

\* Run r is about to mark d, or holds a copy of d that is marked.
Marking(r, d) ==
    \/ step[r][d] = "carried"
    \/ step[r][d] # "out" /\ "superseded" \in view[r][d].tags

Doomed(d) ==
    \/ "superseded" \in docs[d].tags
    \/ \E r \in Runners : Marking(r, d)

\* A document of the same scan, below d and written by a stage.
Below(f, d, c) ==
    f[c] < f[d] /\ origin[c] = origin[d] /\ docs[c].stage \in Finished

\* What a run has uploaded for d is of the same scan and below d, unless the
\* run took over the mark of d.
Succeeds(f, r, d) ==
    /\ docs[copy[r][d]].present
    /\ origin[copy[r][d]] = origin[d]
    /\ f[copy[r][d]] < f[d] \/ "superseded" \in view[r][d].tags

Ranked(f) ==
    /\ \A d \in Docs : Doomed(d) => \E c \in Docs : Below(f, d, c)
    /\ \A r \in Runners, d \in Docs : step[r][d] = "uploaded" => Succeeds(f, r, d)

\* A free id carries nothing.
FreeInv ==
    \A d \in Docs : ~docs[d].present =>
        docs[d].stage \notin Finished /\ docs[d].tags = {}

RankInv == FreeInv /\ \E f \in [Docs -> Nat] : Ranked(f)

\* A step that takes no document away, moves none to another scan or back to
\* no stage, and gives no run a copy.
Keeps ==
    /\ origin' = origin
    /\ \A d \in Docs : /\ docs'[d].present = docs[d].present
                       /\ docs[d].stage \in Finished => docs'[d].stage \in Finished
    /\ \A r \in Runners, d \in Docs : step'[r][d] = "uploaded" =>
          /\ step[r][d] = "uploaded"
          /\ copy'[r][d] = copy[r][d] /\ view'[r][d] = view[r][d]

\* Such a step keeps the order if the documents it dooms have one below them.
LEMMA KeepsRanked ==
    ASSUME TypeInv, Keeps, NEW f \in [Docs -> Nat], Ranked(f),
           \A d \in Docs : Doomed(d)' => Doomed(d) \/ \E c \in Docs : Below(f, d, c)'
    PROVE  Ranked(f)'
<1>1. \A d \in Docs, c \in Docs : Below(f, d, c) => Below(f, d, c)'
  BY DEF Below, Keeps
<1>2. \A d \in Docs : Doomed(d)' => \E c \in Docs : Below(f, d, c)'
  BY <1>1 DEF Ranked
<1>3. ASSUME NEW r \in Runners, NEW d \in Docs, step'[r][d] = "uploaded"
      PROVE  Succeeds(f, r, d)'
  <2>1. step[r][d] = "uploaded" /\ copy'[r][d] = copy[r][d] /\ view'[r][d] = view[r][d]
        /\ origin' = origin
    BY <1>3 DEF Keeps
  <2>2. copy[r][d] \in Docs /\ Succeeds(f, r, d)
    BY <2>1 DEF TypeInv, Held, Ranked
  <2>3. docs'[copy[r][d]].present = docs[copy[r][d]].present
    BY <2>2 DEF Keeps
  <2> QED
    BY <2>1, <2>2, <2>3 DEF Succeeds
<1> QED
  BY <1>2, <1>3 DEF Ranked

\* A step that dooms no document keeps the order.
LEMMA HarmlessRanked ==
    ASSUME TypeInv, Keeps, FreeInv => FreeInv', \A d \in Docs : Doomed(d)' => Doomed(d),
           RankInv
    PROVE  RankInv'
<1>1. PICK f \in [Docs -> Nat] : Ranked(f)
  BY DEF RankInv
<1>2. Ranked(f)'
  BY <1>1, KeepsRanked
<1> QED
  BY <1>2 DEF RankInv

\* Quiet steps doom nothing.
LEMMA QuietRank == ASSUME TypeInv, RankInv, QuietStep PROVE RankInv'
<1>1. Keeps
  BY DEF Keeps, QuietStep, DropOnly
<1>2. FreeInv => FreeInv'
  BY DEF FreeInv, QuietStep
<1>3. \A r \in Runners, d \in Docs : Marking(r, d)' => Marking(r, d)
  BY DEF Marking, QuietStep, DropOnly
<1>4. \A d \in Docs : Doomed(d)' => Doomed(d)
  BY <1>3 DEF Doomed, QuietStep
<1> QED
  BY <1>1, <1>2, <1>4, HarmlessRanked

\* A fetched copy is marked if the document is.
LEMMA EnterRank ==
    ASSUME TypeInv, RankInv, NEW r \in Runners, NEW s \in RunStages, NEW t,
           Entered(r, s, t)
    PROVE  RankInv'
<1>1. Keeps
  BY DEF Keeps, Entered
<1>2. FreeInv => FreeInv'
  BY DEF FreeInv, Entered
<1>3. ASSUME NEW q \in Runners, NEW d \in Docs, Marking(q, d)'
      PROVE  Marking(q, d) \/ "superseded" \in docs[d].tags
  BY <1>3 DEF Marking, Entered
<1>4. \A d \in Docs : Doomed(d)' => Doomed(d)
  BY <1>3 DEF Doomed, Entered
<1> QED
  BY <1>1, <1>2, <1>4, HarmlessRanked

\* Neither saving the snapshot nor paying dooms a document.
LEMMA MoveRank ==
    ASSUME TypeInv, RankInv, NEW r \in Runners, NEW d \in Docs,
           NEW label \in {"saved", "paid"}, Moved(r, d, label), step[r][d] # "out",
           UNCHANGED <<docs, origin, copy>>
    PROVE  RankInv'
<1>1. Keeps
  BY DEF Keeps, Moved
<1>2. FreeInv => FreeInv'
  BY DEF FreeInv
<1>3. \A q \in Runners, e \in Docs : Marking(q, e)' => Marking(q, e)
  BY DEF Marking, Moved
<1>4. \A e \in Docs : Doomed(e)' => Doomed(e)
  BY <1>3 DEF Doomed
<1> QED
  BY <1>1, <1>2, <1>4, HarmlessRanked

\* A write puts a mark only where its run was about to.
LEMMA OwnWriteRank ==
    ASSUME TypeInv, ScanInv, RankInv, NEW r \in Runners, NEW d \in Docs,
           WriteTriage(r, d) \/ WriteMetadata(r, d) \/ MarkSuperseded(r, d)
    PROVE  RankInv'
<1>1. Writes(r, d, d)
  BY OwnWrites
<1>2. docs'[d].stage \in Finished /\ docs[d].present
  BY <1>1, WriteTriageEffect, WriteMetadataEffect, MarkSupersededEffect
  DEF Finished, Writes, ScanInv
<1>3. ASSUME NEW q \in Runners, NEW x \in Docs, step'[q][x] # "out"
      PROVE  step'[q][x] = step[q][x] /\ view'[q][x] = view[q][x] /\ copy'[q][x] = copy[q][x]
  <2>1. Leave(r, d) /\ UNCHANGED <<pc, target, dry, stopped>>
    BY DEF WriteTriage, WriteMetadata, MarkSuperseded, RunUnchanged
  <2> QED
    BY <1>3, <2>1, LeaveDrops DEF TypeInv, DropOnly
<1>4. Keeps
  BY <1>1, <1>2, <1>3 DEF Keeps, Writes
<1>5. FreeInv => FreeInv'
  BY <1>1, <1>2 DEF FreeInv, Writes
<1>6. \A q \in Runners, x \in Docs : Marking(q, x)' => Marking(q, x)
  BY <1>3 DEF Marking
<1>7. "superseded" \in docs'[d].tags => "superseded" \in docs[d].tags \/ Marking(r, d)
  <2>1. CASE WriteTriage(r, d)
    <3>1. docs'[d].tags = docs[d].tags
      BY <2>1, WriteTriageEffect
    <3> QED
      BY <3>1
  <2>2. CASE WriteMetadata(r, d)
    <3>1. docs'[d].tags = view[r][d].tags \cup {"extracted"} /\ step[r][d] # "out"
      BY <2>2, WriteMetadataEffect DEF WriteMetadata, At
    <3> QED
      BY <3>1 DEF Marking
  <2>3. CASE MarkSuperseded(r, d)
    BY <2>3 DEF Marking, MarkSuperseded, At
  <2> QED
    BY <2>1, <2>2, <2>3
<1>8. \A x \in Docs : Doomed(x)' => Doomed(x)
  BY <1>1, <1>6, <1>7 DEF Doomed, Writes
<1> QED
  BY <1>4, <1>5, <1>8, HarmlessRanked

\* From when its copy is finished a document is about to be marked.
LEMMA CarryOverRank ==
    ASSUME TypeInv, ScanInv, RankInv, NEW r \in Runners, NEW d \in Docs, CarryOver(r, d)
    PROVE  RankInv'
<1> DEFINE c == copy[r][d]
<1>1. /\ Writes(r, d, c) /\ c \in Docs /\ step[r][d] = "uploaded"
      /\ docs'[c].stage \in Finished /\ docs'[c].tags = docs[c].tags
  BY CopyWrite, CarryOverEffect DEF Finished
<1>2. PICK f \in [Docs -> Nat] : Ranked(f)
  BY DEF RankInv
<1>3. Succeeds(f, r, d)
  BY <1>1, <1>2 DEF Ranked
<1> HIDE DEF c
<1>4. Keeps
  <2>1. \A q \in Runners, x \in Docs : step'[q][x] = "uploaded" =>
            /\ step[q][x] = "uploaded"
            /\ copy'[q][x] = copy[q][x] /\ view'[q][x] = view[q][x]
    BY <1>1 DEF Writes
  <2> QED
    BY <1>1, <2>1 DEF Keeps, Writes
<1>5. FreeInv'
  <2>1. docs[c].present
    BY <1>3 DEF Succeeds, c
  <2>2. docs'[c].present /\ \A x \in Docs : x # c => docs'[x] = docs[x]
    BY <1>1, <2>1 DEF Writes
  <2>3. FreeInv
    BY DEF RankInv
  <2> QED
    BY <2>2, <2>3 DEF FreeInv
<1>6. ASSUME NEW q \in Runners, NEW x \in Docs, Marking(q, x)', ~(q = r /\ x = d)
      PROVE  Marking(q, x)
  <2>1. step'[q][x] # "out"
    BY <1>6 DEF Marking
  <2>2. view'[q][x] = view[q][x] /\ step'[q][x] = step[q][x]
    BY <1>1, <1>6, <2>1 DEF Writes
  <2> QED
    BY <1>6, <2>2 DEF Marking
<1>7. \A x \in Docs : Doomed(x)' => Doomed(x) \/ x = d
  BY <1>1, <1>6 DEF Doomed, Writes
<1>8. Doomed(d) \/ \E x \in Docs : Below(f, d, x)'
  <2>1. CASE "superseded" \in view[r][d].tags
    BY <1>1, <2>1 DEF Doomed, Marking
  <2>2. CASE f[c] < f[d]
    BY <1>1, <1>3, <2>2 DEF Below, Succeeds, Writes, c
  <2> QED
    BY <1>3, <2>1, <2>2 DEF Succeeds, c
<1>9. \A x \in Docs : Doomed(x)' => Doomed(x) \/ \E y \in Docs : Below(f, x, y)'
  BY <1>7, <1>8
<1>10. Ranked(f)'
  BY <1>2, <1>4, <1>9, KeepsRanked
<1> QED
  BY <1>5, <1>10 DEF RankInv

\* A copy takes the place of its document if the run saw it marked, and a
\* place below it otherwise.
Placed(f, d, c, marked) ==
    [x \in Docs |-> IF x = c THEN f[d] ELSE IF marked THEN f[x] ELSE f[x] + 1]

\* Where the documents are then.
LEMMA PlacedOrder ==
    ASSUME NEW f \in [Docs -> Nat], NEW d \in Docs, NEW c \in Docs, c # d,
           NEW marked \in BOOLEAN, NEW g, g = Placed(f, d, c, marked)
    PROVE  /\ g \in [Docs -> Nat]
           /\ \A x \in Docs, y \in Docs : x # c /\ y # c => (g[x] < g[y] <=> f[x] < f[y])
           /\ marked => \A x \in Docs : x # c => (g[x] < g[c] <=> f[x] < f[d])
           /\ ~marked => g[c] < g[d]
BY DEF Placed

\* An upload ranks the copy.
LEMMA UploadRank ==
    ASSUME TypeInv, ScanInv, RankInv, NEW r \in Runners, NEW d \in Docs, Upload(r, d)
    PROVE  RankInv'
<1>1. PICK c \in Docs : Uploaded(r, d, c)
  BY UploadFacts
<1>2. PICK f \in [Docs -> Nat] : Ranked(f)
  BY DEF RankInv
<1>3. docs[d].present /\ c # d
  BY <1>1 DEF ScanInv, Uploaded
<1>4. docs[c].stage \notin Finished /\ "superseded" \notin docs[c].tags
  BY <1>1 DEF RankInv, FreeInv, Uploaded
<1>5. PICK marked \in BOOLEAN : marked <=> "superseded" \in view[r][d].tags
  OBVIOUS
<1>6. PICK g : g = Placed(f, d, c, marked)
  OBVIOUS
<1>7. /\ g \in [Docs -> Nat]
      /\ \A x \in Docs, y \in Docs : x # c /\ y # c => (g[x] < g[y] <=> f[x] < f[y])
      /\ marked => \A x \in Docs : x # c => (g[x] < g[c] <=> f[x] < f[d])
      /\ ~marked => g[c] < g[d]
  BY <1>3, <1>6, PlacedOrder
<1>8. ASSUME NEW q \in Runners, NEW x \in Docs, Marking(q, x)'
      PROVE  Marking(q, x) /\ x # c
  <2>1. step'[q][x] # "out" /\ view'[q][x] = view[q][x] /\ step[q][x] # "out"
        /\ (step'[q][x] = "carried" => step[q][x] = "carried")
    BY <1>1, <1>8 DEF Marking, Uploaded
  <2> QED
    BY <1>1, <1>8, <2>1 DEF Marking, Uploaded, ScanInv
<1>9. ASSUME NEW x \in Docs, x # c, Doomed(x)
      PROVE  \E y \in Docs : Below(g, x, y)' /\ y # c
  <2>1. PICK y \in Docs : Below(f, x, y)
    BY <1>2, <1>9 DEF Ranked
  <2>2. y # c
    BY <1>4, <2>1 DEF Below
  <2> QED
    BY <1>1, <1>7, <1>9, <2>1, <2>2 DEF Below, Uploaded
<1>10. ASSUME NEW x \in Docs, Doomed(x)'
       PROVE  \E y \in Docs : Below(g, x, y)'
  <2>1. CASE x # c
    BY <1>1, <1>8, <1>9, <1>10, <2>1 DEF Doomed, Uploaded
  <2>2. CASE x = c
    <3>1. marked
      BY <1>1, <1>5, <1>8, <1>10, <2>2 DEF Doomed, Uploaded
    <3>2. Doomed(d)
      BY <1>1, <1>5, <3>1 DEF Doomed, Marking, Uploaded
    <3>3. PICK y \in Docs : Below(f, d, y)
      BY <1>2, <3>2 DEF Ranked
    <3>4. y # c
      BY <1>4, <3>3 DEF Below
    <3> QED
      BY <1>1, <1>3, <1>7, <2>2, <3>1, <3>3, <3>4 DEF Below, Uploaded
  <2> QED
    BY <2>1, <2>2
<1>11. ASSUME NEW q \in Runners, NEW x \in Docs, step'[q][x] = "uploaded"
       PROVE  Succeeds(g, q, x)'
  <2>1. CASE q = r /\ x = d
    BY <1>1, <1>3, <1>5, <1>7, <2>1 DEF Succeeds, Uploaded
  <2>2. CASE ~(q = r /\ x = d)
    <3>1. step[q][x] = "uploaded" /\ copy'[q][x] = copy[q][x] /\ view'[q][x] = view[q][x]
      BY <1>1, <1>11, <2>2 DEF Uploaded
    <3>2. copy[q][x] \in Docs /\ Succeeds(f, q, x) /\ docs[x].present
      BY <1>2, <3>1 DEF Ranked, TypeInv, Held, ScanInv
    <3>3. copy[q][x] # c /\ x # c
      BY <1>1, <3>2 DEF Succeeds, Uploaded
    <3> QED
      BY <1>1, <1>7, <3>1, <3>2, <3>3 DEF Succeeds, Uploaded
  <2> QED
    BY <2>1, <2>2
<1>12. Ranked(g)'
  BY <1>10, <1>11 DEF Ranked
<1>13. FreeInv'
  BY <1>1 DEF RankInv, FreeInv, Uploaded
<1> QED
  BY <1>7, <1>12, <1>13 DEF RankInv

\* At the start nothing is marked.
LEMMA RankInit == Init => RankInv
<1> SUFFICES ASSUME Init PROVE RankInv
  OBVIOUS
<1>1. \A d \in Docs : docs[d].stage \notin Finished /\ docs[d].tags = {}
  <2>1. PICK n \in Docs, q \in [Docs -> Qualities] :
            docs = [d \in Docs |-> NewDoc(d <= n, q[d])]
    BY DEF Init
  <2>2. ASSUME NEW d \in Docs PROVE docs[d].stage = "" /\ docs[d].tags = {}
    BY <2>1, Zenon DEF NewDoc
  <2> QED
    BY <2>2, Zenon DEF Finished
<1>2. \A r \in Runners, d \in Docs : step[r][d] = "out"
  BY DEF Init, AllOut
<1>3. \A f : Ranked(f)
  BY <1>1, <1>2 DEF Ranked, Doomed, Marking
<1>4. Nothing \in [Docs -> Nat]
  BY DEF Nothing
<1> QED
  BY <1>1, <1>3, <1>4 DEF RankInv, FreeInv

\* RankInv is inductive, given type correctness and ScanInv.
LEMMA RankNext == TypeInv /\ ScanInv /\ RankInv /\ [Next]_vars => RankInv'
<1> SUFFICES ASSUME TypeInv, ScanInv, RankInv, [Next]_vars PROVE RankInv'
  OBVIOUS
<1>1. CASE EnterAny
  BY <1>1, EnterFacts, EnterRank DEF EnterAny, EnterStep
<1>2. ASSUME NEW r \in Runners, NEW d \in Docs, SaveSnapshot(r, d) PROVE RankInv'
  <2>1. Moved(r, d, "saved") /\ UNCHANGED <<docs, origin, copy>> /\ step[r][d] # "out"
    BY <1>2, SavedMoves DEF SaveSnapshot
  <2> QED
    BY <2>1, MoveRank
<1>3. ASSUME NEW r \in Runners, NEW d \in Docs, Pay(r, d), ~dry[r] PROVE RankInv'
  <2>1. Moved(r, d, "paid") /\ UNCHANGED <<docs, origin, copy>> /\ step[r][d] # "out"
    BY <1>3, PaidMoves
  <2> QED
    BY <2>1, MoveRank
<1> QED
  BY <1>1, <1>2, <1>3, StepKinds, QuietRank, OwnWriteRank, CarryOverRank, UploadRank

\* A nonempty set of numbers has a least one.
LEMMA LeastNumber ==
    ASSUME NEW T, T \subseteq Nat, T # {}
    PROVE  \E m \in T : \A n \in T : m <= n
<1>1. PICK m \in T : \A n \in T : ~(<<n, m>> \in OpToRel(<, Nat))
  BY NatLessThanWellFounded, WFMin
<1>2. \A n \in T : ~(n < m)
  BY <1>1 DEF OpToRel
<1> QED
  BY <1>2

\* The lowest finished document of a scan is not marked.
LEMMA RankIsEnough ==
    ASSUME TypeInv, RankInv PROVE SupersededHasReplacement
<1> SUFFICES ASSUME NEW d \in Docs, "superseded" \in docs[d].tags
             PROVE  \E c \in Docs : /\ origin[c] = origin[d]
                                    /\ docs[c].stage \in Finished
                                    /\ "superseded" \notin docs[c].tags
  <2>1. \A x : x \in Finished => x # ""
    BY Zenon DEF Finished
  <2> QED
    BY <2>1, Zenon DEF SupersededHasReplacement
<1>1. PICK f \in [Docs -> Nat] : Ranked(f)
  BY DEF RankInv
<1> DEFINE S == {c \in Docs : origin[c] = origin[d] /\ docs[c].stage \in Finished}
           T == {f[c] : c \in S}
<1>2. T \subseteq Nat
  OBVIOUS
<1>3. T # {}
  <2>1. PICK c \in Docs : Below(f, d, c)
    BY <1>1 DEF Ranked, Doomed
  <2> QED
    BY <2>1 DEF Below
<1>4. PICK m \in T : \A n \in T : m <= n
  <2> HIDE DEF T
  <2> QED
    BY <1>2, <1>3, LeastNumber
<1>5. PICK c \in S : f[c] = m
  BY <1>4
<1>6. "superseded" \notin docs[c].tags
  <2> SUFFICES ASSUME "superseded" \in docs[c].tags PROVE FALSE
    OBVIOUS
  <2>1. PICK e \in Docs : Below(f, c, e)
    BY <1>1, <1>5 DEF Ranked, Doomed
  <2>2. e \in S /\ f[e] < f[c]
    BY <1>5, <2>1 DEF Below
  <2> QED
    BY <1>4, <1>5, <2>2
<1> QED
  BY <1>5, <1>6

(***************************************************************************)
(* Runs that do not overlap.                                               *)
(***************************************************************************)

OneRunner == \A q, r \in Runners : q = r

\* Stage s has been through with document d, or something later has.
Done(s, d) == Rank[docs[d].stage] >= Rank[WrittenBy[s]]

\* A run of stage s has paid for d and not used the answer yet.
Taken(s, d) == \E r \in Runners : pc[r] = s /\ step[r][d] \in InHand

\* Run r may work on d: its stage is not done with d, or may do it again.
Open(r, d) ==
    \/ ~Done(pc[r], d)
    \/ pc[r] = "metadata" /\ "metadata_done" \in EligibleRoles

\* A stage works on documents that are open to it, and on no copy it made.
QueueInv ==
    \A r \in Runners, d \in Docs :
        /\ step[r][d] # "out" => Open(r, d)
        /\ step[r][d] \in {"uploaded", "carried"} =>
              /\ step[r][copy[r][d]] = "out"
              /\ docs[copy[r][d]].stage # "metadata_done"

\* Only where the answer was used, or is in hand, is a payment not wasted.
PaidInv ==
    \A s \in Billable, d \in Docs :
        /\ paid[s][d] <= 1 + wasted[s][d] + proposed[s][d]
        /\ Done(s, d) \/ Taken(s, d) \/ paid[s][d] <= wasted[s][d] + proposed[s][d]

\* Run r, a dry one, may still propose stage s for d.
Waiting(r, d) == step[r][d] \in {"queued", "saved"}
Still(r, s, d) ==
    /\ pc[r] # "idle" /\ dry[r]
    /\ Position[pc[r]] < Position[s] \/ (pc[r] = s /\ Waiting(r, d))

\* Each dry run proposes a stage for a document once: one that has not done so
\* yet is not among those that did.
ProposeInv ==
    \A s \in Billable, d \in Docs :
        /\ proposed[s][d] <= dryRuns
        /\ \A r \in Runners : Still(r, s, d) => proposed[s][d] < dryRuns

\* No document goes back.
Forward == \A d \in Docs : Rank[docs'[d].stage] >= Rank[docs[d].stage]

\* Nothing is paid, and what is no longer in hand was wasted.
Accounted ==
    /\ UNCHANGED <<paid, proposed>>
    /\ \A s \in Billable, d \in Docs :
          /\ wasted'[s][d] >= wasted[s][d]
          /\ Taken(s, d) => Taken(s, d)' \/ wasted'[s][d] >= wasted[s][d] + 1

\* The ranks of what the stages write.
LEMMA WrittenRanks ==
    /\ Rank[WrittenBy["triage"]] = 1
    /\ Rank[WrittenBy["reocr"]] = 2
    /\ Rank[WrittenBy["metadata"]] = 3
    /\ \A x \in Stages : x \notin Finished => Rank[x] = 0
<1>1. /\ WrittenBy["triage"] = "triaged" /\ WrittenBy["reocr"] = "reocr_done"
      /\ WrittenBy["metadata"] = "metadata_done"
  BY DEF WrittenBy
<1>2. \A x \in Stages : x \notin Finished => Rank[x] = 0
  BY RankValues, Zenon DEF Finished
<1> QED
  BY <1>1, <1>2, RankNumbers

\* The stage of a document has a rank.
LEMMA DocRank ==
    ASSUME TypeOK, NEW d \in Docs
    PROVE  docs[d].stage \in Stages /\ Rank[docs[d].stage] \in {0, 1, 2, 3}
<1>1. docs[d].stage \in Stages
  BY DEF TypeOK, DocRecord
<1> QED
  BY <1>1, RankNumbers

\* Unless triage is forced, a queue holds documents its stage is not done with,
\* or finished documents whose metadata may be done again.
LEMMA QueueIsOpen ==
    ASSUME TypeInv, ~Retriage, NEW s \in RunStages, NEW t, NEW d \in Queue(s, t)
    PROVE  ~Done(s, d) \/ (s = "metadata" /\ "metadata_done" \in EligibleRoles)
<1>1. /\ d \in Docs
      /\ s = "triage" => Retriage \/ ~AlreadyTriaged(docs[d])
      /\ s = "reocr" => ReocrMatches(docs[d])
      /\ s = "metadata" => MetadataEligible(docs[d])
  BY QueueFacts DEF TypeInv
<1>2. docs[d].stage \in Stages /\ Rank[docs[d].stage] \in {0, 1, 2, 3}
  BY <1>1, DocRank DEF TypeInv
<1>3. CASE s = "triage"
  <2>1. ~(Rank[docs[d].stage] >= 1)
    BY <1>1, <1>3, RankNumbers DEF AlreadyTriaged
  <2> QED
    BY <1>3, <2>1, WrittenRanks DEF Done
<1>4. CASE s = "reocr"
  <2>1. Rank[docs[d].stage] = 1
    BY <1>1, <1>4, RankNumbers DEF ReocrMatches
  <2> QED
    BY <1>4, <2>1, WrittenRanks DEF Done
<1>5. CASE s = "metadata" /\ "metadata_done" \notin EligibleRoles
  <2>1. docs[d].stage # "metadata_done"
    BY <1>1, <1>5 DEF MetadataEligible
  <2>2. Rank[docs[d].stage] \in {0, 1, 2}
    BY <1>2, <2>1, RankNumbers
  <2> QED
    BY <1>5, <2>2, WrittenRanks DEF Done
<1> QED
  BY <1>3, <1>4, <1>5 DEF RunStages

\* A stage that writes into a document it works on takes it forward to done.
LEMMA OwnWriteForward ==
    ASSUME TypeInv, QueueInv, NEW r \in Runners, NEW d \in Docs,
           WriteTriage(r, d) \/ WriteMetadata(r, d) \/ MarkSuperseded(r, d)
    PROVE  Forward /\ Done(pc[r], d)' /\ pc' = pc
           /\ Rank[docs'[d].stage] = Rank[WrittenBy[pc[r]]]
<1>1. \/ pc[r] = "triage" /\ docs'[d].stage = "triaged"
      \/ pc[r] = "metadata" /\ docs'[d].stage = "metadata_done"
      \/ pc[r] = "reocr" /\ docs'[d].stage = "reocr_done"
  <2>1. WriteTriage(r, d) => pc[r] = "triage" /\ docs'[d].stage = "triaged"
    BY WriteTriageEffect, Zenon DEF WriteTriage, At
  <2>2. WriteMetadata(r, d) => pc[r] = "metadata" /\ docs'[d].stage = "metadata_done"
    BY WriteMetadataEffect, Zenon DEF WriteMetadata, At
  <2>3. MarkSuperseded(r, d) => pc[r] = "reocr" /\ docs'[d].stage = "reocr_done"
    BY MarkSupersededEffect, Zenon DEF MarkSuperseded, At
  <2> QED
    BY <2>1, <2>2, <2>3
<1>2. Rank[docs'[d].stage] = Rank[WrittenBy[pc[r]]] /\ Rank[docs'[d].stage] \in {1, 2, 3}
  BY <1>1, RankNumbers, WrittenRanks
<1>3. /\ step[r][d] # "out" /\ pc' = pc
      /\ \A x \in Docs : x # d => docs'[x] = docs[x]
  BY OwnWrites DEF Writes
<1>4. \A x \in Docs : Rank[docs[x].stage] \in {0, 1, 2, 3}
  BY DocRank DEF TypeInv
<1>5. Rank[docs[d].stage] <= Rank[WrittenBy[pc[r]]]
  <2>1. ~Done(pc[r], d) \/ Rank[WrittenBy[pc[r]]] = 3
    BY <1>3, WrittenRanks DEF QueueInv, Open
  <2> QED
    BY <1>2, <1>4, <2>1 DEF Done
<1>6. Forward
  BY <1>2, <1>3, <1>4, <1>5 DEF Forward
<1>7. Done(pc[r], d)'
  <2>1. Rank[docs'[d].stage] >= Rank[WrittenBy[pc'[r]]]
    BY <1>2, <1>3
  <2> QED
    BY <2>1 DEF Done
<1> QED
  BY <1>2, <1>3, <1>6, <1>7

\* Carrying over takes the copy forward.
LEMMA CarryOverForward ==
    ASSUME TypeInv, QueueInv, NEW r \in Runners, NEW d \in Docs, CarryOver(r, d)
    PROVE  Forward
<1> DEFINE c == copy[r][d]
<1>1. c \in Docs /\ step[r][d] = "uploaded" /\ Writes(r, d, c)
  BY CopyWrite
<1>2. docs'[c].stage = "reocr_done"
  BY CarryOverEffect
<1>3. docs[c].stage # "metadata_done"
  BY <1>1 DEF QueueInv
<1>4. Rank[docs[c].stage] \in {0, 1, 2} /\ Rank[docs'[c].stage] = 2
  BY <1>1, <1>2, <1>3, DocRank, RankNumbers DEF TypeInv
<1>5. \A x \in Docs : Rank[docs[x].stage] \in {0, 1, 2, 3}
  BY DocRank DEF TypeInv
<1>6. \A x \in Docs : x # c => docs'[x] = docs[x]
  BY <1>1 DEF Writes
<1> QED
  BY <1>4, <1>5, <1>6 DEF Forward

\* An upload fills an id that had no stage.
LEMMA UploadForward ==
    ASSUME TypeInv, FreeInv, NEW r \in Runners, NEW d \in Docs, Upload(r, d)
    PROVE  Forward
<1>1. PICK c \in Docs : UploadsTo(r, d, c)
  BY UploadEffect
<1>2. docs[c].stage \notin Finished
  BY <1>1, Zenon DEF UploadsTo, FreeInv
<1>3. Rank[docs[c].stage] = 0
  BY <1>2, DocRank, WrittenRanks DEF TypeInv
<1>4. Rank[docs'[c].stage] = 0
  BY <1>1, RankValues, Zenon DEF UploadsTo
<1>5. \A x \in Docs : Rank[docs[x].stage] \in {0, 1, 2, 3}
  BY DocRank DEF TypeInv
<1>6. \A x \in Docs : x # c => docs'[x] = docs[x]
  BY <1>1, Zenon DEF UploadsTo
<1> QED
  BY <1>3, <1>4, <1>5, <1>6 DEF Forward

\* Every step takes documents forward only.
LEMMA ForwardNext ==
    ASSUME TypeInv, FreeInv, QueueInv, [Next]_vars PROVE Forward
<1>1. \A x \in Docs : Rank[docs[x].stage] \in {0, 1, 2, 3}
  BY DocRank DEF TypeInv
<1>2. CASE \A x \in Docs : docs'[x].stage = docs[x].stage
  BY <1>1, <1>2 DEF Forward
<1>3. QuietStep => \A x \in Docs : docs'[x].stage = docs[x].stage
  BY DEF QuietStep
<1>4. EnterAny => \A x \in Docs : docs'[x].stage = docs[x].stage
  BY EnterFacts DEF EnterAny, EnterStep, Entered
<1>5. ASSUME NEW r \in Runners, NEW d \in Docs, SaveSnapshot(r, d)
      PROVE  \A x \in Docs : docs'[x].stage = docs[x].stage
  BY <1>5, SavedMoves
<1>6. ASSUME NEW r \in Runners, NEW d \in Docs, Pay(r, d), ~dry[r]
      PROVE  \A x \in Docs : docs'[x].stage = docs[x].stage
  BY <1>6, PaidMoves
<1> QED
  BY <1>2, <1>3, <1>4, <1>5, <1>6, StepKinds, OwnWriteForward, CarryOverForward,
     UploadForward

\* The queue of a lone run: steps that only drop or move on.
LEMMA QuietQueue == ASSUME TypeInv, QueueInv, QuietStep PROVE QueueInv'
<1> SUFFICES ASSUME NEW r \in Runners, NEW d \in Docs, step'[r][d] # "out"
    PROVE  /\ Open(r, d)'
           /\ step'[r][d] \in {"uploaded", "carried"} =>
                 /\ step'[r][copy'[r][d]] = "out"
                 /\ docs'[copy'[r][d]].stage # "metadata_done"
  BY DEF QueueInv
<1>1. /\ step'[r][d] = step[r][d] /\ copy'[r][d] = copy[r][d] /\ pc'[r] = pc[r]
      /\ \A x \in Docs : docs'[x].stage = docs[x].stage
      /\ \A x \in Docs : step'[r][x] \in {"out", step[r][x]}
  BY DEF QuietStep, DropOnly
<1>2. Open(r, d)'
  BY <1>1 DEF QueueInv, Open, Done
<1>3. step[r][d] \in {"uploaded", "carried"} => copy[r][d] \in Docs
  BY DEF TypeInv, Held
<1> QED
  BY <1>1, <1>2, <1>3 DEF QueueInv

\* Entering a stage.
LEMMA EnterQueue ==
    ASSUME TypeInv, ~Retriage, OneRunner, NEW r \in Runners, NEW s \in RunStages,
           NEW t, Entered(r, s, t)
    PROVE  QueueInv'
<1> SUFFICES ASSUME NEW d \in Docs, step'[r][d] # "out"
    PROVE  Open(r, d)' /\ step'[r][d] = "queued"
  BY DEF QueueInv, OneRunner
<1>1. step'[r][d] = "queued" /\ d \in Queue(s, t) /\ pc'[r] = s /\ docs' = docs
  BY DEF Entered
<1>2. ~Done(s, d) \/ (s = "metadata" /\ "metadata_done" \in EligibleRoles)
  BY <1>1, QueueIsOpen
<1> QED
  BY <1>1, <1>2 DEF Open, Done

\* Moving on without a write.
LEMMA MoveQueue ==
    ASSUME TypeInv, QueueInv, NEW r \in Runners, NEW d \in Docs,
           NEW label \in {"saved", "paid"},
           step[r][d] # "out", Moved(r, d, label), UNCHANGED <<docs, copy>>
    PROVE  QueueInv'
<1> SUFFICES ASSUME NEW q \in Runners, NEW x \in Docs, step'[q][x] # "out"
    PROVE  /\ Open(q, x)'
           /\ step'[q][x] \in {"uploaded", "carried"} =>
                 /\ step'[q][copy'[q][x]] = "out"
                 /\ docs'[copy'[q][x]].stage # "metadata_done"
  BY DEF QueueInv
<1>1. step[q][x] # "out" /\ (step'[q][x] \in {"uploaded", "carried"} =>
            step[q][x] \in {"uploaded", "carried"})
  BY DEF Moved
<1>2. Open(q, x)'
  BY <1>1 DEF QueueInv, Open, Done, Moved
<1>3. ASSUME step'[q][x] \in {"uploaded", "carried"}
      PROVE  step'[q][copy'[q][x]] = "out" /\ docs'[copy'[q][x]].stage # "metadata_done"
  <2>1. /\ copy[q][x] \in Docs /\ step[q][copy[q][x]] = "out"
        /\ docs[copy[q][x]].stage # "metadata_done"
    BY <1>1, <1>3 DEF QueueInv, TypeInv, Held
  <2>2. ~(q = r /\ copy[q][x] = d)
    BY <2>1
  <2> QED
    BY <2>1, <2>2 DEF Moved
<1> QED
  BY <1>2, <1>3

\* The write to the document itself ends the work on it.
LEMMA OwnWriteQueue ==
    ASSUME TypeInv, QueueInv, OneRunner, NEW r \in Runners, NEW d \in Docs,
           WriteTriage(r, d) \/ WriteMetadata(r, d) \/ MarkSuperseded(r, d)
    PROVE  QueueInv'
<1>1. Writes(r, d, d)
  BY OwnWrites
<1>2. step'[r][d] = "out"
  <2>1. Leave(r, d) /\ UNCHANGED <<pc, target, dry, stopped>>
    BY DEF WriteTriage, WriteMetadata, MarkSuperseded, RunUnchanged
  <2> QED
    BY <2>1, LeaveDrops DEF TypeInv
<1> SUFFICES ASSUME NEW x \in Docs, step'[r][x] # "out"
    PROVE  /\ Open(r, x)'
           /\ step'[r][x] \in {"uploaded", "carried"} =>
                 /\ step'[r][copy'[r][x]] = "out"
                 /\ docs'[copy'[r][x]].stage # "metadata_done"
  BY DEF QueueInv, OneRunner
<1>3. /\ x # d /\ docs'[x] = docs[x] /\ pc' = pc
      /\ step'[r][x] = step[r][x] /\ copy'[r][x] = copy[r][x]
  BY <1>1, <1>2 DEF Writes
<1>4. Open(r, x)'
  BY <1>3 DEF QueueInv, Open, Done
<1>5. ASSUME step'[r][x] \in {"uploaded", "carried"}
      PROVE  step'[r][copy'[r][x]] = "out" /\ docs'[copy'[r][x]].stage # "metadata_done"
  <2>1. /\ copy[r][x] \in Docs /\ step[r][copy[r][x]] = "out"
        /\ docs[copy[r][x]].stage # "metadata_done"
    BY <1>3, <1>5 DEF QueueInv, TypeInv, Held
  <2>2. copy[r][x] # d
    BY <1>1, <2>1 DEF Writes
  <2> QED
    BY <1>1, <1>3, <2>1, <2>2 DEF Writes
<1> QED
  BY <1>4, <1>5

\* The write to the copy touches nothing the run works on.
LEMMA CarryOverQueue ==
    ASSUME TypeInv, QueueInv, OneRunner, NEW r \in Runners, NEW d \in Docs,
           CarryOver(r, d)
    PROVE  QueueInv'
<1> DEFINE c == copy[r][d]
<1>1. c \in Docs /\ step[r][d] = "uploaded" /\ Writes(r, d, c)
  BY CopyWrite
<1>2. docs'[c].stage = "reocr_done"
  BY CarryOverEffect
<1>3. step[r][c] = "out"
  BY <1>1 DEF QueueInv
<1> SUFFICES ASSUME NEW x \in Docs, step'[r][x] # "out"
    PROVE  /\ Open(r, x)'
           /\ step'[r][x] \in {"uploaded", "carried"} =>
                 /\ step'[r][copy'[r][x]] = "out"
                 /\ docs'[copy'[r][x]].stage # "metadata_done"
  BY DEF QueueInv, OneRunner
<1>4. /\ step[r][x] # "out" /\ copy'[r][x] = copy[r][x] /\ pc' = pc
      /\ step'[r][x] \in {"uploaded", "carried"} =>
            step[r][x] \in {"uploaded", "carried"}
  BY <1>1 DEF Writes
<1>5. x # c /\ docs'[x] = docs[x]
  BY <1>1, <1>3, <1>4 DEF Writes
<1>6. Open(r, x)'
  BY <1>4, <1>5 DEF QueueInv, Open, Done
<1>7. ASSUME step'[r][x] \in {"uploaded", "carried"}
      PROVE  step'[r][copy'[r][x]] = "out" /\ docs'[copy'[r][x]].stage # "metadata_done"
  <2>1. /\ copy[r][x] \in Docs /\ step[r][copy[r][x]] = "out"
        /\ docs[copy[r][x]].stage # "metadata_done"
    BY <1>4, <1>7 DEF QueueInv, TypeInv, Held
  <2>2. step'[r][copy[r][x]] = "out"
    BY <1>1, <2>1 DEF Writes
  <2>3. docs'[copy[r][x]].stage # "metadata_done"
    BY <1>1, <1>2, <2>1 DEF Writes
  <2> QED
    BY <1>4, <2>2, <2>3
<1> QED
  BY <1>6, <1>7

\* The id an upload fills is in no queue.
LEMMA UploadQueue ==
    ASSUME TypeInv, ScanInv, QueueInv, OneRunner, NEW r \in Runners, NEW d \in Docs,
           Upload(r, d)
    PROVE  QueueInv'
<1>1. PICK c \in Docs : Uploaded(r, d, c)
  BY UploadFacts
<1>2. step[r][c] = "out" /\ c # d
  BY <1>1 DEF Uploaded, ScanInv
<1> SUFFICES ASSUME NEW x \in Docs, step'[r][x] # "out"
    PROVE  /\ Open(r, x)'
           /\ step'[r][x] \in {"uploaded", "carried"} =>
                 /\ step'[r][copy'[r][x]] = "out"
                 /\ docs'[copy'[r][x]].stage # "metadata_done"
  BY DEF QueueInv, OneRunner
<1>3. step[r][x] # "out" /\ pc' = pc
  BY <1>1 DEF Uploaded
<1>4. docs'[x] = docs[x]
  BY <1>1, <1>2, <1>3 DEF Uploaded
<1>5. Open(r, x)'
  BY <1>3, <1>4 DEF QueueInv, Open, Done
<1>6. step'[r][c] = "out" /\ docs'[c].stage # "metadata_done"
  BY <1>1, <1>2 DEF Uploaded
<1>7. ASSUME step'[r][x] \in {"uploaded", "carried"}
      PROVE  step'[r][copy'[r][x]] = "out" /\ docs'[copy'[r][x]].stage # "metadata_done"
  <2>1. CASE x = d
    BY <1>1, <1>6, <2>1 DEF Uploaded
  <2>2. CASE x # d
    <3>1. copy'[r][x] = copy[r][x] /\ step'[r][x] = step[r][x]
      BY <1>1, <2>2 DEF Uploaded
    <3>2. /\ copy[r][x] \in Docs /\ step[r][copy[r][x]] = "out"
          /\ docs[copy[r][x]].stage # "metadata_done"
      BY <1>7, <3>1 DEF QueueInv, TypeInv, Held
    <3>3. copy[r][x] # d
      BY <1>1, <3>2 DEF Uploaded
    <3>4. step'[r][copy[r][x]] = "out"
      BY <1>1, <3>2, <3>3 DEF Uploaded
    <3>5. docs'[copy[r][x]].stage # "metadata_done"
      BY <1>1, <1>6, <3>2 DEF Uploaded
    <3> QED
      BY <3>1, <3>4, <3>5
  <2> QED
    BY <2>1, <2>2
<1> QED
  BY <1>5, <1>7

\* QueueInv is inductive when runs do not overlap.
LEMMA QueueNext ==
    ASSUME ~Retriage, OneRunner
    PROVE  TypeInv /\ ScanInv /\ QueueInv /\ [Next]_vars => QueueInv'
<1> SUFFICES ASSUME TypeInv, ScanInv, QueueInv, [Next]_vars PROVE QueueInv'
  OBVIOUS
<1>1. CASE EnterAny
  BY <1>1, EnterFacts, EnterQueue DEF EnterAny, EnterStep
<1>2. ASSUME NEW r \in Runners, NEW d \in Docs, SaveSnapshot(r, d) PROVE QueueInv'
  <2>1. step[r][d] # "out"
    BY <1>2 DEF SaveSnapshot
  <2> QED
    BY <1>2, <2>1, SavedMoves, MoveQueue
<1>3. ASSUME NEW r \in Runners, NEW d \in Docs, Pay(r, d), ~dry[r] PROVE QueueInv'
  <2>1. step[r][d] # "out"
    BY <1>3 DEF Pay
  <2> QED
    BY <1>3, <2>1, PaidMoves, MoveQueue
<1> QED
  BY <1>1, <1>2, <1>3, StepKinds, QuietQueue, OwnWriteQueue, CarryOverQueue, UploadQueue

\* What is not in hand can be dropped.
LEMMA DropsNothingInHand ==
    ASSUME TypeInv, UNCHANGED <<paid, wasted, proposed>>,
           \A r \in Runners, d \in Docs : step[r][d] \in InHand =>
               pc'[r] = pc[r] /\ step'[r][d] \in InHand
    PROVE  Accounted
<1>1. \A s \in Billable, d \in Docs : wasted[s][d] \in Nat
  BY DEF TypeInv, TypeOK
<1>2. \A s, d : d \in Docs /\ Taken(s, d) => Taken(s, d)'
  BY DEF Taken
<1> QED
  BY <1>1, <1>2 DEF Accounted

\* What is given up is counted.
LEMMA GivingUpCounts ==
    ASSUME TypeInv, NEW r \in Runners, NEW S \in SUBSET Docs, Waste(r, S),
           paid' = paid, proposed' = proposed,
           \A q \in Runners, d \in Docs : ~(q = r /\ d \in S) =>
               step'[q][d] = step[q][d] /\ (q # r \/ step[q][d] \in InHand => pc'[q] = pc[q])
    PROVE  Accounted
<1> SUFFICES ASSUME NEW s \in Billable, NEW d \in Docs
    PROVE  /\ wasted'[s][d] >= wasted[s][d]
           /\ Taken(s, d) => Taken(s, d)' \/ wasted'[s][d] >= wasted[s][d] + 1
  BY DEF Accounted
<1>1. wasted[s][d] \in Nat
  BY DEF TypeInv, TypeOK
<1>2. wasted'[s][d] = (IF s = pc[r] /\ d \in S /\ step[r][d] \in InHand
                       THEN wasted[s][d] + 1 ELSE wasted[s][d])
  BY DEF Waste, TypeInv, TypeOK
<1>3. ASSUME NEW q \in Runners, pc[q] = s, step[q][d] \in InHand, ~(q = r /\ d \in S)
      PROVE  Taken(s, d)'
  <2>1. step'[q][d] = step[q][d] /\ pc'[q] = pc[q]
    BY <1>3
  <2> QED
    BY <1>3, <2>1 DEF Taken
<1> QED
  BY <1>1, <1>2, <1>3 DEF Taken

\* All steps but a payment and the two writes that use what was paid for.
LEMMA AccountKinds ==
    ASSUME TypeInv, [Next]_vars
    PROVE  \/ Accounted
           \/ \E r \in Runners, d \in Docs :
                 Pay(r, d) \/ WriteMetadata(r, d) \/ MarkSuperseded(r, d)
<1> USE DEF RunUnchanged, InHand, histVars
<1>1. ASSUME NEW r \in Runners, NEW t \in 0..NDocs, BeginRun(r, t) PROVE Accounted
  <2>1. PICK s \in RunStages : EnterStage(r, s, t)
    BY <1>1, BeginRunEnters
  <2>2. Entered(r, s, t)
    BY <2>1, EnterFacts
  <2>3. pc[r] = "idle" /\ UNCHANGED <<paid, wasted, proposed>>
    BY <1>1, <2>1 DEF BeginRun, EnterStage
  <2>4. \A d \in Docs : step[r][d] = "out"
    BY <2>3 DEF TypeInv, Held
  <2> QED
    BY <2>2, <2>3, <2>4, DropsNothingInHand DEF Entered
<1>2. ASSUME NEW r \in Runners, NextStage(r) PROVE Accounted
  <2>1. PICK s \in RunStages : EnterStage(r, s, target[r])
    BY <1>2, NextStageEnters
  <2>2. Entered(r, s, target[r])
    BY <2>1, EnterFacts
  <2>3. UNCHANGED <<paid, wasted, proposed>>
    BY <2>1 DEF EnterStage
  <2>4. \A d \in Docs : step[r][d] = "out"
    BY <1>2 DEF NextStage, StageDone, AllOut
  <2> QED
    BY <2>2, <2>3, <2>4, DropsNothingInHand DEF Entered
<1>3. ASSUME NEW r \in Runners, EndRun(r) PROVE Accounted
  <2>1. /\ step' = step /\ UNCHANGED histVars
        /\ \A q \in Runners : q # r => pc'[q] = pc[q]
        /\ \A d \in Docs : step[r][d] = "out"
    BY <1>3 DEF EndRun, StageDone, AllOut, TypeInv, TypeOK
  <2> QED
    BY <2>1, DropsNothingInHand
<1>4. ASSUME NEW r \in Runners, NEW d \in Docs, Leave(r, d), pc' = pc,
             step[r][d] \notin InHand, UNCHANGED histVars
      PROVE  Accounted
  <2>1. \A q \in Runners, x \in Docs :
            ~(q = r /\ x = d) => step'[q][x] = step[q][x]
    BY <1>4 DEF Leave, TypeInv, TypeOK
  <2> QED
    BY <1>4, <2>1, DropsNothingInHand
<1>5. ASSUME NEW r \in Runners, NEW d \in Docs,
             ProposeTriage(r, d) \/ CapReached(r, d) \/ WriteTriage(r, d)
      PROVE  Accounted
  <2>1. /\ Leave(r, d) /\ pc' = pc /\ step[r][d] \notin InHand /\ UNCHANGED histVars
    BY <1>5 DEF ProposeTriage, CapReached, WriteTriage, At
  <2> QED
    BY <1>4, <2>1
<1>6. ASSUME NEW r \in Runners, NEW d \in Docs,
             SaveSnapshot(r, d) \/ Upload(r, d) \/ CarryOver(r, d)
      PROVE  Accounted
  <2>1. PICK label \in {"saved", "uploaded", "carried"} :
            /\ step' = [step EXCEPT ![r][d] = label]
            /\ label = "saved" => step[r][d] = "queued"
            /\ pc' = pc /\ UNCHANGED histVars
    <3>1. CASE SaveSnapshot(r, d)
      BY <3>1 DEF SaveSnapshot, MoveTo, histVars
    <3>2. CASE Upload(r, d)
      BY <3>2, Zenon DEF Upload, histVars
    <3>3. CASE CarryOver(r, d)
      BY <3>3 DEF CarryOver, MoveTo, histVars
    <3> QED
      BY <1>6, <3>1, <3>2, <3>3
  <2>2. \A q \in Runners, x \in Docs : step'[q][x] =
            (IF q = r /\ x = d THEN label ELSE step[q][x])
    BY <2>1 DEF TypeInv, TypeOK
  <2> QED
    BY <2>1, <2>2, DropsNothingInHand
<1>7. ASSUME NEW r \in Runners, NEW d \in Docs, GiveUp(r, d) PROVE Accounted
  <2>1. Waste(r, {d}) /\ paid' = paid /\ proposed' = proposed /\ pc' = pc
        /\ step' = [step EXCEPT ![r][d] = "out"]
    BY <1>7 DEF GiveUp, Leave
  <2>2. \A q \in Runners, x \in Docs :
            ~(q = r /\ x \in {d}) => step'[q][x] = step[q][x]
    BY <2>1 DEF TypeInv, TypeOK
  <2> QED
    BY <2>1, <2>2, GivingUpCounts
<1>8. ASSUME NEW r \in Runners, RunDies(r) PROVE Accounted
  <2>1. Waste(r, Docs) /\ paid' = paid /\ proposed' = proposed
    BY <1>8 DEF RunDies
  <2>2. \A q \in Runners : q # r => step'[q] = step[q] /\ pc'[q] = pc[q]
    BY <1>8 DEF RunDies, TypeInv, TypeOK
  <2> QED
    BY <2>1, <2>2, GivingUpCounts
<1>9. ASSUME NEW r \in Runners, NEW account \in BOOLEAN, ProviderRejects(r, account)
      PROVE  Accounted
  <2>1. /\ UNCHANGED <<pc, histVars>>
        /\ \A q \in Runners, x \in Docs :
              step[q][x] \in InHand => step'[q][x] = step[q][x]
    BY <1>9 DEF ProviderRejects, TypeInv, TypeOK
  <2> QED
    BY <2>1, DropsNothingInHand
<1>10. ASSUME NEW d \in Docs, NEW what \in {"tag", "field"}, UserEdit(d, what)
       PROVE  Accounted
  BY <1>10, DropsNothingInHand DEF UserEdit, runVars
<1>11. CASE UNCHANGED vars
  BY <1>11, DropsNothingInHand DEF vars, runVars
<1> QED
  BY <1>1, <1>2, <1>3, <1>5, <1>6, <1>7, <1>8, <1>9, <1>10, <1>11, Zenon
  DEF Next, RunStep, Trouble, WorkOn, CrashRun, CrashInSnapshot

\* A stage that is done with a document stays done.
LEMMA DoneStays ==
    ASSUME TypeInv, Forward, docs' \in [Docs -> DocRecord],
           NEW s \in Billable, NEW d \in Docs, Done(s, d)
    PROVE  Done(s, d)'
<1>1. docs'[d].stage \in Stages
  BY DEF DocRecord
<1>2. Rank[docs[d].stage] \in {0, 1, 2, 3} /\ Rank[docs'[d].stage] \in {0, 1, 2, 3}
  BY <1>1, DocRank, RankNumbers DEF TypeInv
<1>3. Rank[WrittenBy[s]] \in {2, 3}
  BY WrittenRanks DEF Billable
<1> QED
  BY <1>2, <1>3 DEF Forward, Done

\* PaidInv is inductive when runs do not overlap and nothing is done twice.
LEMMA PaidNext ==
    ASSUME OneRunner, "metadata_done" \notin EligibleRoles
    PROVE  TypeInv /\ FreeInv /\ QueueInv /\ PaidInv /\ [Next]_vars => PaidInv'
<1> SUFFICES ASSUME TypeInv, FreeInv, QueueInv, PaidInv, [Next]_vars,
                    NEW s \in Billable, NEW d \in Docs
             PROVE  /\ paid'[s][d] <= 1 + wasted'[s][d] + proposed'[s][d]
                    /\ \/ Done(s, d)' \/ Taken(s, d)'
                       \/ paid'[s][d] <= wasted'[s][d] + proposed'[s][d]
  BY DEF PaidInv
<1>1. TypeInv'
  BY TypeNext
<1>2. /\ paid[s][d] \in Nat /\ wasted[s][d] \in Nat /\ proposed[s][d] \in Nat
      /\ paid'[s][d] \in Nat /\ wasted'[s][d] \in Nat /\ proposed'[s][d] \in Nat
  BY <1>1 DEF TypeInv, TypeOK
<1>3. Done(s, d) => Done(s, d)'
  BY <1>1, ForwardNext, DoneStays DEF TypeInv, TypeOK
<1>4. /\ paid[s][d] <= 1 + wasted[s][d] + proposed[s][d]
      /\ Done(s, d) \/ Taken(s, d) \/ paid[s][d] <= wasted[s][d] + proposed[s][d]
  BY DEF PaidInv
<1>5. CASE Accounted
  <2>1. /\ paid'[s][d] = paid[s][d] /\ wasted'[s][d] >= wasted[s][d]
        /\ proposed'[s][d] = proposed[s][d]
        /\ Taken(s, d) => Taken(s, d)' \/ wasted'[s][d] >= wasted[s][d] + 1
    BY <1>5 DEF Accounted
  <2> QED
    BY <1>2, <1>3, <1>4, <2>1
<1>6. ASSUME NEW r \in Runners, NEW x \in Docs, Pay(r, x), ~dry[r]
      PROVE  /\ paid'[s][d] <= 1 + wasted'[s][d] + proposed'[s][d]
             /\ \/ Done(s, d)' \/ Taken(s, d)'
                \/ paid'[s][d] <= wasted'[s][d] + proposed'[s][d]
  <2>1. /\ Moved(r, x, "paid") /\ step[r][x] = "saved"
        /\ paid' = [paid EXCEPT ![pc[r]][x] = @ + 1] /\ UNCHANGED <<wasted, proposed>>
    BY <1>6, PaidMoves DEF Pay
  <2>2. CASE s = pc[r] /\ d = x
    <3>1. ~Done(s, d)
      BY <2>1, <2>2 DEF QueueInv, Open
    <3>2. ~Taken(s, d)
      BY <2>1, <2>2 DEF Taken, OneRunner, InHand
    <3>3. paid'[s][d] = paid[s][d] + 1
      BY <2>1, <2>2 DEF TypeInv, TypeOK
    <3>4. pc'[r] = s /\ step'[r][d] \in InHand
      BY <2>1, <2>2 DEF Moved, InHand
    <3>5. Taken(s, d)'
      BY <3>4 DEF Taken
    <3> QED
      BY <1>2, <1>4, <2>1, <3>1, <3>2, <3>3, <3>5
  <2>3. CASE ~(s = pc[r] /\ d = x)
    <3>1. /\ paid'[s][d] = paid[s][d] /\ wasted'[s][d] = wasted[s][d]
          /\ proposed'[s][d] = proposed[s][d]
      BY <2>1, <2>3 DEF TypeInv, TypeOK
    <3>2. Taken(s, d) => Taken(s, d)'
      BY <2>1 DEF Taken, Moved, InHand
    <3> QED
      BY <1>3, <1>4, <3>1, <3>2
  <2> QED
    BY <2>2, <2>3
<1>7. ASSUME NEW r \in Runners, NEW x \in Docs,
             WriteMetadata(r, x) \/ MarkSuperseded(r, x)
      PROVE  /\ paid'[s][d] <= 1 + wasted'[s][d] + proposed'[s][d]
             /\ \/ Done(s, d)' \/ Taken(s, d)'
                \/ paid'[s][d] <= wasted'[s][d] + proposed'[s][d]
  <2>1. /\ UNCHANGED histVars /\ step' = [step EXCEPT ![r][x] = "out"] /\ pc' = pc
    BY <1>7 DEF WriteMetadata, MarkSuperseded, Leave, RunUnchanged
  <2>2. /\ paid'[s][d] = paid[s][d] /\ wasted'[s][d] = wasted[s][d]
        /\ proposed'[s][d] = proposed[s][d]
    BY <2>1 DEF histVars
  <2>3. CASE s = pc[r] /\ d = x
    <3>1. Rank[docs'[d].stage] = Rank[WrittenBy[s]]
      BY <1>7, <2>3, OwnWriteForward
    <3>2. Rank[WrittenBy[s]] \in {2, 3}
      BY WrittenRanks DEF Billable
    <3>3. Done(s, d)'
      BY <3>1, <3>2 DEF Done
    <3> QED
      BY <1>4, <2>2, <3>3
  <2>4. CASE ~(s = pc[r] /\ d = x)
    <3>1. \A q \in Runners, e \in Docs :
              ~(q = r /\ e = x) => step'[q][e] = step[q][e]
      BY <2>1 DEF TypeInv, TypeOK
    <3>2. Taken(s, d) => Taken(s, d)'
      BY <2>1, <2>4, <3>1 DEF Taken
    <3> QED
      BY <1>3, <1>4, <2>2, <3>2
  <2> QED
    BY <2>3, <2>4
<1>8. ASSUME NEW r \in Runners, NEW x \in Docs, Pay(r, x), dry[r]
      PROVE  /\ paid'[s][d] <= 1 + wasted'[s][d] + proposed'[s][d]
             /\ \/ Done(s, d)' \/ Taken(s, d)'
                \/ paid'[s][d] <= wasted'[s][d] + proposed'[s][d]
  <2>1. /\ step' = [step EXCEPT ![r][x] = "out"] /\ step[r][x] = "saved" /\ pc' = pc
        /\ paid' = [paid EXCEPT ![pc[r]][x] = @ + 1] /\ wasted' = wasted
        /\ proposed' = [proposed EXCEPT ![pc[r]][x] = @ + 1]
    BY <1>8 DEF Pay, Leave, RunUnchanged
  <2>2. /\ wasted'[s][d] = wasted[s][d]
        /\ \/ paid'[s][d] = paid[s][d] /\ proposed'[s][d] = proposed[s][d]
           \/ paid'[s][d] = paid[s][d] + 1 /\ proposed'[s][d] = proposed[s][d] + 1
    BY <2>1 DEF TypeInv, TypeOK
  <2>3. \A q \in Runners, e \in Docs :
            step[q][e] \in InHand => step'[q][e] = step[q][e]
    BY <2>1 DEF TypeInv, TypeOK, InHand
  <2>4. Taken(s, d) => Taken(s, d)'
    BY <2>1, <2>3 DEF Taken
  <2> QED
    BY <1>2, <1>3, <1>4, <2>2, <2>4
<1> QED
  BY <1>5, <1>6, <1>7, <1>8, AccountKinds

\* At the start nothing is queued and nothing was paid.
LEMMA PaidInit == Init => QueueInv /\ PaidInv
<1> SUFFICES ASSUME Init PROVE QueueInv /\ PaidInv
  OBVIOUS
<1>1. \A r \in Runners, d \in Docs : step[r][d] = "out"
  BY DEF Init, AllOut
<1>2. \A s \in Billable, d \in Docs :
          paid[s][d] = 0 /\ wasted[s][d] = 0 /\ proposed[s][d] = 0
  BY DEF Init, Nothing
<1> QED
  BY <1>1, <1>2 DEF QueueInv, PaidInv

(***************************************************************************)
(* A dry run proposes at most once.                                        *)
(***************************************************************************)

\* The order of a run's stages.
LEMMA PositionNumbers ==
    /\ Position["reocr"] = 2 /\ Position["metadata"] = 3
    /\ \A s \in RunStages : Position[s] \in {1, 2, 3}
BY DEF Position, RunStages

\* A step in which no run gets more to propose, and none is proposed.
Calm ==
    /\ UNCHANGED <<proposed, dryRuns>>
    /\ \A r \in Runners :
          \/ pc'[r] = "idle"
          \/ /\ pc'[r] = pc[r] /\ dry'[r] = dry[r]
             /\ \A d \in Docs : Waiting(r, d)' => Waiting(r, d)

\* Calm steps keep the invariant.
LEMMA CalmProposes == ASSUME ProposeInv, Calm PROVE ProposeInv'
<1>1. ASSUME NEW s \in Billable, NEW d \in Docs, NEW r \in Runners, Still(r, s, d)'
      PROVE  Still(r, s, d)
  BY <1>1 DEF Still, Calm
<1> QED
  BY <1>1 DEF ProposeInv, Calm

\* All steps but those that begin a stage and the proposals are calm.
LEMMA CalmKinds ==
    ASSUME TypeInv, [Next]_vars
    PROVE  \/ Calm
           \/ \E r \in Runners :
                 \/ \E t \in 0..NDocs : BeginRun(r, t)
                 \/ NextStage(r)
                 \/ \E d \in Docs : Pay(r, d) /\ dry[r]
<1> USE DEF RunUnchanged, histVars
<1>1. ASSUME UNCHANGED <<proposed, dryRuns>>, QuietStep PROVE Calm
  BY <1>1 DEF Calm, QuietStep, DropOnly, Waiting
<1>2. ASSUME NEW r \in Runners,
             \/ EndRun(r) \/ CrashRun(r)
             \/ \E account \in BOOLEAN : ProviderRejects(r, account)
             \/ \E d \in Docs : \/ ProposeTriage(r, d) \/ CapReached(r, d)
                               \/ GiveUp(r, d) \/ CrashInSnapshot(r, d)
      PROVE  Calm
  <2>1. QuietStep
    BY <1>2, QuietSteps
  <2>2. UNCHANGED <<proposed, dryRuns>>
    BY <1>2 DEF EndRun, CrashRun, RunDies, ProviderRejects, ProposeTriage, CapReached,
                GiveUp, CrashInSnapshot
  <2> QED
    BY <1>1, <2>1, <2>2
<1>3. ASSUME NEW r \in Runners, NEW d \in Docs, NEW label \in {"out", "paid", "uploaded", "carried"},
             step' = [step EXCEPT ![r][d] = label], UNCHANGED <<pc, dry, proposed, dryRuns>>
      PROVE  Calm
  BY <1>3 DEF Calm, Waiting, TypeInv, TypeOK
<1>4. ASSUME NEW r \in Runners, NEW d \in Docs,
             WriteTriage(r, d) \/ WriteMetadata(r, d) \/ MarkSuperseded(r, d)
      PROVE  Calm
  BY <1>3, <1>4 DEF WriteTriage, WriteMetadata, MarkSuperseded, Leave
<1>5. ASSUME NEW r \in Runners, NEW d \in Docs, CarryOver(r, d) \/ (Pay(r, d) /\ ~dry[r])
      PROVE  Calm
  BY <1>3, <1>5 DEF CarryOver, Pay, MoveTo
<1>6. ASSUME NEW r \in Runners, NEW d \in Docs, Upload(r, d) PROVE Calm
  <2>1. step' = [step EXCEPT ![r][d] = "uploaded"] /\ UNCHANGED <<pc, dry, proposed, dryRuns>>
    BY <1>6 DEF Upload
  <2> QED
    BY <1>3, <2>1
<1>7. ASSUME NEW r \in Runners, NEW d \in Docs, SaveSnapshot(r, d) PROVE Calm
  <2>1. /\ step' = [step EXCEPT ![r][d] = "saved"] /\ step[r][d] = "queued"
        /\ UNCHANGED <<pc, dry, proposed, dryRuns>>
    BY <1>7 DEF SaveSnapshot, MoveTo
  <2> QED
    BY <2>1 DEF Calm, Waiting, TypeInv, TypeOK
<1>8. ASSUME NEW d \in Docs, NEW what \in {"tag", "field"}, UserEdit(d, what) PROVE Calm
  BY <1>1, <1>8, EditIsQuiet DEF UserEdit
<1>9. CASE UNCHANGED vars
  BY <1>1, <1>9, StutterIsQuiet DEF vars
<1> QED
  BY <1>2, <1>4, <1>5, <1>6, <1>7, <1>8, <1>9, Zenon DEF Next, RunStep, Trouble, WorkOn

\* ProposeInv is inductive when runs do not overlap.
LEMMA ProposeNext ==
    ASSUME OneRunner
    PROVE  TypeInv /\ ProposeInv /\ [Next]_vars => ProposeInv'
<1> SUFFICES ASSUME TypeInv, ProposeInv, [Next]_vars PROVE ProposeInv'
  OBVIOUS
<1>0. /\ dryRuns \in Nat
      /\ \A s \in Billable, d \in Docs : proposed[s][d] \in Nat
  BY DEF TypeInv, TypeOK
<1>1. ASSUME NEW r \in Runners, NEW t \in 0..NDocs, BeginRun(r, t) PROVE ProposeInv'
  <2>1. PICK s \in RunStages :
            /\ EnterStage(r, s, t)
            /\ dry' = [dry EXCEPT ![r] = ResolveDryRun]
            /\ dryRuns' = dryRuns + (IF ResolveDryRun THEN 1 ELSE 0)
    BY <1>1, BeginRunEnters
  <2>2. proposed' = proposed /\ dry'[r] = ResolveDryRun
    BY <2>1 DEF EnterStage, TypeInv, TypeOK
  <2>3. \A q \in Runners : q = r
    BY DEF OneRunner
  <2>4. ASSUME NEW u \in Billable, NEW d \in Docs PROVE proposed'[u][d] <= dryRuns'
    BY <1>0, <2>1, <2>2 DEF ProposeInv
  <2>5. ASSUME NEW u \in Billable, NEW d \in Docs, NEW q \in Runners, Still(q, u, d)'
        PROVE  proposed'[u][d] < dryRuns'
    BY <1>0, <2>1, <2>2, <2>3, <2>5 DEF ProposeInv, Still
  <2> QED
    BY <2>4, <2>5 DEF ProposeInv
<1>2. ASSUME NEW r \in Runners, NextStage(r) PROVE ProposeInv'
  <2>1. PICK s \in StagesLeft(r) : EnterStage(r, s, target[r])
    BY <1>2 DEF NextStage, EnterFirstOf
  <2>2. /\ s \in RunStages /\ Position[pc[r]] < Position[s]
        /\ pc[r] \in RunStages
    BY <1>2, <2>1, StageNames DEF NextStage, StageDone, StagesLeft, StagesAfter, TypeInv, TypeOK
  <2>3. /\ UNCHANGED <<dry, dryRuns, proposed>> /\ pc'[r] = s
    BY <1>2, <2>1 DEF NextStage, EnterStage, TypeInv, TypeOK
  <2>4. ASSUME NEW u \in Billable, NEW d \in Docs, NEW q \in Runners, Still(q, u, d)'
        PROVE  Still(q, u, d)
    <3>1. q = r /\ u \in RunStages
      BY StageNames DEF OneRunner
    <3>2. Position[s] <= Position[u]
      BY <2>2, <2>3, <2>4, <3>1, PositionNumbers DEF Still
    <3>3. Position[pc[r]] < Position[u]
      BY <2>2, <3>1, <3>2, PositionNumbers
    <3> QED
      BY <2>2, <2>3, <2>4, <3>1, <3>3 DEF Still, RunStages
  <2> QED
    BY <2>3, <2>4 DEF ProposeInv
<1>3. ASSUME NEW r \in Runners, NEW x \in Docs, Pay(r, x), dry[r] PROVE ProposeInv'
  <2>1. /\ step' = [step EXCEPT ![r][x] = "out"] /\ step[r][x] = "saved"
        /\ proposed' = [proposed EXCEPT ![pc[r]][x] = @ + 1]
        /\ UNCHANGED <<pc, dry, dryRuns>> /\ pc[r] \in Billable
    BY <1>3 DEF Pay, Leave, RunUnchanged
  <2>2. Still(r, pc[r], x)
    BY <1>3, <2>1 DEF Still, Waiting, Billable
  <2>3. ASSUME NEW u \in Billable, NEW d \in Docs
        PROVE  /\ proposed'[u][d] <= dryRuns'
               /\ \A q \in Runners : Still(q, u, d)' => proposed'[u][d] < dryRuns'
    <3>1. CASE u = pc[r] /\ d = x
      <4>1. proposed'[u][d] = proposed[u][d] + 1
        BY <2>1, <3>1 DEF TypeInv, TypeOK
      <4>2. proposed'[u][d] <= dryRuns'
        BY <1>0, <2>1, <2>2, <3>1, <4>1 DEF ProposeInv
      <4>3. ASSUME NEW q \in Runners PROVE ~Still(q, u, d)'
        <5>1. q = r
          BY DEF OneRunner
        <5>2. step'[r][d] = "out" /\ pc'[r] = u /\ u \in RunStages
          BY <2>1, <3>1, StageNames DEF TypeInv, TypeOK
        <5> QED
          BY <5>1, <5>2, PositionNumbers DEF Still, Waiting
      <4> QED
        BY <4>2, <4>3
    <3>2. CASE ~(u = pc[r] /\ d = x)
      <4>1. proposed'[u][d] = proposed[u][d]
        BY <2>1, <3>2 DEF TypeInv, TypeOK
      <4>2. \A q \in Runners : Still(q, u, d)' => Still(q, u, d)
        BY <2>1 DEF Still, Waiting, TypeInv, TypeOK
      <4> QED
        BY <2>1, <4>1, <4>2 DEF ProposeInv
    <3> QED
      BY <3>1, <3>2
  <2> QED
    BY <2>3 DEF ProposeInv
<1> QED
  BY <1>1, <1>2, <1>3, CalmKinds, CalmProposes

\* At the start no run is under way.
LEMMA ProposeInit == Init => ProposeInv
BY DEF Init, ProposeInv, Still, Nothing

(***************************************************************************)
(* The theorems.                                                           *)
(***************************************************************************)

\* Unless triage is forced (stages.py, already_triaged), a
\* document that a stage wrote has a snapshot, and every snapshot is of the
\* document as it was before that stage first wrote it (SafetyLayer.snapshot),
\* also where finished documents are eligible for metadata again.
THEOREM SnapshotsFirst ==
    ASSUME ~Retriage
    PROVE  Spec => []SnapshotPredatesWrite
<1> DEFINE Inv == TypeInv /\ ScanInv /\ SnapInv
<1>1. Init => Inv
  BY TypeInit, ScanInit, SnapInit
<1>2. Inv /\ [Next]_vars => Inv'
  BY TypeNext, ScanNext, SnapNext
<1>3. Inv => SnapshotPredatesWrite
  BY DEF SnapInv
<1> HIDE DEF Inv
<1> QED
  BY <1>1, <1>2, <1>3, PTL DEF Spec

\* Before a sweep has completed, nothing is written, unless settings.dry_run
\* asks for writes (Settings.resolve_dry_run, cursor.json).
THEOREM FirstSweepDry == Spec => []FirstSweepIsDry
<1> DEFINE Inv == TypeInv /\ ScanInv /\ DryInv
<1>1. Init => Inv
  BY TypeInit, ScanInit, DryInit
<1>2. Inv /\ [Next]_vars => Inv'
  BY TypeNext, ScanNext, DryNext
<1>3. Inv => FirstSweepIsDry
  BY DEF DryInv, FirstSweepIsDry
<1> HIDE DEF Inv
<1> QED
  BY <1>1, <1>2, <1>3, PTL DEF Spec

\* With a score field that holds the score itself, only documents whose text
\* scores as garbage reach the re-OCR stage (reocr_stage's query).
THEOREM GarbageOnly == ASSUME ScoreField = "float" PROVE Spec => []OnlyGarbageIsReocred
<1> DEFINE Inv == TypeInv /\ ScanInv /\ ScoreInv
<1>1. Init => Inv
  BY TypeInit, ScanInit, ScoreInit
<1>2. Inv /\ [Next]_vars => Inv'
  BY TypeNext, ScanNext, ScoreNext
<1>3. Inv => OnlyGarbageIsReocred
  BY DEF ScoreInv
<1> HIDE DEF Inv
<1> QED
  BY <1>1, <1>2, <1>3, PTL DEF Spec

\* Whoever deletes what is tagged superseded, as docs/re-ocr.md allows, keeps
\* of each scan a document that a stage has finished, however runs overlap
\* (_apply_post_consume_metadata before mark_old_superseded).
THEOREM ReplacementStays == Spec => []SupersededHasReplacement
<1> DEFINE Inv == TypeInv /\ ScanInv /\ RankInv
<1>1. Init => Inv
  BY TypeInit, ScanInit, RankInit
<1>2. Inv /\ [Next]_vars => Inv'
  BY TypeNext, ScanNext, RankNext
<1>3. Inv => SupersededHasReplacement
  BY RankIsEnough
<1> HIDE DEF Inv
<1> QED
  BY <1>1, <1>2, <1>3, PTL DEF Spec

\* While runs do not overlap, and triage is not forced, a document's stage only
\* advances (config.py, STAGE_ORDER).
THEOREM LoneRunAdvances ==
    ASSUME \A q, r \in Runners : q = r, ~Retriage
    PROVE  Spec => StageAdvances
<1> DEFINE Inv == TypeInv /\ ScanInv /\ RankInv /\ QueueInv
<1>1. Init => Inv
  BY TypeInit, ScanInit, RankInit, PaidInit
<1>2. Inv /\ [Next]_vars => Inv'
  BY TypeNext, ScanNext, RankNext, QueueNext DEF OneRunner
<1>3. Inv /\ [Next]_vars =>
          [\A d \in Docs : Rank[docs'[d].stage] >= Rank[docs[d].stage]]_docs
  BY ForwardNext DEF Forward, RankInv
<1> HIDE DEF Inv
<1> QED
  BY <1>1, <1>2, <1>3, PTL DEF Spec, StageAdvances

\* When runs do not overlap and finished documents are not eligible for metadata
\* either, a document is transcribed, or its metadata extracted, again only after
\* an answer was thrown away by an error, an empty transcription or a crash, or
\* went into a dry run's proposal (ocr.py, metadata.py: pay, look at dry_run,
\* then write), and no dry run pays for the same document twice.
THEOREM LoneRunPaysOnce ==
    ASSUME \A q, r \in Runners : q = r, ~Retriage, "metadata_done" \notin EligibleRoles
    PROVE  Spec => []PaidWorkIsAccountedFor
<1> DEFINE Inv == TypeInv /\ ScanInv /\ RankInv /\ QueueInv /\ PaidInv /\ ProposeInv
<1>1. Init => Inv
  BY TypeInit, ScanInit, RankInit, PaidInit, ProposeInit
<1>2. Inv /\ [Next]_vars => Inv'
  BY TypeNext, ScanNext, RankNext, QueueNext, PaidNext, ProposeNext DEF OneRunner, RankInv
<1>3. Inv => PaidWorkIsAccountedFor
  BY DEF PaidInv, ProposeInv, PaidWorkIsAccountedFor
<1> HIDE DEF Inv
<1> QED
  BY <1>1, <1>2, <1>3, PTL DEF Spec
=============================================================================
