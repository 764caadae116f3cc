------------------------------ MODULE Sandbox ------------------------------
(***************************************************************************)
(* One call of the sandbox (research/vendorchain/sandbox.py): the parent   *)
(* hands a document to a child process, which runs the structural gate    *)
(* and, if asked to, reads the pages and compares their text with the     *)
(* expected terms.  The child may die, and the parent gives up waiting, at  *)
(* any point.                                                              *)
(*                                                                         *)
(* Data abstraction.  A text is a sequence of characters, of which only    *)
(* the members of Letters survive normalisation.  What tesseract reads on  *)
(* a page is any text.  Memory and processor limits, crashes and kills     *)
(* are one event, and so are the ways in which an OCR tool fails.          *)
(***************************************************************************)
EXTENDS Ingress

CONSTANTS
  Characters,   \* of texts
  Requests,     \* calls that are made: documents, with the expected terms or None,
                \* as a sequence of sets, one for each shape of document
  PageTexts,    \* texts tesseract may read on a page
  Letters,      \* those that are [a-z0-9], after casefold
  MaxTerms,     \* maxExpectedTerms
  MaxTermLen,   \* maxExpectedCharacters
  MaxTextLen,   \* maxOCRCharacters
  Percent,      \* threshold, 90 percent
  None

\* What an answer says besides the refusals of the gate.
Reasons == {"none", "tool", "ocr_expected_term_limit", "ocr_comparison_limit",
            "worker_resource_or_process_failure", "worker_wall_timeout"}

Answers == [ok : BOOLEAN, matches : BOOLEAN, reason : Reasons \cup Refusals]

ASSUME SandboxAssumption ==
  /\ Percent \in 1 .. 100 /\ MaxTermLen \in Nat \ {0} /\ None \notin Answers
  /\ PageTexts \subseteq Seq(Characters)
  /\ \A shape \in DOMAIN Requests : \A call \in Requests[shape] :
       IsFile(call.file) /\ (call.expected = None \/ call.expected \in Seq(Seq(Characters)))

VARIABLES
  file,         \* the document
  ocr,          \* the expected terms, None when the text is not asked for
  phase,        \* what the child does: "gate", "pages", "score", "answered", "dead"
  texts,        \* the pages read so far
  answer,       \* what the child printed, None before
  result        \* what isolated() returned or raised, None while it waits

vars == <<file, ocr, phase, texts, answer, result>>

----------------------------------------------------------------------------
(* ocr_score *)

\* Faulty variant: the match must begin with the text.
EditRowAnchored(term, previous, char) ==
  LET current[i \in 0 .. Len(term)] ==
        IF i = 0 THEN previous[0] + 1
        ELSE Min({previous[i] + 1, current[i - 1] + 1,
                  previous[i - 1] + (IF char = term[i] THEN 0 ELSE 1)})
  IN current

\* One round of the loop: the costs of turning some end of the text read so far
\* into each prefix of the term.
EditRow(term, previous, char) ==
  LET current[i \in 0 .. Len(term)] ==
        IF i = 0 THEN 0
        ELSE Min({previous[i] + 1, current[i - 1] + 1,
                  previous[i - 1] + (IF char = term[i] THEN 0 ELSE 1)})
  IN current

Normalized(text) ==
  LET kept[n \in 0 .. Len(text)] ==
        IF n = 0 THEN <<>>
        ELSE IF text[n] \in Letters THEN Append(kept[n - 1], text[n]) ELSE kept[n - 1]
  IN kept[Len(text)]

\* The rows: previous before the loop, and current after each character.
Rows(term, text) ==
  LET after[n \in 0 .. Len(text)] ==
        IF n = 0 THEN [i \in 0 .. Len(term) |-> i] ELSE EditRow(term, after[n - 1], text[n])
  IN after

\* best: the least cost of the whole term, after any number of characters.
BestCost(term, text) ==
  LET rows == Rows(term, text) IN Min({rows[n][Len(term)] : n \in 0 .. Len(text)})

Comparable(expected, text) ==
  LET term == Normalized(expected) IN
  term # <<>> /\ Len(term) <= MaxTermLen /\ Len(Normalized(text)) <= MaxTextLen

\* score >= threshold, without the division.  A term that is a part of the text has cost 0,
\* so the shortcut for it needs no case of its own.
ScoreReached(expected, text) ==
  LET term == Normalized(expected) IN
  (Len(term) - BestCost(term, Normalized(text))) * 100 >= Percent * Len(term)

----------------------------------------------------------------------------
(* The call. *)

Accepted(matches) == [ok |-> TRUE, matches |-> matches, reason |-> "none"]
Refused(reason) == [ok |-> FALSE, matches |-> FALSE, reason |-> reason]

Init ==
  /\ \E shape \in DOMAIN Requests : \E call \in Requests[shape] :
       file = call.file /\ ocr = call.expected
  /\ phase = "gate" /\ texts = <<>> /\ answer = None /\ result = None

Say(a) == phase' = "answered" /\ answer' = a

\* main: validate(data), and the end of the request when no text is asked for.
Gate ==
  /\ phase = "gate"
  /\ IF Validate(file) # "accepted" THEN Say(Refused(Validate(file)))
     ELSE IF ocr = None THEN Say(Accepted(FALSE))
     ELSE IF Len(ocr) > MaxTerms THEN Say(Refused("ocr_expected_term_limit"))
     ELSE phase' = "pages" /\ UNCHANGED answer
  /\ UNCHANGED <<file, ocr, texts, result>>

\* run_ocr: one page rendered and read; an image has one page.
Pages == IF file.kind = "PDF" THEN file.pages ELSE 1

\* Faulty variant: range(1, pages + 2).
ReadPageTooMany ==
  /\ phase = "pages"
  /\ \E t \in PageTexts : texts' = Append(texts, t)
  /\ phase' = IF Len(texts) = Pages THEN "score" ELSE "pages"
  /\ UNCHANGED <<file, ocr, answer, result>>

ReadPage ==
  /\ phase = "pages"
  /\ \E t \in PageTexts : texts' = Append(texts, t)
  /\ phase' = IF Len(texts) + 1 = Pages THEN "score" ELSE "pages"
  /\ UNCHANGED <<file, ocr, answer, result>>

ToolFails ==
  /\ phase = "pages"
  /\ Say(Refused("tool"))
  /\ UNCHANGED <<file, ocr, texts, result>>

\* The pages' texts are joined before they are normalised.
Score ==
  /\ phase = "score"
  /\ LET text == FlattenSeq(texts) IN
     IF \E i \in DOMAIN ocr : ~Comparable(ocr[i], text)
     THEN Say(Refused("ocr_comparison_limit"))
     ELSE Say(Accepted(ocr # <<>> /\ \A i \in DOMAIN ocr : ScoreReached(ocr[i], text)))
  /\ UNCHANGED <<file, ocr, texts, result>>

\* A limit of the operating system ends the child.
Die ==
  /\ phase \in {"gate", "pages", "score"}
  /\ phase' = "dead"
  /\ UNCHANGED <<file, ocr, texts, answer, result>>

\* isolated: the child's answer, its death, or the wall-clock limit.
Return ==
  /\ result = None /\ phase \in {"answered", "dead"}
  /\ result' = IF phase = "dead" THEN Refused("worker_resource_or_process_failure") ELSE answer
  /\ UNCHANGED <<file, ocr, phase, texts, answer>>

GiveUp ==
  /\ result = None /\ phase # "dead"
  /\ result' = Refused("worker_wall_timeout") /\ phase' = "dead"
  /\ UNCHANGED <<file, ocr, texts, answer>>

Next == Gate \/ ReadPage \/ ToolFails \/ Score \/ Die \/ Return \/ GiveUp

Spec == Init /\ [][Next]_vars

----------------------------------------------------------------------------
(* Properties. *)

TypeOK ==
  /\ phase \in {"gate", "pages", "score", "answered", "dead"}
  /\ texts \in Seq(PageTexts) /\ Len(texts) <= Pages /\ (phase = "pages" => Len(texts) < Pages)
  /\ answer \in Answers \cup {None} /\ (phase = "answered" => answer # None)
  /\ result \in Answers \cup {None} /\ (result # None /\ result.ok => result = answer)

\* Whatever a call accepts is a file the ingress policy permits: a JPEG that is one
\* sequence of segments and scans to its last byte, a PNG whose chunks fill the
\* file, a PDF none of whose values, reachable or not, is denied or unreadable.
AcceptedIsPermitted == (result # None /\ result.ok) => Permitted(file)

\* The gate turns nothing away without cause: a file it refuses is not permitted, or
\* has more values, or values nested and referenced deeper, than the walk may follow.
RefusedForCause ==
  (result # None /\ result.reason \in Refusals) => ~(Permitted(file) /\ WithinLimits(file))

\* What one insertion, deletion or substitution makes of a sequence of letters.
OneEdit(s) ==
  {InsertAt(s, i, c) : i \in 1 .. Len(s) + 1, c \in Letters}
  \cup {ReplaceAt(s, i, c) : i \in DOMAIN s, c \in Letters} \cup {RemoveAt(s, i) : i \in DOMAIN s}

WithinEdits(s, n) ==
  LET near[k \in Nat] ==
        IF k = 0 THEN {s} ELSE LET before == near[k - 1] IN before \cup UNION {OneEdit(t) : t \in before}
  IN near[n]

\* Whatever came in between, an answer says the terms match exactly when each of them,
\* and there is one, is close enough to some stretch of the pages' letters.
MatchIsSimilarity ==
  (result # None /\ result.ok /\ ocr # None) =>
    LET text == Normalized(FlattenSeq(texts)) IN
    result.matches <=>
      /\ ocr # <<>>
      /\ \A i \in DOMAIN ocr :
           LET term == Normalized(ocr[i])
               near == WithinEdits(term, ((100 - Percent) * Len(term)) \div 100)
           IN \E from \in 1 .. Len(text) + 1, to \in 0 .. Len(text) : SubSeq(text, from, to) \in near
============================================================================
