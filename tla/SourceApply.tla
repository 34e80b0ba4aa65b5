----------------------------- MODULE SourceApply ----------------------------
(***************************************************************************)
(* `oac versions apply-source` (improvement/source_apply.py): the promoted *)
(* prompt is spliced over a string literal of a Python file.  Text is a    *)
(* sequence of characters: what stands before the literal the call names,  *)
(* with its header and other arguments, the literal, and what follows it.  *)
(* ast counts columns in bytes and lines at newlines; the splice counts in *)
(* characters and splitlines' lines.  What ast accepts is a parameter.     *)
(***************************************************************************)
EXTENDS Naturals, Sequences, FiniteSets, FiniteSetsExt, SequencesExt

CONSTANTS
  Heads, Literals, Rests,  \* the text before, of and after the literal
  NewPrompt,               \* the promoted prompt as a literal (_py_literal)
  Parsable(_),             \* the texts ast.parse accepts
  Endings,                 \* "lf" or "crlf", how the file ends its lines
  MaxApplies, MaxEdits

Wide      == "w"     \* a character of two bytes
Newline   == "n"     \* a line's end, for ast as for splitlines
Separator == "f"     \* form feed: a line's end for splitlines only
Quote     == "q"     \* a delimiter of a literal

ASSUME SourceAssumption ==
  /\ MaxApplies \in Nat /\ MaxEdits \in Nat
  /\ Heads \cup Literals \cup Rests \cup {NewPrompt} \subseteq Seq(STRING)
  /\ \A h \in Heads, l \in Literals, r \in Rests : Parsable(h \o l \o r)

VARIABLES
  source,  \* the file: [head, literal, rest] as ast sees them, [text], its line ending
  splice   \* the command: [at, call, read, text, applied, edited]

sources == <<source, splice>>

Written(h, l, r, ending) == [head |-> h, literal |-> l, rest |-> r, text |-> h \o l \o r, ending |-> ending]

SourceInit ==
  \E h \in Heads, l \in Literals, r \in Rests, e \in Endings :
    /\ source = Written(h, l, r, e)
    /\ splice = [at |-> "idle", call |-> "none", read |-> Written(h, l, r, e), text |-> <<>>,
                 applied |-> 0, edited |-> 0]

---------------------------------------------------------------------------
(* What ast finds: the call and its keyword, or why there is none.         *)
Calls == {"literal", "dynamic", "absent", "many", "no prompt", "no parse"}

(* read_text turns every line ending into a newline.                       *)
ReadSource ==
  /\ splice.at = "idle" /\ splice.applied < MaxApplies
  /\ \E c \in Calls : splice' =
       [splice EXCEPT !.at = "read", !.call = c, !.read = [source EXCEPT !.ending = "lf"],
                      !.applied = @ + 1]
  /\ UNCHANGED source

Refuse ==
  /\ splice.at = "read" /\ splice.call # "literal"
  /\ splice' = [splice EXCEPT !.at = "refused"] /\ UNCHANGED source

Bytes(s) == Len(s) + Cardinality({i \in DOMAIN s : s[i] = Wide})

(* ast's position of what follows s: its line and its column.              *)
LineStart(s) == Max({0} \cup {i \in DOMAIN s : s[i] = Newline})
Line(s)      == Cardinality({i \in DOMAIN s : s[i] = Newline})
Column(s)    == Bytes(SubSeq(s, LineStart(s) + 1, Len(s)))

(* Where splitlines' n-th line starts in the text, counting both from 0.   *)
SplitStart(text, n) ==
  CHOOSE i \in 0..Len(text) :
    /\ Cardinality({k \in 1..i : text[k] \in {Newline, Separator}}) = n
    /\ i = 0 \/ text[i] \in {Newline, Separator}

(* Mutant: a column of the text, whatever line it is on. *)
Offset_Column(text, before) == Min({Column(before), Len(text)})

(* A slice ends where its text does.                                       *)
Offset(text, before) == Min({SplitStart(text, Line(before)) + Column(before), Len(text)})

Spliced(f) ==
  SubSeq(f.text, 1, Offset(f.text, f.head)) \o NewPrompt
    \o SubSeq(f.text, Offset(f.text, f.head \o f.literal) + 1, Len(f.text))

(* Mutant: the result is not parsed before it is written. *)
Parses_Any(text) == TRUE

Parses(text) == Parsable(text)

(* The result is parsed before the file is touched; SyntaxError escapes.   *)
SpliceText ==
  /\ splice.at = "read" /\ splice.call = "literal"
  /\ splice' = IF Parses(Spliced(splice.read))
               THEN [splice EXCEPT !.at = "write", !.text = Spliced(splice.read)]
               ELSE [splice EXCEPT !.at = "refused"]
  /\ UNCHANGED source

(* What ast may take for the literal in a text.                            *)
Readings(text) ==
  LET quotes == {i \in DOMAIN text : text[i] = Quote} IN
  {Written(SubSeq(text, 1, p[1] - 1), SubSeq(text, p[1], p[2]), SubSeq(text, p[2] + 1, Len(text)), "lf") :
     p \in {p \in quotes \X quotes : p[1] < p[2]}}

(* How ast reads the file after a write: a literal in the place of another *)
(* is the same keyword's; of any other text it may find any literal.       *)
Reparsed(f, text) ==
  LET landed == Written(f.head, NewPrompt, f.rest, "lf") IN
  IF text = landed.text THEN {landed} ELSE Readings(text)

WriteSource ==
  /\ splice.at = "write"
  /\ source' \in Reparsed(splice.read, splice.text)
  /\ splice' = [splice EXCEPT !.at = "applied"]

EndCommand ==
  /\ splice.at \in {"refused", "applied"}
  /\ UNCHANGED source
  /\ splice' = [splice EXCEPT !.at = "idle", !.call = "none", !.read = source, !.text = <<>>]

(* The user saves the file, also between the command's read and its write. *)
Edit ==
  /\ splice.edited < MaxEdits
  /\ \E h \in Heads, l \in Literals, r \in Rests : source' = Written(h, l, r, source.ending)
  /\ splice' = [splice EXCEPT !.edited = @ + 1]

SourceNext == ReadSource \/ Refuse \/ SpliceText \/ WriteSource \/ EndCommand \/ Edit

---------------------------------------------------------------------------
(* Properties. *)

(* Bytes are characters, and lines splitlines' lines, up to the end of s.   *)
Plain(s) ==
  /\ \A i \in DOMAIN s : s[i] # Separator
  /\ \A i \in DOMAIN s : s[i] = Wide => i <= LineStart(s)

Aligned(f) == Plain(f.head) /\ Plain(f.head \o f.literal)

(* The file parses after every command.  Where the lines the literal starts  *)
(* and ends on hold no wider character before its end and nothing before it  *)
(* ends a line for splitlines only, the prompt stands exactly in the         *)
(* literal's place, over however many lines either of them goes, and, if it  *)
(* too is such a literal, applying it again changes nothing.                 *)
PromptLands ==
  /\ Parsable(source.text)
  /\ splice.at \in {"write", "applied"} /\ Aligned(splice.read) =>
       LET landed == Written(splice.read.head, NewPrompt, splice.read.rest, "lf") IN
       /\ splice.text = landed.text
       /\ Aligned(landed) => Spliced(landed) = landed.text

(* "Splice the new prompt over the literal's exact source span, leaving      *)
(* every other byte of the file untouched."                                  *)
OnlyPromptChanges ==
  splice.at = "applied" => splice.text = splice.read.head \o NewPrompt \o splice.read.rest
=============================================================================
