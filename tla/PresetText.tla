----------------------------- MODULE PresetText -----------------------------
(***************************************************************************)
(* The text of a preset and the names of presets                           *)
(* (src/src/presets/presetstore.cpp): the writer, the parser, which names  *)
(* are safe, and the order of the list. A text is the sequence of its      *)
(* lines with the blanks around them trimmed, a line is what the parser    *)
(* can tell of it, and a name is a sequence of characters. Values are      *)
(* those of module StateBlob; Bad stands for a value that is no finite     *)
(* number.                                                                 *)
(***************************************************************************)
EXTENDS StateBlob

CONSTANTS
  Carried,         \* the parameters of kKeys
  FormatVersion,   \* kFormatVersion
  MaxLines,        \* kMaxFileBytes, in lines
  MaxNameLength,   \* kMaxNameLength
  Bad

Table == 0..NParams - 1

ASSUME TextAssumption ==
  /\ Carried \subseteq Table
  /\ FormatVersion \in Nat \ {0}
  /\ MaxLines \in Nat /\ MaxLines > NParams + 1
  /\ MaxNameLength \in Nat \ {0}
  /\ Bad \notin Int

-----------------------------------------------------------------------------
(* Texts *)

Header(version) == [kind |-> "header", version |-> version]
Pair(key, value) == [kind |-> "pair", key |-> key, value |-> value]
Skipped == [kind |-> "skipped"]  \* empty, or a comment
Junk  == [kind |-> "junk"]       \* no '=' in it

\* A key that this build does not know.
Unknown == NParams

\* serialise: a header and the carried parameters in their order.
Serialise(norm) ==
  LET keys[i \in 0..NParams] ==
        IF i = 0 THEN <<>>
        ELSE IF i - 1 \in Carried
        THEN Append(keys[i - 1], Pair(i - 1, ClampNorm(norm[i - 1]))) ELSE keys[i - 1]
  IN  <<Header(FormatVersion)>> \o keys[NParams]

\* Everything parse asks for. A header further down is a comment, and a value is looked
\* at only if its key is known.
Parses(lines) ==
  /\ Len(lines) \in 1..MaxLines
  /\ lines[1].kind = "header" /\ lines[1].version \in 1..FormatVersion
  /\ \A i \in 2..Len(lines) :
       /\ lines[i].kind # "junk"
       /\ lines[i].kind = "pair" /\ lines[i].key \in Carried => lines[i].value # Bad

\* Mutant: a key the text does not have keeps what was set before.
StartKept(old) == old

\* "The parameters a preset does not carry keep what `out` has."
Start(old) == [p \in Table |-> IF p \in Carried THEN Def[p] ELSE old[p]]

\* parse into values that are old: line by line, and nothing of it if one line is wrong.
Parse(lines, old) ==
  LET v[i \in 1..Len(lines)] ==
        IF i = 1 THEN Start(old)
        ELSE IF lines[i].kind = "pair" /\ lines[i].key \in Carried
        THEN [v[i - 1] EXCEPT ![lines[i].key] = ToNorm(lines[i].key, lines[i].value)]
        ELSE v[i - 1]
  IN  IF Parses(lines) THEN v[Len(lines)] ELSE old

-----------------------------------------------------------------------------
(* Names: sequences of characters *)

Lower(c) == IF c \in 65..90 THEN c + 32 ELSE c

\* nameChar: letters, digits, space, dot, underscore, hyphen.
NameChar == (65..90) \cup (97..122) \cup (48..57) \cup {32, 46, 95, 45}

NameIsSafe(n) ==
  /\ Len(n) \in 1..MaxNameLength
  /\ n[1] # 46 /\ n[Len(n)] # 32
  /\ \A i \in 1..Len(n) : n[i] \in NameChar

\* The first place where two names differ, however written.
Differ(a, b) ==
  {i \in 1..Len(a) : i <= Len(b) /\ Lower(a[i]) # Lower(b[i])}

FirstOf(S) == CHOOSE i \in S : \A j \in S : i <= j

\* std::string's operator< on names of one length.
ByteLess(a, b) ==
  \E i \in 1..Len(a) : a[i] < b[i] /\ \A j \in 1..i - 1 : a[j] = b[j]

\* Mutant: names that differ in case only are left as they come.
LessNameFolded(a, b) ==
  IF Differ(a, b) # {}
  THEN LET i == FirstOf(Differ(a, b)) IN Lower(a[i]) < Lower(b[i])
  ELSE Len(a) < Len(b)

\* lessName: "same letters: fall back to byte order so the sort is total".
LessName(a, b) ==
  IF Differ(a, b) # {}
  THEN LET i == FirstOf(Differ(a, b)) IN Lower(a[i]) < Lower(b[i])
  ELSE IF Len(a) # Len(b) THEN Len(a) < Len(b)
  ELSE ByteLess(a, b)

-----------------------------------------------------------------------------
(* Properties *)

Norms == [Table -> Norm]

Lines == { Header(v) : v \in 0..FormatVersion + 1 } \cup {Skipped, Junk}
           \cup { Pair(k, v) : k \in 0..Unknown, v \in {-1, 0, Top, Top + 1, Bad} }

Texts == UNION { [1..n -> Lines] : n \in 0..3 }

Agree(v, w, params) == \A p \in params : v[p] = w[p]

\* What is saved is what is loaded, whatever lines a later build has added; and a text
\* that anyone has edited is applied whole or not at all: never a value out of range,
\* never one that a preset does not carry, and what becomes of a carried one does not
\* depend on what was set before, so that a key left out means its default
\* (presetstore.cpp 136-206).
AllTextsWhole ==
  /\ \A saved, old \in Norms :
       LET lines == Serialise(saved)
           new  == Parse(lines, old)
       IN  /\ Parses(lines) /\ Agree(new, saved, Carried)
           /\ \A i \in 1..Len(lines), line \in {Skipped, Pair(Unknown, Bad)} :
                Parse(SubSeq(lines, 1, i) \o <<line>> \o SubSeq(lines, i + 1, Len(lines)), old) = new
  /\ \A lines \in Texts, old \in Norms :
       LET new == Parse(lines, old)
       IN  /\ new \in Norms
           /\ Agree(new, old, Table \ Carried)
           /\ Parses(lines) => Agree(new, Parse(lines, Def), Carried)
           /\ ~Parses(lines) => new = old

\* The characters that decide: both cases, a digit, a space, a dot and a slash.
Chars == {65, 97, 66, 32, 46, 47}
Names == { n \in UNION { [1..k -> Chars] : k \in 0..3 } : NameIsSafe(n) }

Smaller == [a \in Names |-> {b \in Names : LessName(b, a)}]

SameLetters(a, b) == Len(a) = Len(b) /\ Differ(a, b) = {}

\* lessName orders any two presets, one way only and consistently, as std::sort must be
\* able to count on, and names that differ in case only stay next to one another
\* (presetstore.cpp 111-123, 264).
AllOrdered ==
  \A a, b \in Names :
    /\ (a = b) <=> a \notin Smaller[b] /\ b \notin Smaller[a]
    /\ a \in Smaller[b] => Smaller[a] \subseteq Smaller[b] \ {a}
    /\ SameLetters(a, b) => \A c \in Smaller[b] \ Smaller[a] : SameLetters(a, c)
=============================================================================
