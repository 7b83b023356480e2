--------------------------------- MODULE Regex --------------------------------
(***************************************************************************)
(* Exercise 32: patterns compiled, used and freed section by section, and  *)
(* the two loops that collect every match of a text with a moving cursor.  *)
(*                                                                         *)
(* A text is a sequence of character classes, positions start at 0 as the  *)
(* offsets of regmatch_t do, and regexec sees only what follows the cursor *)
(* it is given.  Its choice, the leftmost longest match, is the library's. *)
(***************************************************************************)
EXTENDS Integers, Sequences, FiniteSets, FiniteSetsExt

CONSTANT MaxText     \* longest text

RegexAssumption == MaxText \in Nat

\* The patterns in the order they are compiled, with their regexec calls; the
\* fourth and fifth are the loops.
main == <<"basic", "groups", "icase", "newline", "scan", "ipv4", "date", "ident">>
Inputs == [basic |-> 3, groups |-> 5, icase |-> 3, ipv4 |-> 4, date |-> 4, ident |-> 4]
Loops == {"newline", "scan"}

\* "0" a digit, "x" another character, "/" a newline; capitals and small letters.
Alphabet == [newline |-> {"0", "x", "/"}, scan |-> {"A", "a", " "}]
Texts(alphabet) == UNION {[1 .. n -> alphabet] : n \in 0 .. MaxText}

VARIABLES todo,      \* patterns not finished yet
          re,        \* the regex_t: "freed", "compiled" or "undefined"
          execs,     \* regexec calls made with this pattern
          text, cursor, notbol,   \* of the loop
          found,     \* matches, as [so, eo) in the text
          status     \* "running", "exit(0)", "exit(1)"

vars == <<todo, re, execs, text, cursor, notbol, found, status>>

Init ==
    /\ todo = main
    /\ re = "freed" /\ execs = 0
    /\ text = <<>> /\ cursor = 0 /\ notbol = FALSE /\ found = <<>>
    /\ status = "running"

pattern == Head(todo)
using(p) == status = "running" /\ todo # <<>> /\ pattern = p /\ re = "compiled"

\* regcomp fails: the object is undefined, it is reported and the process ends
\* without a regfree.  Otherwise a loop starts on its text.
compile ==
    /\ status = "running" /\ todo # <<>> /\ re = "freed" /\ execs = 0
    /\ \/ /\ re' = "compiled"
          /\ text' \in IF pattern \in Loops THEN Texts(Alphabet[pattern]) ELSE {<<>>}
          /\ UNCHANGED status
       \/ re' = "undefined" /\ status' = "exit(1)" /\ UNCHANGED text
    /\ cursor' = 0 /\ notbol' = FALSE /\ found' = <<>>
    /\ UNCHANGED <<todo, execs>>

-----------------------------------------------------------------------------
(* What the two patterns match in the text from the cursor on *)

At(k) == text[k + 1]
Within(so, eo, class) == \A k \in so .. eo - 1 : At(k) = class

\* [A-Z][a-z]+
capitalised(so, eo) == eo >= so + 2 /\ At(so) = "A" /\ Within(so + 1, eo, "a")

\* ^[0-9]+$ with REG_NEWLINE; at the cursor ^ depends on REG_NOTBOL.
digit_line(so, eo) ==
    /\ eo > so /\ Within(so, eo, "0")
    /\ IF so = cursor THEN ~notbol ELSE At(so - 1) = "/"
    /\ eo = Len(text) \/ At(eo) = "/"

Candidates ==
    {m \in (cursor .. Len(text)) \X (cursor .. Len(text)) :
        m[1] < m[2] /\ IF pattern = "scan" THEN capitalised(m[1], m[2]) ELSE digit_line(m[1], m[2])}

Leftmost == {m \in Candidates : \A o \in Candidates : m[1] <= o[1]}
regexec == CHOOSE m \in Leftmost : \A o \in Leftmost : o[2] <= m[2]

-----------------------------------------------------------------------------
\* The fixed inputs of the other sections, one call each.
exec_input(p) ==
    /\ using(p) /\ execs < Inputs[p]
    /\ execs' = execs + 1
    /\ UNCHANGED <<todo, re, text, cursor, notbol, found, status>>

section2_basic == exec_input("basic")
section3_groups == exec_input("groups")
section4_icase == exec_input("icase")
check == exec_input("ipv4") \/ exec_input("date") \/ exec_input("ident")

collect ==
    /\ found' = Append(found, regexec)
    /\ execs' = execs + 1
    /\ UNCHANGED <<todo, re, text, status>>

\* p += rm_eo; regexec gets REG_NOTBOL once p has moved.
scan_lines ==
    /\ using("newline") /\ Candidates # {}
    /\ found = <<>> \/ cursor < Len(text)          \* else break at the NUL
    /\ cursor' = regexec[2]
    /\ notbol' = TRUE
    /\ collect

\* cursor += rm_eo, and one further after an empty match.
scan_words ==
    /\ using("scan") /\ Candidates # {}
    /\ cursor' = regexec[2] + (IF regexec[1] = regexec[2] THEN 1 ELSE 0)
    /\ notbol' = TRUE
    /\ collect

\* The inputs are done, or a loop met REG_NOMATCH or the end.
exhausted ==
    IF pattern \in Loops THEN Candidates = {} \/ (found # <<>> /\ cursor = Len(text))
                         ELSE execs = Inputs[pattern]

regfree ==
    /\ \E p \in DOMAIN Inputs \cup Loops : using(p)
    /\ exhausted
    /\ re' = "freed" /\ execs' = 0
    /\ todo' = Tail(todo)
    /\ status' = IF Len(todo) = 1 THEN "exit(0)" ELSE status
    /\ UNCHANGED <<text, cursor, notbol, found>>

Next ==
    \/ compile \/ section2_basic \/ section3_groups \/ section4_icase
    \/ scan_lines \/ scan_words \/ check \/ regfree
    \/ status # "running" /\ UNCHANGED vars

Spec == Init /\ [][Next]_vars

-----------------------------------------------------------------------------
\* Every line of digits, from newline to newline.
Lines ==
    {m \in (0 .. Len(text)) \X (0 .. Len(text)) :
        /\ m[1] < m[2] /\ Within(m[1], m[2], "0")
        /\ m[1] = 0 \/ At(m[1] - 1) = "/"
        /\ m[2] = Len(text) \/ At(m[2]) = "/"}

\* Every capital with all the small letters after it.
Words ==
    {m \in (0 .. Len(text)) \X (0 .. Len(text)) :
        capitalised(m[1], m[2]) /\ (m[2] = Len(text) \/ At(m[2]) # "a")}

(***************************************************************************)
(* On every text the loops find each match once, whole and from left to    *)
(* right, and stop inside the text.                                        *)
(***************************************************************************)
AllFound ==
    /\ cursor <= Len(text)
    /\ \A i, j \in DOMAIN found : i < j => found[i][2] <= found[j][1]
    /\ re = "freed" /\ todo # <<>> /\ status = "running" =>
         /\ pattern = "scan" => {found[i] : i \in DOMAIN found} = Lines
         /\ pattern = "ipv4" => {found[i] : i \in DOMAIN found} = Words

\* main returns only when every pattern was used and the object was freed, and
\* an object is never left behind compiled: the only other end is a regcomp that
\* failed, with nothing to free but what regcomp itself left (lines 22-27).
Freed ==
    /\ status = "exit(0)" => todo = <<>> /\ re = "freed"
    /\ status = "exit(1)" => re = "undefined"
===============================================================================
