---------------------------- MODULE CronSchedule ----------------------------
(***************************************************************************)
(* The schedule field of the create and edit backup forms                  *)
(* (create-backup-form.tsx and edit-backup-dialog.tsx, backupSchema), set  *)
(* against the grammar of spec 4.1: a 5-field cron expression whose fields *)
(* may use *, lists, ranges and steps, or one of the @aliases.             *)
(*                                                                         *)
(* A schedule is a sequence of abstract characters: "0" stands for any     *)
(* digit, "w" for a whole alias word (annually, yearly, ... hourly), "x"   *)
(* for any other character; "@", "*", "-", ",", "/" and " " are           *)
(* themselves.  The user types the field token by token, separated by      *)
(* single spaces.                                                          *)
(***************************************************************************)
EXTENDS Naturals, Sequences

CONSTANT MaxTokens   \* bound on the tokens typed into the field

Chars == {"0", "w", "x", "@", "*", "-", ",", "/", " "}

\* What the user may type between two spaces.
Tokens == {<<"*">>, <<"0">>, <<"*", "/", "0">>, <<"0", "-", "0">>,
           <<"0", ",", "0">>, <<"@", "w">>, <<"x">>}

\* The part of s from position i to the end.
From(s, i) == SubSeq(s, i, Len(s))

-----------------------------------------------------------------------------
(* The form: z.string().min(1).regex(                                      *)
(*   /^(@(annually|...|hourly))|(((\*|([0-9\-,/]+)) +){4}(\*|([0-9\-,/]+)))$/) *)
(* The ^ belongs to the first alternative only and the $ to the second     *)
(* only: RegExp.test accepts a string that starts with an alias, or whose  *)
(* tail is five space-separated fields.                                    *)

\* (\*|([0-9\-,/]+)): a lone star, or a run of digits, '-', ',' and '/'.
RegexField(t) ==
    \/ t = <<"*">>
    \/ Len(t) > 0 /\ \A x \in 1..Len(t) : t[x] \in {"0", "-", ",", "/"}

-----------------------------------------------------------------------------
(* Spec 4.1: field := item (',' item)*, item := base ('/' number)?,        *)
(* base := '*' | number | number '-' number; or exactly one @alias.        *)

Number(t) == Len(t) > 0 /\ \A x \in 1..Len(t) : t[x] = "0"

Base(t) ==
    \/ t = <<"*">>
    \/ Number(t)
    \/ \E x \in 1..Len(t) :
         t[x] = "-" /\ Number(SubSeq(t, 1, x - 1)) /\ Number(From(t, x + 1))

Item(t) ==
    \/ Base(t)
    \/ \E x \in 1..Len(t) :
         t[x] = "/" /\ Base(SubSeq(t, 1, x - 1)) /\ Number(From(t, x + 1))

RECURSIVE CronField(_)
CronField(t) ==
    \/ Item(t)
    \/ \E x \in 1..Len(t) :
         t[x] = "," /\ Item(SubSeq(t, 1, x - 1)) /\ CronField(From(t, x + 1))

\* s is k fields of the given grammar ("regex" or "spec"), separated by
\* runs of spaces, with no space before the first or after the last.
RECURSIVE Fields(_, _, _)
Fields(s, k, g) ==
    LET IsField(t) == IF g = "regex" THEN RegexField(t) ELSE CronField(t)
    IN IF k = 1 THEN IsField(s)
       ELSE \E i \in 1..Len(s), j \in 1..Len(s) :
               /\ i < j
               /\ IsField(SubSeq(s, 1, i))
               /\ \A x \in i + 1..j : s[x] = " "
               /\ Fields(From(s, j + 1), k - 1, g)

\* backupSchema's schedule: min(1) and the regex.
FormAccepts(s) ==
    /\ Len(s) >= 1
    /\ \/ Len(s) >= 2 /\ s[1] = "@" /\ s[2] = "w"
       \/ \E i \in 1..Len(s) : Fields(From(s, i), 5, "regex")

SpecAccepts(s) == s = <<"@", "w">> \/ Fields(s, 5, "spec")

-----------------------------------------------------------------------------
VARIABLES
    schedule,   \* the text of the schedule input
    typed       \* tokens typed so far

TypeOK == schedule \in Seq(Chars) /\ typed \in 0..MaxTokens

Init == schedule = <<>> /\ typed = 0

\* The user types one more token (register("schedule") keeps the text).
Type ==
    /\ typed < MaxTokens
    /\ typed' = typed + 1
    /\ \E t \in Tokens :
         schedule' = IF schedule = <<>> THEN t ELSE schedule \o <<" ">> \o t

Next == Type

Spec == Init /\ [][Next]_<<schedule, typed>>

\* The form accepts exactly the schedules that spec 4.1 says the backend
\* accepts: backupSchema's .regex neither lets through a string the
\* scheduler rejects nor refuses a valid cron expression.
FormAcceptsSpecSchedules == FormAccepts(schedule) = SpecAccepts(schedule)

=============================================================================
