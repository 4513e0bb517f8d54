----------------------------- MODULE Questions -----------------------------
(***************************************************************************)
(* The questions of the interactive horse race (questions.c) and how       *)
(* onclient_msg judges the answers.                                        *)
(*                                                                         *)
(* A question is what it asks for and the answer, a text: a sequence of    *)
(* characters.  main fills the two tables before it serves clients.        *)
(***************************************************************************)
EXTENDS Integers, Sequences, SequencesExt

CONSTANTS
    MATH_QUESTIONS_LEN,
    CONVERSION_QUESTIONS_LEN,
    MaxFactor,      \* the operands of a product are below it,
    MaxTerm,        \* those of a sum or a difference below this
    Said            \* what clients may send in one piece

ASSUME QuestionsAssumption ==
    /\ MATH_QUESTIONS_LEN \in Nat \ {0} /\ MaxFactor \in Nat \ {0} /\ MaxTerm \in Nat \ {0}
    /\ CONVERSION_QUESTIONS_LEN \in {2 * i : i \in 1..128}
    /\ Said \subseteq Seq(STRING) \ {<<>>}

VARIABLES
    math_questions,
    conversion_questions,
    served,         \* main has filled the tables
    question,       \* game->question
    given,          \* the last answer
    verdict         \* "none", "right" or "wrong"

questionVars == <<math_questions, conversion_questions, served, question, given, verdict>>

\* An entry of a table before it is set.
Empty == [asks |-> <<>>, answer |-> <<>>]

QuestionsInit ==
    /\ math_questions = <<>>
    /\ conversion_questions = <<>>
    /\ served = FALSE
    /\ question = Empty
    /\ given = <<>>
    /\ verdict = "none"

-----------------------------------------------------------------------------
(* The tables *)

\* canned_questions
CannedQuestions == {
    [asks |-> <<"the gate">>,           answer |-> <<"N">>],
    [asks |-> <<"library of Node.js">>, answer |-> <<"l", "i", "b", "u", "v">>],
    [asks |-> <<"language of libuv">>,  answer |-> <<"C">>],
    [asks |-> <<"language of v8">>,     answer |-> <<"C", "+", "+">>],
    [asks |-> <<"conference">>,         answer |-> <<"c", "a", "m", "p", "j", "s">>],
    [asks |-> <<"curator of campjs">>,  answer |-> <<"T", "i", "m">>],
    [asks |-> <<"creator of Node.js">>, answer |-> <<"R", "y", "a", "n">>],
    [asks |-> <<"allocates memory">>,   answer |-> <<"m", "a", "l", "l", "o", "c">>],
    [asks |-> <<"releases memory">>,    answer |-> <<"f", "r", "e", "e">>]}

Digit == <<"0", "1", "2", "3", "4", "5", "6", "7", "8", "9", "a", "b", "c", "d", "e", "f">>

\* A number as snprintf writes it in that base.
Numeral(n, base) ==
    LET numeral[m \in Nat] == IF m < base THEN <<Digit[m + 1]>>
                              ELSE Append(numeral[m \div base], Digit[(m % base) + 1])
    IN  numeral[n]

\* %d
Decimal(n) == IF n < 0 THEN <<"-">> \o Numeral(-n, 10) ELSE Numeral(n, 10)

Result(op, p1, p2) ==
    CASE op = "+" -> p1 + p2
      [] op = "-" -> p1 - p2
      [] op = "*" -> p1 * p2

\* init_math_questions: the next entry.
InitMathQuestion ==
    /\ Len(math_questions) < MATH_QUESTIONS_LEN
    /\ \E op \in {"+", "-", "*"} :
         LET below == 0..((IF op = "*" THEN MaxFactor ELSE MaxTerm) - 1) IN
         \E p1, p2 \in below :
            math_questions' = Append(math_questions,
                [asks |-> <<op, p1, p2>>, answer |-> Decimal(Result(op, p1, p2))])
    /\ UNCHANGED <<conversion_questions, served, question, given, verdict>>

\* Mutant: the loop sets only the entry of its counter.
EveryOther(i) == <<[asks |-> <<"hex", i>>, answer |-> Numeral(i, 16)], Empty>>

\* The two questions about i.
Conversions(i) ==
    <<[asks |-> <<"hex", i>>, answer |-> Numeral(i, 16)],
      [asks |-> <<"dec", i>>, answer |-> Decimal(i)]>>

\* init_conversion_questions: the next two entries.
InitConversionQuestions ==
    /\ Len(math_questions) = MATH_QUESTIONS_LEN
    /\ Len(conversion_questions) < CONVERSION_QUESTIONS_LEN
    /\ conversion_questions' = conversion_questions \o Conversions(Len(conversion_questions))
    /\ UNCHANGED <<math_questions, served, question, given, verdict>>

\* main goes on to serve clients.
Serve ==
    /\ ~served
    /\ Len(conversion_questions) = CONVERSION_QUESTIONS_LEN
    /\ served' = TRUE
    /\ UNCHANGED <<math_questions, conversion_questions, question, given, verdict>>

-----------------------------------------------------------------------------
(* The game *)

\* luv_questions_get takes one of the three kinds, and any of the kind.
Askable == CannedQuestions \cup ToSet(math_questions) \cup ToSet(conversion_questions)

\* question_handler asks the next question.
Ask ==
    /\ served
    /\ question' \in Askable
    /\ given' = <<>> /\ verdict' = "none"
    /\ UNCHANGED <<math_questions, conversion_questions, served>>

Capitals == <<"A", "B", "C", "D", "E", "F", "G", "H", "I", "J", "K", "L", "M",
              "N", "O", "P", "Q", "R", "S", "T", "U", "V", "W", "X", "Y", "Z">>
Smalls   == <<"a", "b", "c", "d", "e", "f", "g", "h", "i", "j", "k", "l", "m",
              "n", "o", "p", "q", "r", "s", "t", "u", "v", "w", "x", "y", "z">>

\* tolower
Lower(c) == IF \E i \in 1..26 : Capitals[i] = c
            THEN Smalls[CHOOSE i \in 1..26 : Capitals[i] = c] ELSE c

InLower(text) == [i \in DOMAIN text |-> Lower(text[i])]

\* Mutant: the line's end is not part of what is compared.
WithoutEnd(correct, text) ==
    LET n == IF Len(correct) < Len(text) THEN Len(correct) ELSE Len(text) - 1
    IN  InLower(SubSeq(correct, 1, n)) = InLower(SubSeq(text, 1, n))

\* strncasecmp up to the length of the shorter text.
Matches(correct, text) ==
    LET n == IF Len(correct) < Len(text) THEN Len(correct) ELSE Len(text)
    IN  InLower(SubSeq(correct, 1, n)) = InLower(SubSeq(text, 1, n))

\* onclient_msg
Judge(text) ==
    /\ served /\ question # Empty
    /\ given' = text
    /\ verdict' = IF Matches(question.answer, text) THEN "right" ELSE "wrong"
    /\ UNCHANGED <<math_questions, conversion_questions, served, question>>

QuestionsNext ==
    \/ InitMathQuestion
    \/ InitConversionQuestions
    \/ Serve
    \/ Ask
    \/ \E text \in Said : Judge(text)

QuestionsSpec == QuestionsInit /\ [][QuestionsNext]_questionVars

-----------------------------------------------------------------------------
(* Properties *)

\* The number that a numeral stands for, read from its first digit on.
ValueOf(text, base) ==
    LET value[i \in 0..Len(text)] ==
          IF i = 0 THEN 0
          ELSE value[i - 1] * base + (CHOOSE d \in 0..(base - 1) : Digit[d + 1] = text[i])
    IN  value[Len(text)]

\* The same with a sign.
SignedValueOf(text) == IF text[1] = "-" THEN -ValueOf(Tail(text), 10) ELSE ValueOf(text, 10)

\* Once main serves clients, every question that may be asked was set, and its
\* answer is what it asks for when it is read as a number again; an entry that
\* was not set would have the empty answer, with which any line agrees
\* (init_math_questions, init_conversion_questions).
AnswersRight ==
    served =>
      /\ Empty \notin Askable
      /\ \A q \in ToSet(math_questions) :
           LET a == SignedValueOf(q.answer)  p1 == q.asks[2]  p2 == q.asks[3] IN
           CASE q.asks[1] = "+" -> a - p1 = p2
             [] q.asks[1] = "-" -> a + p2 = p1
             [] OTHER           -> IF p1 = 0 THEN a = 0 ELSE a % p1 = 0 /\ a \div p1 = p2
      /\ \A q \in ToSet(conversion_questions) :
           ValueOf(q.answer, IF q.asks[1] = "hex" THEN 16 ELSE 10) = q.asks[2]

\* The same character, or the same letter in capital and in small.
Alike(a, b) == a = b \/ \E i \in 1..26 : {a, b} = {Capitals[i], Smalls[i]}

\* A whole line is judged right if and only if it begins with the answer, a
\* letter of which may be written in capital or in small: the end of the line,
\* which is compared too, keeps the first characters of the answer from passing
\* for it (onclient_msg).
LineJudged ==
    verdict # "none" /\ Last(given) = "\n" =>
        (verdict = "right" <=>
           /\ Len(question.answer) <= Len(given)
           /\ \A i \in DOMAIN question.answer : Alike(question.answer[i], given[i]))

=============================================================================
