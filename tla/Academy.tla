------------------------------ MODULE Academy ------------------------------
(*****************************************************************************)
(* One player's way through the lessons: pages open lessons, a quiz asks the *)
(* questions of one lesson, and the last one's "next" button completes it.   *)
(* The quiz lives in the dialogue's data; its buttons stay in the chat, so   *)
(* that a press may belong to an earlier quiz, and a handler writes back     *)
(* what it read before another one started.                                  *)
(*****************************************************************************)
EXTENDS Game

CONSTANTS
    Lesson,         \* the ids of the active lessons, in their order
    NoLesson,
    ModuleOf,       \* Lesson.module_id
    Questions,      \* the number of questions of a lesson
    XpFor,          \* the points a module asks for (MODULE_META and XP_THRESHOLDS)
    MaxTurns        \* bound: exchanges kept of the talk with the mentor (history[-10:])

ASSUME AcademyAssumption ==
    /\ Lesson \subseteq Nat /\ NoLesson \notin Lesson /\ MaxTurns \in Nat
    /\ ModuleOf \in [Lesson -> Nat] /\ Questions \in [Lesson -> Nat \ {0}]

VARIABLES
    quiz,           \* the state and data of the dialogue
    progress,       \* UserLessonProgress.status, or "none" without a row
    xp,             \* UserXP.total_xp, one point for a lesson
    opened,         \* quiz and answer buttons the chat shows
    pressed,        \* a press that has read the dialogue's data, or NoPress
    mentor,         \* the talk kept in Redis
    question,       \* a question sent to the language model, or NoPress
    learned         \* history: questions answered right

academyVars == <<quiz, progress, xp, opened, pressed, mentor, question, learned>>

NoQuiz == [state |-> "none", lesson |-> NoLesson, q |-> 0, correct |-> 0]
NoPress == [kind |-> "none"]
NoTalkKept == [lesson |-> NoLesson, turns |-> 0]

OfModule(m) == {l \in Lesson : ModuleOf[l] = m}
FirstOf(m) == CHOOSE l \in OfModule(m) : \A k \in OfModule(m) : l <= k
Done(m) == {l \in OfModule(m) : progress[l] = "done"}

\* _is_module_locked: the level, and one lesson of the module before.
ModuleLocked(m) == xp < XpFor[m] \/ (m > 1 /\ Done(m - 1) = {})

\* get_module_lessons: the first lesson of an unlocked module is shown.
Listed(m) ==
    IF ModuleLocked(m) \/ progress[FirstOf(m)] # "none" THEN progress
    ELSE [progress EXCEPT ![FirstOf(m)] = "open"]

\* The status the page gives a lesson.
StatusOf(l) ==
    LET s == Listed(ModuleOf[l])[l]
    IN  IF s = "none" \/ (ModuleLocked(ModuleOf[l]) /\ s # "done") THEN "locked" ELSE s

------------------------------------------------------------------------------
(* Pages. *)

\* The academy's page forgets the quiz.
BackToAcademyMain ==
    /\ quiz' = NoQuiz
    /\ UNCHANGED <<progress, xp, opened, pressed, mentor, question, learned>>

ShowModule(m) ==
    /\ ~ModuleLocked(m)
    /\ progress' = Listed(m)
    /\ quiz' = NoQuiz
    /\ UNCHANGED <<xp, opened, pressed, mentor, question, learned>>

\* show_lesson_handler: the lesson's page has a button that starts its quiz.
ShowLesson(l) ==
    /\ progress' = Listed(ModuleOf[l])
    /\ IF StatusOf(l) = "locked" THEN UNCHANGED <<quiz, opened>>
       ELSE /\ quiz' = NoQuiz
            /\ opened' = IF StatusOf(l) = "open" THEN opened \cup {<<"quiz", l, 0>>} ELSE opened
    /\ UNCHANGED <<xp, pressed, mentor, question, learned>>

------------------------------------------------------------------------------
(* The quiz. *)

\* start_quiz: any quiz button when no quiz is in progress; it starts at question 0.
StartQuiz(l, q) ==
    /\ <<"quiz", l, q>> \in opened /\ quiz.state # "QUIZ_IN_PROGRESS"
    /\ progress' = Listed(ModuleOf[l])
    /\ IF StatusOf(l) # "open" THEN UNCHANGED <<quiz, opened>>
       ELSE /\ quiz' = [state |-> "QUIZ_IN_PROGRESS", lesson |-> l, q |-> 0, correct |-> 0]
            /\ opened' = opened \cup {<<"answer", l, 0>>}
    /\ UNCHANGED <<xp, pressed, mentor, question, learned>>

\* quiz_next and handle_answer read the data and check the lesson, and an answer
\* that its question is the one asked.
Press(kind, l, q) ==
    /\ pressed = NoPress
    /\ <<kind, l, q>> \in opened
    /\ quiz.lesson = l
    /\ CASE kind = "quiz" -> quiz.state = "QUIZ_IN_PROGRESS"
         [] kind = "answer" -> quiz.q = q
    /\ pressed' = [kind |-> kind, lesson |-> l, q |-> q, correct |-> quiz.correct]
    /\ UNCHANGED <<quiz, progress, xp, opened, mentor, question, learned>>

\* quiz_next with a question to show: only the question's number is written.
QuizNext ==
    /\ pressed.kind = "quiz" /\ pressed.q < Questions[pressed.lesson]
    /\ quiz' = [quiz EXCEPT !.q = pressed.q]
    /\ opened' = opened \cup {<<"answer", pressed.lesson, pressed.q>>}
    /\ pressed' = NoPress
    /\ UNCHANGED <<progress, xp, mentor, question, learned>>

\* Mutant: the next question's button, whatever the answer was.
NextButtonAlways(right, q) == q + 1

\* The button under the verdict: the next question, or this one again.
NextButton(right, q) == IF right THEN q + 1 ELSE q

\* handle_answer: the count read before is written back.
HandleAnswer(right) ==
    /\ pressed.kind = "answer"
    /\ quiz' = IF right THEN [quiz EXCEPT !.correct =
                                Capped(pressed.correct + 1, Questions[pressed.lesson] + 1)] ELSE quiz
    /\ opened' = opened \cup {<<"quiz", pressed.lesson, NextButton(right, pressed.q)>>}
    /\ learned' = IF right THEN learned \cup {<<pressed.lesson, pressed.q>>} ELSE learned
    /\ pressed' = NoPress
    /\ UNCHANGED <<progress, xp, mentor, question>>

\* complete_lesson: the lesson is done, the next one and, when that was the last of
\* its module, the next module's first one are shown.
Completed(l) ==
    LET done == [progress EXCEPT ![l] = "done"]
        m == ModuleOf[l]
        whole == \A k \in OfModule(m) : done[k] = "done"
        opens == (OfModule(m) \cap {l + 1})
                 \cup (IF whole /\ OfModule(m + 1) # {} /\ xp + 1 >= XpFor[m + 1]
                       THEN {FirstOf(m + 1)} ELSE {})
    IN  [k \in Lesson |-> IF k \in opens /\ done[k] = "none" THEN "open" ELSE done[k]]

\* quiz_next behind the last question: finish_quiz, with the count read before.
FinishQuiz ==
    /\ pressed.kind = "quiz" /\ pressed.q >= Questions[pressed.lesson]
    /\ IF progress[pressed.lesson] = "open"
       THEN progress' = Completed(pressed.lesson) /\ xp' = xp + 1
       ELSE UNCHANGED <<progress, xp>>
    /\ quiz' = NoQuiz
    /\ pressed' = NoPress
    /\ UNCHANGED <<opened, mentor, question, learned>>

------------------------------------------------------------------------------
(* The mentor. *)

\* start_ask_ai keeps the rest of the quiz's data.
StartAskAi(l) ==
    /\ l = NoLesson \/ (l \in Lesson /\ progress[l] # "none")
    /\ quiz' = [quiz EXCEPT !.state = "ASKING_AI", !.lesson = l]
    /\ UNCHANGED <<progress, xp, opened, pressed, mentor, question, learned>>

\* receive_question, to the language model: the talk about this lesson goes on.
ReceiveQuestion ==
    /\ quiz.state = "ASKING_AI" /\ question = NoPress
    /\ question' = [kind |-> "question", lesson |-> quiz.lesson,
                    turns |-> IF mentor.lesson = quiz.lesson THEN mentor.turns ELSE 0]
    /\ UNCHANGED <<quiz, progress, xp, opened, pressed, mentor, learned>>

\* The answer: the talk read before is written with one exchange more, unless Redis fails.
MentorAnswers(kept) ==
    /\ question # NoPress
    /\ mentor' = IF kept THEN [lesson |-> question.lesson, turns |-> Capped(question.turns + 1, MaxTurns)]
                 ELSE mentor
    /\ question' = NoPress
    /\ UNCHANGED <<quiz, progress, xp, opened, pressed, learned>>

\* cancel_ask, and an hour without a question.
CancelAsk ==
    /\ quiz' = NoQuiz
    /\ mentor' = NoTalkKept
    /\ UNCHANGED <<progress, xp, opened, pressed, question, learned>>

------------------------------------------------------------------------------
AcademyInit ==
    /\ quiz = NoQuiz /\ xp = 0
    /\ progress = [l \in Lesson |-> "none"]
    /\ opened = {} /\ pressed = NoPress /\ learned = {}
    /\ mentor = NoTalkKept /\ question = NoPress

AcademyNext ==
    \/ BackToAcademyMain \/ QuizNext \/ FinishQuiz \/ ReceiveQuestion \/ CancelAsk
    \/ \E l \in Lesson : ShowModule(ModuleOf[l]) \/ ShowLesson(l)
    \/ \E b \in opened : b[1] = "quiz" /\ StartQuiz(b[2], b[3])
    \/ \E b \in opened : Press(b[1], b[2], b[3])
    \/ \E right \in BOOLEAN : HandleAnswer(right)
    \/ \E l \in Lesson \cup {NoLesson} : StartAskAi(l)
    \/ \E kept \in BOOLEAN : MentorAnswers(kept)

AcademySpec == AcademyInit /\ [][AcademyNext]_academyVars

------------------------------------------------------------------------------
(* Properties *)

\* Whatever quizzes, old buttons and questions to the mentor overlap, a lesson is
\* done, and paid for, only after each of its questions was answered right, and
\* only after the lesson before it in its module, or one of the module before.
LessonsAreLearned ==
    /\ xp = Cardinality({l \in Lesson : progress[l] = "done"})
    /\ \A l \in Lesson : progress[l] = "done" =>
        /\ \A q \in 0..(Questions[l] - 1) : <<l, q>> \in learned
        /\ l # FirstOf(ModuleOf[l]) => progress[l - 1] = "done"
        /\ l = FirstOf(ModuleOf[l]) /\ ModuleOf[l] > 1 => Done(ModuleOf[l] - 1) # {}

=============================================================================
