---------------------------- MODULE MCExercises ----------------------------
(***************************************************************************)
(* TLC instance of the four libuv exercises that are modelled.  They are   *)
(* programs of their own, so that in a behaviour only the one that program *)
(* names takes steps, and the rest stays in its initial state: the states  *)
(* add up and do not multiply.                                             *)
(***************************************************************************)
EXTENDS RaceServer, Questions, EchoServer, HorseRace, FileReads

VARIABLE program    \* "race", "questions", "echo", "horses" or "files"

\* Whole lines, and pieces of one.
MCSaid == {<<"1", "\n">>, <<"1">>, <<"1", "\r", "\n">>, <<"1", "2", "\r", "\n">>, <<"-", "1", "\n">>,
           <<"A", "\n">>, <<"t", "I", "m", "\r", "\n">>, <<"m", "A", "L", "L", "O", "C", "\n">>,
           <<"n", "\n">>, <<"c", "+">>, <<"c", "\n">>, <<"\n">>}

exerciseVars == <<program, vars, questionVars, echoVars, horseVars, fileVars>>

ExercisesInit ==
    /\ program \in {"race", "questions", "echo", "horses", "files"}
    /\ RaceInit /\ (program # "race" => ids \in FirstIds)
    /\ QuestionsInit
    /\ EchoInit
    /\ HorseInit
    /\ FilesInit /\ (program # "files" => exercise = "03" /\ length = 0)

RaceStep(A)  == program = "race" /\ A /\ UNCHANGED <<program, questionVars, echoVars, horseVars, fileVars>>
QuestionsStep(A) ==
    program = "questions" /\ A /\ UNCHANGED <<program, vars, echoVars, horseVars, fileVars>>
EchoStep(A)  == program = "echo" /\ A /\ UNCHANGED <<program, vars, questionVars, horseVars, fileVars>>
HorseStep(A) == program = "horses" /\ A /\ UNCHANGED <<program, vars, questionVars, echoVars, fileVars>>
FilesStep(A) == program = "files" /\ A /\ UNCHANGED <<program, vars, questionVars, echoVars, horseVars>>

ExercisesNext ==
    \/ RaceStep(RaceNext) \/ QuestionsStep(QuestionsNext)
    \/ EchoStep(EchoNext) \/ HorseStep(HorseNext) \/ FilesStep(FilesNext)

\* The fairness of FairRaceSpec, FairEchoSpec and FairHorseSpec.
ExercisesSpec ==
    /\ ExercisesInit /\ [][ExercisesNext]_exerciseVars
    /\ WF_exerciseVars(RaceStep(QuestionHandler)) /\ WF_exerciseVars(RaceStep(TrackHandler))
    /\ \A c \in Peers : WF_exerciseVars(EchoStep(EchoCallback(c)))
    /\ WF_exerciseVars(HorseStep(HorseMain))
    /\ \A h \in Horses : WF_exerciseVars(HorseStep(HorseThread(h)))

\* Every variable has its type: the tables, cards and queues of the race, the
\* bytes and allocations of the echo server (nothing is freed that was not
\* allocated), and the places, handles and threads of the horses.
ExercisesTypeOK == TypeOK /\ EchoTypeOK /\ HorseTypeOK

\* Sanity conditions a reader may add as INVARIANTs to see that the situations
\* the properties are about are reached.
NeverStopped == server = "up"
NeverMissed  == race = "ended" => \A h \in Horses : drawn[h] = position[h]

=============================================================================
