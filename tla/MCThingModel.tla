----------------------------- MODULE MCThingModel -----------------------------
(* Values for model checking ThingModel, and SensorReports, where the      *)
(* definitions of ThingModel's sensors are used.                           *)
EXTENDS ThingModel, SensorReports, TLC

CONSTANT w1

NoSpecs == [f \in {"min", "max", "step", "maxLen", "thMin", "thMax"} |-> None] @@ [values |-> {}]

\* Specs that are fine, that contradict themselves, and that list words.
Between(a, b) == [NoSpecs EXCEPT !.min = a, !.max = b]
Alarm(a, b) == [NoSpecs EXCEPT !.thMin = a, !.thMax = b]
OneOf(ws) == [NoSpecs EXCEPT !.values = ws]

MCCreates ==
    [sensor |-> {[name |-> "n1", dataType |-> "", interval |-> 1, specs |-> Braces],
                 [name |-> "t1", dataType |-> "enum", specs |-> OneOf({"on"}), enabled |-> FALSE],
                 [name |-> "n2", specs |-> Between(2, 1)]},
     actuator |-> {[driver |-> "led", specs |-> "gpio"], [driver |-> "laser"]}]

MCPatches ==
    [sensor |-> {[name |-> "n2", specs |-> Between(0, 2)],
                 [unit |-> "u", interval |-> Null],
                 [dataType |-> "", specs |-> Null],
                 [dataType |-> "bool", enabled |-> TRUE],
                 [specs |-> Alarm(2, 1)],
                 [specs |-> Braces, interval |-> 2],
                 [interval |-> 0],
                 [interval |-> Null]},
     actuator |-> {[driver |-> "servo", specs |-> Braces], [name |-> "n1"], [specs |-> Malformed]}]

\* A number under a name of its own, and a word under the identifier of the other sensor.
MCForms == {[name |-> "a", dataType |-> "float", values |-> {}],
            [name |-> "s1", dataType |-> "enum", values |-> {"on"}]}

\* It fits one of the two; a word fits the other, and may be reported for both.
MCReports == {[n \in {"s1"} |-> "number"], [n \in {"s1", "a"} |-> "on"]}

\* The two modules share no variable.  In a behaviour one of them moves, and the other stays
\* as it was at the start, so that their states add up and do not multiply.
EitherInit == Init /\ ReportInit

EitherSpec ==
    /\ EitherInit
    /\ [][\/ Next /\ ReportInit /\ UNCHANGED reportVars
          \/ ReportNext /\ Init /\ UNCHANGED vars]_<<vars, reportVars>>
    /\ Fairness

=============================================================================
