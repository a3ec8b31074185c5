-------------------------- MODULE MCServiceProbes --------------------------
(* An instance of ServiceProbes: a year of 24 minutes, and one or two services
   of every kind. *)
EXTENDS ServiceProbes, TLC

CONSTANTS unit, web, webd, ctr, pod, box, guest, timer

Star == [star |-> TRUE, toks |-> {}]
On(toks) == [star |-> FALSE, toks |-> toks]
Range2(lo, hi, step) == [star |-> FALSE, lo |-> lo, hi |-> hi, step |-> step]
Every(step) == [star |-> TRUE, lo |-> 0, hi |-> 0, step |-> step]
V(v) == On({Range2(v, v, 1)})

\* Every minute; day of month or weekday; a date; a list with a step over all
\* hours; every other day of the month; lines nobody takes; lines that cron and the
\* agent read differently: a step and a weekday, the weekday that is Sunday again,
\* a minute there is not.
EveryMinute == <<Star, Star, Star, Star, Star>>
EitherDay   == <<V(0), V(1), V(3), Star, V(1)>>
OneDate     == <<V(1), V(0), V(2), V(2), Star>>
Stepped     == <<On({Range2(0, 1, 1)}), On({Every(2), Range2(1, 1, 1)}), Star,
                 Star, V(0)>>
BadStep     == <<On({Every(0)}), Star, Star, Star, Star>>
EmptyRange  == <<On({Range2(1, 0, 1)}), Star, Star, Star, Star>>
OddDays     == <<V(1), V(1), On({Every(2)}), Star, Star>>
StepOrDay   == <<V(0), V(0), On({Every(2)}), Star, V(1)>>
SundayAgain == <<V(0), V(0), Star, Star, V(2)>>
NoSuchMinute == <<On({Range2(0, 0, 1), Range2(5, 5, 1)}), Star, Star, Star, Star>>

Own(lines) == [own |-> lines, system |-> {}]
McCrontabs == {Own({}), Own({Shortcut, BadStep}), Own({EitherDay}), Own({OneDate}),
               [own |-> {Stepped}, system |-> {OneDate}],
               [own |-> {}, system |-> {EveryMinute}],
               Own({EitherDay, EmptyRange, Shortcut}), Own({OddDays}),
               Own({StepOrDay}), Own({SundayAgain}), Own({NoSuchMinute})}

McKind == unit :> "systemd" @@ web :> "process" @@ webd :> "process"
          @@ ctr :> "docker" @@ pod :> "podman" @@ box :> "lxc"
          @@ guest :> "kvm" @@ timer :> "systemd-timer"

\* "web" is also the beginning of "webd".
McNamesakes == [s \in DOMAIN McKind |-> IF s = web THEN {web, webd} ELSE {s}]

McRegistrations == {{Cron}, {unit, web}, {web, webd}, {ctr, box}, {pod, guest},
                    {timer}}
=============================================================================
