------------------------------ MODULE Schedule ------------------------------
\* What the race schedule promises to its readers: a set of races in which no
\* two overlap, changed one race at a time, each change with a revision of its
\* own.  RaceSchedule shows that the administration and the database implement
\* it (services/race_config_admin.rs, db/repos/race_config.rs).

EXTENDS Naturals

CONSTANTS Races, Configs, Nil

VARIABLES schedule, version

Ends(c) == c.start + c.duration

\* Two races are apart when one has ended before the other starts.
Apart(c, d) == Ends(c) <= d.start \/ Ends(d) <= c.start

Valid(s) ==
    \A r, q \in {x \in Races : s[x] # Nil} : r # q => Apart(s[r], s[q])

Init == schedule = [r \in Races |-> Nil] /\ version = 0

Change ==
    \E r \in Races, c \in Configs \cup {Nil} :
        /\ c # Nil \/ schedule[r] # Nil
        /\ schedule' = [schedule EXCEPT ![r] = c]
        /\ Valid(schedule')
        /\ version' = version + 1

Spec == Init /\ [][Change]_<<schedule, version>>

=============================================================================
