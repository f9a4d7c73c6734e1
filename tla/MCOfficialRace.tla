-------------------------- MODULE MCOfficialRace --------------------------
\* Model values for OfficialRace: the roster lists a team twice.
EXTENDS OfficialRace
CONSTANT a
MCRosters == {<<a, a>>}
=============================================================================
