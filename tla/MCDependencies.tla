--------------------------- MODULE MCDependencies ---------------------------
(* A git repository, an archive, and a script of the repository.           *)
EXTENDS Dependencies

CONSTANTS git, zip, setup

FileInRepository == [s \in Script |-> git]
SomeListings == {<<git, zip, setup>>, <<git, setup>>, <<zip>>}

(* The hypothesis of the theorems about the record.                        *)
ASSUME FaultsMayMeet == \A f \in Faults : MayMeet(f)

=============================================================================
