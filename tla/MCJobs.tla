------------------------------- MODULE MCJobs -------------------------------
(* Jobs with three concurrent handlers, enough for a holder, a loser of the *)
(* compare-and-swap and a power request.                                    *)
EXTENDS Jobs
=============================================================================
