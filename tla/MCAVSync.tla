------------------------------- MODULE MCAVSync -------------------------------
(* AVSync with differences of less and more than what is corrected. *)
EXTENDS AVSync

(* Stamps that are missing, early, late, far ahead, and far back. *)
MCOddGaps == {0, 4, 20, 120, 1200, -1200}

MCStarts == {-1200, -60, 60, 1200}
MCReadings == {-2000, 60}

=============================================================================
