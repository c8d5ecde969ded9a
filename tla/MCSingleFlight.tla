--------------------------- MODULE MCSingleFlight ---------------------------
(* SingleFlight, with its history, on a small instance. *)
EXTENDS SingleFlightHistory
=============================================================================
