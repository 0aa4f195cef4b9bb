--------------------------- MODULE MCJuliaProtocol ---------------------------
(* Every operation, with misbehaving children and interrupted parents. *)
EXTENDS JuliaProtocolProperties
=============================================================================
