----------------------------- MODULE MCDexDiscovery -----------------------------
(* DexDiscovery with two programs. *)
EXTENDS DexDiscovery

MCPrograms == <<"pump", "swap">>
=============================================================================
