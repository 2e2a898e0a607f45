------------------------------- MODULE MC_ApiV61 -------------------------------
(* A session with three known events, two of them denied to applications, *)
(* and two unknown keys, one before and one after them in map order.      *)
EXTENDS ApiV61, TLC

MCEvKeys == {"ev_assets_changed", "ev_sync_progress", "ev_utxos_changed",
             "ev_balance", "x_custom"}

(* Lexicographic order of the keys, as std::map keeps them. *)
MCKeyRank == "ev_assets_changed" :> 1 @@ "ev_balance" :> 2 @@
             "ev_sync_progress" :> 3 @@ "ev_utxos_changed" :> 4 @@
             "x_custom" :> 5

=============================================================================
