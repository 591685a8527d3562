--------------------------- MODULE MCRefreshRotation ---------------------------
(* RefreshRotation with two values every loop waits for, one that may never be *)
(* read, and one that only a refresh reads.                                    *)
EXTENDS RefreshRotation

MCRefreshOrder == <<"battery", "door_type", "verify_fail_time", "credentials">>
MCPollOrder    == <<"battery", "door_type", "verify_fail_time">>

================================================================================
