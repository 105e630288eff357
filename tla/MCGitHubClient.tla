--------------------------- MODULE MCGitHubClient ---------------------------
(* Small instances of GitHubClient for TLC.                                *)
EXTENDS GitHubClient

CONSTANTS N1, N2, I1, I2, V1, V2, VLong
=============================================================================
