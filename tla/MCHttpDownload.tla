--------------------------- MODULE MCHttpDownload ---------------------------
(* The run of HttpDownload: its constants are numbers.                     *)
EXTENDS HttpDownload
=============================================================================
