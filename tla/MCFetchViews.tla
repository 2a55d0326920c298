---------------------------- MODULE MCFetchViews ----------------------------
(* Two hosts and two backups: a host switch can overtake the first host's  *)
(* getBackups, and a second opening of the sheet the first one's fetch.    *)
EXTENDS FetchViews

=============================================================================
