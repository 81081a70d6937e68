----------------------------- MODULE MCAccounts ------------------------------
(* An instance of Accounts for TLC, with an environment for each outcome of  *)
(* the configuration.  The process starts with hosts as given and with raw   *)
(* text for a host; scopes or hosts that cannot be parsed are refused by the *)
(* client's constructor, scopes that are no strings by the schema.           *)
EXTENDS Accounts

OneOfEach ==
    {[scopes |-> t[1], hosts |-> t[2], numbers |-> TRUE, names |-> TRUE] :
        t \in {<<"list", "list">>, <<"malformed", "list">>, <<"list", "unset">>,
               <<"unset", "falsy">>, <<"oddList", "list">>}}
=============================================================================
