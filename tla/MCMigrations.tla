---------------------------- MODULE MCMigrations ----------------------------
(* The tables and columns of db.py that any migration is about, and the     *)
(* databases its earlier versions made.                                    *)
EXTENDS Migrations

MCRenames == <<
    [from |-> "rule_chains", to |-> "policy_layers", key |-> "user_id", newkey |-> "user_id"],
    [from |-> "rule_chain_hosts", to |-> "policy_layer_hosts", key |-> "rule_chain_id", newkey |-> "policy_layer_id"],
    [from |-> "rule_chain_rules", to |-> "policy_layer_rules", key |-> "rule_chain_id", newkey |-> "policy_layer_id"]>>

MCCreated == <<"host_pairings", "user_profile", "policy_layers", "policy_layer_hosts",
               "policy_layer_rules", "pending_approvals", "invites">>

MCLayout ==
    [host_pairings |-> {"device_token_hash"},
     user_profile |-> {"system_prompt", "telegram_notifications_enabled", "telegram_chat_id"},
     policy_layers |-> {"user_id"},
     policy_layer_hosts |-> {"policy_layer_id", "host_id"},
     policy_layer_rules |-> {"policy_layer_id", "cwd"},
     pending_approvals |-> {"user_id", "mock_tier"},
     invites |-> {"group_id", "delivered_via", "completed_at"}]

MCIndexed ==
    [host_pairings |-> {"device_token_hash"}, user_profile |-> {}, policy_layers |-> {"user_id"},
     policy_layer_hosts |-> {"host_id"}, policy_layer_rules |-> {"policy_layer_id"},
     pending_approvals |-> {"user_id"}, invites |-> {}]

To(table, column) == [table |-> table, column |-> column]

MCAdditions == <<
    To("policy_layer_rules", "cwd"),
    To("user_profile", "system_prompt"),
    To("user_profile", "telegram_chat_id"), To("user_profile", "telegram_notifications_enabled"),
    To("user_profile", "recovery_kit_at"),
    To("pending_approvals", "mock_tier"),
    To("pending_approvals", "kind"), To("pending_approvals", "payload"),
    To("pending_approvals", "requester_user_id"),
    To("host_pairings", "backup_signing_key"), To("host_pairings", "backup_key_storage"),
    To("invites", "group_id"), To("invites", "delivered_via"), To("invites", "completed_at")>>

\* The first columns of every table, before any addition.
Oldest(name) == Wanted(name) \ {MCAdditions[a].column : a \in DOMAIN MCAdditions}

\* As after the first e additions, with the tables of that time.
After(e, names) ==
    [name \in names |-> Oldest(name) \union
        {MCAdditions[a].column : a \in {b \in 1 .. e : MCAdditions[b].table = name}}]

Later == {"pending_approvals", "host_pairings", "invites"}

Sofar(e) == DOMAIN MCLayout \ {t \in Later : \A a \in 1 .. e : MCAdditions[a].table # t}

RuleChains ==
    [name \in {"rule_chains", "rule_chain_hosts", "rule_chain_rules", "user_profile"} |->
        CASE name = "rule_chains" -> {"user_id"}
          [] name = "rule_chain_hosts" -> {"rule_chain_id", "host_id"}
          [] name = "rule_chain_rules" -> {"rule_chain_id"}
          [] OTHER -> {}]

\* A new deployment, one of the oldest, and every version in between, whose
\* later tables may not have been thought of yet.
MCEras ==
    {<<>>, RuleChains}
        \union {After(e, Sofar(e)) : e \in 0 .. Len(MCAdditions)}
        \union {After(e, DOMAIN MCLayout) : e \in 0 .. Len(MCAdditions)}
=============================================================================
