-------------------------- MODULE MCCommandDispatch --------------------------
(* An instance of CommandDispatch for TLC: one frame or two of every kind. *)
EXTENDS CommandDispatch

CONSTANTS k1, u1, u2, rules, badRules, ldapConf, web, box,
          some  \* a payload whose content does not matter

\* An agent with a key and most capabilities, and one that has not been
\* given a key and has two of them.
McConfigs ==
  {[key |-> k1, services |-> {web},
    caps |-> {"reboot", "configure_ldap", "iam", "wireguard", "storage"}],
   [key |-> None, services |-> {}, caps |-> {"wireguard", "storage"}]}

McKinds == [s \in {web, box} |-> IF s = web THEN "systemd" ELSE "docker"]

Policy(sudo, ks, gs, rs) == [sudo |-> sudo, keys |-> ks, groups |-> gs,
                             revoke |-> rs]
McPolicies == {Policy(rules, {u1}, {u1}, {u2}), Policy(None, {}, {u2}, {u1, u2}),
               Policy(badRules, {}, {u1}, {u2})}

McDesk == [u \in {u1, u2} |-> IF u = u1 THEN "x11" ELSE "wayland"]

F(t, sig, arg) == [type |-> t, sig |-> sig, arg |-> arg]
Call(s, sub, act) == [service |-> s, subtype |-> sub, action |-> act]
Ask(sub, user) == [sub |-> sub, user |-> user]

McFrames ==
  {F("iam_apply", k1, p) : p \in McPolicies}
  \cup {F(t, k1, some) : t \in {"update_binary", "reboot", "shutdown",
          "render_secrets", "zpool_scrub", "register_service"}}
  \cup {F("zpool_scrub", None, some), F("configure_ldap", k1, ldapConf),
        F("configure_ldap", k1, None), F("service_restart", k1, web),
        F("service_restart", k1, box),
        F("reload_config", None, None), F("fetch_logs", None, box),
        F("config", None, some), F("heartbeat_ack", None, None),
        F("no_such_command", None, None)}
  \cup {F("systemd_action", sig, Call(box, "docker", a)) :
           sig \in {k1, None}, a \in {"stop", None}}
  \cup {F("systemd_action", k1, Call(box, None, "stop")),
        F("systemd_action", k1, Call(box, "docker", "reload"))}
  \cup {F("lock_session", k1, Ask(None, u)) : u \in {None, u1}}
  \cup {F("desktop_control", k1, Ask(sub, None)) :
           sub \in {"logout", "display_off", "sleep", "dance"}}
  \cup {F("logout_user", k1, Ask(None, u1))}
=============================================================================
