---------------------------- MODULE MCComponents ----------------------------
(* Two images, VMs, networks and tabs: see the README for the bounds. *)
EXTENDS Components, TLC

CONSTANTS
  s1, s2, oci, img, n1, n2, f1, m1, y1  \* members of the sets that the configuration names

(* What the layers of an image may hold. *)
File(p)          == [path |-> p, kind |-> "file", target |-> <<>>]
Dir(p)           == [path |-> p, kind |-> "dir", target |-> <<>>]
Symlink(p, a, t) == [path |-> p, kind |-> "link", target |-> [absolute |-> a, parts |-> t]]
Hardlink(p, t)   == [path |-> p, kind |-> "hard", target |-> t]
LayerEntries ==
  { File(<<"a">>), File(<<"b">>), File(<<"a", "b">>), File(<<"b", "a">>),
    Dir(<<"a">>), Dir(<<"b">>), Dir(<<"a", "b">>),
    Symlink(<<"a">>, FALSE, <<"b">>), Symlink(<<"b">>, FALSE, <<"a">>),
    Symlink(<<"a", "b">>, FALSE, <<Up, "b">>), Symlink(<<"a", "b">>, TRUE, <<Up>>),
    Hardlink(<<"a">>, <<"b", "a">>), Hardlink(<<"b">>, <<"a", "b">>), Hardlink(<<"a", "b">>, <<"b">>) }

RemovedPaths == {<<"a">>, <<"b">>, <<"a", "b">>}
OpaquePaths  == {<<>>, <<"a">>}

(* Networks: three sizes of subnets, one with a target on the host. *)
Subnet(low, high, gateway, policy, target) ==
  [low |-> low, high |-> high, gateway |-> gateway, policy |-> policy, target |-> target]
MCSubnets == { Subnet(1, 4, 2, "unrestricted", 0), Subnet(1, 5, 4, "host-only", 0), Subnet(2, 5, 3, "host-only", 9) }

(* Configurations: s1 is the secret on the host, s2 another one. *)
Config(t, u, h, s) == [ttl |-> t, url |-> u, host |-> h, secret |-> s]
ConfigDrafts == { Config("long", "good", "a", Redacted), Config("short", "good", "b", Redacted),
                  Config("short", "good", "a", s2), Config("long", "bad", "a", Redacted) }
ConfigFiles  == { Config("short", "good", "a", s1), Config("short", "bad", "b", None) }

(* Definitions of VMs, as far as their disks depend on them. *)
Disks(r, d, i, w, n) == [rootfs |-> r, drive |-> d, initrd |-> i, workload |-> w, inputs |-> n]
MCDiskDefinitions ==
  { Disks(oci, None, None, "default", None), Disks(oci, None, None, "keep-alive", None),
    Disks(oci, img, img, "default", "x"),    Disks(img, None, None, "default", "x"),
    Disks(img, oci, None, "default", None),  Disks(img, None, None, "override", None) }

NoTtl      == [ttl |-> None, url |-> None, host |-> "c"]
MCNetworks == n1 :> "a" @@ n2 :> "b"

(* Of the states in which a VM with a snapshot begins, alike but for names, *)
(* one.                                                                     *)
MCInit ==
  /\ Init
  /\ part = "snapshots" => /\ spec = [machine |-> m1, net |-> n1, address |-> "x", security |-> s1]
                           /\ nets[n1].body = y1 /\ records[f1] # None

MCSpec == MCInit /\ [][Next]_vars

=============================================================================
