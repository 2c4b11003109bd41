------------------------------ MODULE Components ------------------------------
(***************************************************************************)
(* Seven components that share no state, in one specification: a behaviour *)
(* is one of the component that part names, whose steps, state and         *)
(* properties are those of its own module.  The variables of the others    *)
(* stay None.                                                              *)
(***************************************************************************)
EXTENDS Naturals, FiniteSets

CONSTANTS
  None,
  Images, Layers, Hosts, Registry, MaxHops, Budget,                       \* OciRegistry
  Entries, Removed, Opaque, MaxLayers, MaxLength, MaxNodes, MaxLinks, MaxParts, Up, \* OciLayers
  HostVms, HostNetworks, Subnets, HostAddresses, Uids,                    \* HostResources
  Tabs, Drafts, HostFiles, Override, Redacted,                            \* ManagedConfig
  Assets, OciAssets, DiskDefinitions, MaxRuns, MaxStrays, Torn,           \* DiskPreparation
  FileNames, Bundles, Machines, Networks, NetworkNames, VmAddresses, Bodies, \* SnapshotFit
  Policies, MaxMoment, MaxChanges, Jailed, Foreign,
  Values, MaxWrites, MaxEdits, Broken                                     \* VmConsole
VARIABLES
  part,
  options, tag, auth, image, step, req, got, sent,
  tree, metadata, nodes, pending, layering, layer, paths, owned, applied,
  defined, attached, use, offers, taps, identities, torn, jails,
  saved, live, editing, leftover, writer, lost, tabs,
  definition, preparing, disks, filling, marker, boot, run, ended, code, kind, reader, used, strays, beside,
  spec, nets, changes, phase, now, disk, guest, files, records, bundle, job, loaded,
  row, gets, view, newest, dialog, call, form, wish, edits

registryVars == <<options, tag, auth, image, step, req, got, sent>>
layerVars    == <<tree, metadata, nodes, pending, layering, layer, paths, owned, applied>>
hostVars     == <<defined, attached, use, offers, taps, identities, torn, jails>>
configVars   == <<saved, live, editing, leftover, writer, lost, tabs>>
diskVars     == <<definition, preparing, disks, filling, marker, boot, run, ended, code, kind, reader, used, strays, beside>>
snapshotVars == <<spec, nets, changes, phase, now, disk, guest, files, records, bundle, job, loaded>>
consoleVars  == <<row, gets, view, newest, dialog, call, form, wish, edits>>
vars == <<part, registryVars, layerVars, hostVars, configVars, diskVars, snapshotVars, consoleVars>>

Pulling   == INSTANCE OciRegistry
Unpacking == INSTANCE OciLayers WITH phase <- layering
Host      == INSTANCE HostResources WITH
  Vms <- HostVms, NetIds <- HostNetworks, Definitions <- Subnets, records <- identities
Saving    == INSTANCE ManagedConfig
Preparing == INSTANCE DiskPreparation WITH Definitions <- DiskDefinitions, spec <- definition, phase <- preparing
Fit       == INSTANCE SnapshotFit WITH
  Names <- NetworkNames, Addresses <- VmAddresses, MaxEdits <- MaxChanges, edits <- changes
Console   == INSTANCE VmConsole

(* What the constants of each component stand for. *)
ASSUME ComponentConstants ==
  /\ Pulling!RegistryConstants
  /\ Unpacking!LayersConstants
  /\ Host!HostConstants
  /\ Saving!ConfigConstants
  /\ Preparing!DiskConstants
  /\ Fit!FitConstants
  /\ Console!ConsoleConstants

-----------------------------------------------------------------------------
Init ==
  /\ part \in {"registry", "layers", "host", "config", "disks", "snapshots", "console"}
  /\ IF part = "registry" THEN Pulling!Init ELSE
       /\ options = None /\ tag = None /\ auth = None /\ image = None
       /\ step = None /\ req = None /\ got = None /\ sent = None
  /\ IF part = "layers" THEN Unpacking!Init ELSE
       /\ tree = None /\ metadata = None /\ nodes = None /\ pending = None /\ layering = None
       /\ layer = None /\ paths = None /\ owned = None /\ applied = None
  /\ IF part = "host" THEN Host!Init ELSE
       /\ defined = None /\ attached = None /\ use = None /\ offers = None
       /\ taps = None /\ identities = None /\ torn = None /\ jails = None
  /\ IF part = "config" THEN Saving!Init ELSE
       /\ saved = None /\ live = None /\ editing = None /\ leftover = None
       /\ writer = None /\ lost = None /\ tabs = None
  /\ IF part = "disks" THEN Preparing!Init ELSE
       /\ definition = None /\ preparing = None /\ disks = None /\ filling = None /\ marker = None /\ boot = None
       /\ run = None /\ ended = None /\ code = None /\ kind = None /\ reader = None /\ used = None
       /\ strays = None /\ beside = None
  /\ IF part = "snapshots" THEN Fit!Init ELSE
       /\ spec = None /\ nets = None /\ changes = None /\ phase = None /\ now = None /\ disk = None
       /\ guest = None /\ files = None /\ records = None /\ bundle = None /\ job = None /\ loaded = None
  /\ IF part = "console" THEN Console!Init ELSE
       /\ row = None /\ gets = None /\ view = None /\ newest = None /\ dialog = None
       /\ call = None /\ form = None /\ wish = None /\ edits = None

Next ==
  \/ /\ part = "registry" /\ Pulling!Next
     /\ UNCHANGED <<part, layerVars, hostVars, configVars, diskVars, snapshotVars, consoleVars>>
  \/ /\ part = "layers" /\ Unpacking!Next
     /\ UNCHANGED <<part, registryVars, hostVars, configVars, diskVars, snapshotVars, consoleVars>>
  \/ /\ part = "host" /\ Host!Next
     /\ UNCHANGED <<part, registryVars, layerVars, configVars, diskVars, snapshotVars, consoleVars>>
  \/ /\ part = "config" /\ Saving!Next
     /\ UNCHANGED <<part, registryVars, layerVars, hostVars, diskVars, snapshotVars, consoleVars>>
  \/ /\ part = "disks" /\ Preparing!Next
     /\ UNCHANGED <<part, registryVars, layerVars, hostVars, configVars, snapshotVars, consoleVars>>
  \/ /\ part = "snapshots" /\ Fit!Next
     /\ UNCHANGED <<part, registryVars, layerVars, hostVars, configVars, diskVars, consoleVars>>
  \/ /\ part = "console" /\ Console!Next
     /\ UNCHANGED <<part, registryVars, layerVars, hostVars, configVars, diskVars, snapshotVars>>

Spec == Init /\ [][Next]_vars

-----------------------------------------------------------------------------
(* Every component's state is of its types: in particular layers leave a    *)
(* tree in the staging directory, whatever they remove and replace.         *)
TypeOK ==
  /\ part = "registry"  => Pulling!TypeOK
  /\ part = "layers"    => Unpacking!TypeOK
  /\ part = "host"      => Host!TypeOK
  /\ part = "config"    => Saving!TypeOK
  /\ part = "disks"     => Preparing!TypeOK
  /\ part = "snapshots" => Fit!TypeOK
  /\ part = "console"   => Console!TypeOK

(* An image's secrets stay with the registry and its realm, its parts are   *)
(* of one manifest, and unpacking leaves what the layers say with the       *)
(* metadata recorded for it (crates/oci: registry and extract).             *)
ImagesHold ==
  /\ part = "registry" => Pulling!SecretsStay /\ Pulling!OneImage
  /\ part = "layers"   => Unpacking!MetadataFits /\ Unpacking!NothingLost

(* Addresses and user ids of the host belong to one VM; disks are complete  *)
(* and fit the definition, but for those made while a copy of a dropped     *)
(* handler went on beside; and a guest that is restored has the memory and  *)
(* the device state of one moment, with the network of then, and from the   *)
(* library the disks of then (crates/runtime: network, identity, assets and *)
(* snapshots).                                                              *)
GuestsHold ==
  /\ part = "host"      => Host!AddressesHold /\ Host!UidsHold
  /\ part = "disks"     => Preparing!DisksHold /\ Preparing!ReadsFit
  /\ part = "snapshots" => Fit!RestoredFits

(* A save of the configuration overwrites nothing written before it began   *)
(* that its author's page has not shown, and changes nothing that is for    *)
(* the host to change (crates/config).  The page of a VM never goes back,   *)
(* the form saves what was put together in it, and a save from the page     *)
(* keeps all but its section of the definition it has read (the web         *)
(* console).  Not promised: that a save is what the review has shown, and   *)
(* that changes survive which come between the read and the PUT of a        *)
(* section, or while the form is open: the code does not see to either.     *)
EditsHold ==
  /\ part = "config"  => Saving!ConfigHolds
  /\ part = "console" => Console!ConsoleHolds

=============================================================================
