--------------------------- MODULE MCAcquisition ---------------------------
(* The two profiles of ownership/model.go, with what the host ties together. *)
EXTENDS Acquisition

\* provider.SandboxProfile, in the order of acquireSandboxReceipt.
BoxProfile == <<"sandbox_cgroup", "keeper_cgroup", "keeper_process", "uts", "ipc", "network">>
BoxKinds == {"sandbox_cgroup", "keeper_cgroup", "keeper_process", "uts", "ipc", "network"}
BoxDelete == <<"keeper_process", "network", "ipc", "uts", "keeper_cgroup", "sandbox_cgroup">>
BoxActionable == {"sandbox_cgroup", "keeper_cgroup", "keeper_process"}
BoxSpaces == {"uts", "ipc", "network"}
BoxHolds == [k \in BoxKinds |-> IF k = "keeper_process" THEN BoxSpaces ELSE {}]
BoxBlocks == [k \in BoxKinds |->
    CASE k = "sandbox_cgroup" -> {"keeper_cgroup"}
      [] k = "keeper_cgroup" -> {"keeper_process"}
      [] k \in BoxSpaces -> {"keeper_process"}
      [] OTHER -> {}]
BoxNeeds == [k \in BoxKinds |->
    CASE k = "keeper_cgroup" -> {"sandbox_cgroup"}
      [] k = "keeper_process" -> {"keeper_cgroup"}
      [] k \in BoxSpaces -> {"keeper_process"}
      [] OTHER -> {}]

\* The Container profile, in the order of acquireContainerReceipt.
CtrProfile == <<"attempt_cgroup", "start_gate", "streams", "init_process", "pid_ns", "mount_ns", "rootfs_mount">>
CtrKinds == {"attempt_cgroup", "start_gate", "streams", "init_process", "pid_ns", "mount_ns", "rootfs_mount"}
CtrDelete == <<"rootfs_mount", "init_process", "mount_ns", "pid_ns", "streams", "start_gate", "attempt_cgroup">>
CtrActionable == CtrKinds \ {"pid_ns", "mount_ns"}
CtrUndoable == {"rootfs_mount"}
CtrSpaces == {"pid_ns", "mount_ns"}
CtrHolds == [k \in CtrKinds |-> IF k = "init_process" THEN CtrSpaces \cup {"rootfs_mount"} ELSE {}]
CtrBlocks == [k \in CtrKinds |->
    CASE k = "attempt_cgroup" -> {"init_process"}
      [] k \in CtrSpaces -> {"init_process"}
      [] OTHER -> {}]
CtrNeeds == [k \in CtrKinds |->
    CASE k = "init_process" -> {"attempt_cgroup", "start_gate", "streams"}
      [] k \in CtrSpaces \cup {"rootfs_mount"} -> {"init_process"}
      [] OTHER -> {}]
=============================================================================
