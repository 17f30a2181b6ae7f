---------------------------- MODULE MCDeviceConfig ----------------------------
(* Kinds of device for the instances of DeviceConfig that TLC checks: one of *)
(* each behaviour.                                                           *)
EXTENDS DeviceConfig

AllBehaviours ==
  {"blk", "blockDev", "nat", "netFd", "netUnix", "balloon", "stdio", "pty", "vsock"}
===============================================================================
