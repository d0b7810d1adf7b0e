------------------------------ MODULE MCVtdDump ------------------------------
(***************************************************************************)
(* A machine with two levels of bridges, devices with one and with several *)
(* functions, and a bridge with nothing behind it; a second segment.  Units *)
(* name devices by scopes, by a bridge, by a path, or take the rest.        *)
(***************************************************************************)
EXTENDS VtdDump

Function(class, multi, secondary, id, subsystem) ==
  [class |-> class, multiFunction |-> multi, secondary |-> secondary, id |-> id, subsystem |-> subsystem]
Endpoint(id, subsystem) == Function("endpoint", FALSE, 255, id, subsystem)
Bridge(bus) == Function("bridge", FALSE, bus, "bridge", "zero")

Pci ==
  <<0, 0, 2, 0>> :> Endpoint("graphics", "board")
    @@ <<0, 0, 2, 1>> :> Endpoint("hidden", "board")
    @@ <<0, 0, 3, 0>> :> Function("endpoint", TRUE, 255, "lpc", "board")
    @@ <<0, 0, 3, 1>> :> Endpoint("usb", "board")
    @@ <<0, 0, 4, 0>> :> Bridge(1)
    @@ <<0, 0, 20, 0>> :> Bridge(0)
    @@ <<0, 1, 0, 0>> :> Endpoint("usb", "card")
    @@ <<0, 1, 1, 0>> :> Bridge(2)
    @@ <<0, 2, 0, 0>> :> Endpoint("disk", "card")
    @@ <<1, 0, 2, 0>> :> Endpoint("graphics", "card")

Scope(type, bus, path) == [Type |-> type, StartBusNumber |-> bus, path |-> path]
Drhd(segment, base, all, s) ==
  [Type |-> "DRHD", Segment |-> segment, base |-> base, includeAll |-> all, scopes |-> s]
Rmrr(base, limit, s) == [Type |-> "RMRR", Segment |-> 0, Base |-> base, Limit |-> limit, scopes |-> s]
Other == [Type |-> "RHSA"]

Graphics == Scope("endpoint", 0, <<<<2, 0>>>>)
Usb == Scope("endpoint", 0, <<<<4, 0>>, <<0, 0>>>>)      \* on bus 1
Disk == Scope("endpoint", 0, <<<<4, 0>>, <<1, 0>>, <<0, 0>>>>)
Behind == Scope("bridge", 0, <<<<4, 0>>>>)
Nothing == Scope("bridge", 0, <<<<20, 0>>>>)
IoApic == Scope("ioapic", 0, <<<<3, 0>>>>)               \* where the LPC bridge is
Hpet == Scope("hpet", 240, <<<<15, 0>>>>)

All(s) == Drhd(0, "unit 2", TRUE, s)
One(s) == Drhd(0, "unit 1", FALSE, s)

Drhdss ==
  {<<All(<<IoApic, Hpet>>)>>,
   <<One(<<Graphics>>), Other, All(<<IoApic, IoApic>>)>>,
   <<One(<<Behind, Hpet>>), All(<<Hpet>>)>>,
   <<One(<<Disk, Usb>>), Drhd(1, "unit 3", TRUE, <<>>), All(<<>>)>>,
   <<One(<<Nothing>>), All(<<>>)>>,
   <<One(<<Behind, Usb>>), All(<<>>)>>,                  \* given up: it is behind the bridge
   <<All(<<Graphics>>)>>,                                \* given up, at the last unit
   <<One(<<Graphics>>)>>}                                \* no unit has the rest

Rmrrss ==
  {<<>>, <<Rmrr(10, 11, <<Graphics>>)>>, <<Rmrr(10, 10, <<Usb, Disk>>), Other>>,
   <<Rmrr(10, 11, <<Graphics, Behind, Usb>>), Rmrr(11, 11, <<Disk>>)>>}

Id(device, subsystem) == [Type |-> "id", device |-> device, subsystem |-> subsystem]
Except(path) == [Type |-> "scope", Segment |-> 0, StartBusNumber |-> 0, path |-> path]
End == [Type |-> "end"]
Exceptionss ==
  {NULL, <<Id("usb", "any"), Except(<<<<2, 0>>>>)>>, <<Id("any", "card"), End, Id("any", "any")>>,
   <<[Type |-> "unknown"], Except(<<<<4, 0>>, <<0, 0>>>>)>>}

Map(address, n, handles) == [DeviceAddress |-> address, NumberOfPages |-> n, handles |-> handles]
Handle(location, access) == [location |-> location, IoMmuAccess |-> access]
RW == {"read", "write"}
Mapss ==
  {{}, {Map(20, 2, {Handle(<<0, 0, 2, 0>>, RW), Handle(<<0, 1, 0, 0>>, {"read"})}), Map(30, 1, {Handle(<<0, 2, 0, 0>>, RW)})},
   {Map(20, 2, {Handle(NULL, {"read"})})}}

Page(address, access) == [Address |-> address, Size |-> "4KB", access |-> access]
Big(address) == [Address |-> address, Size |-> "2MB", access |-> RW]
Root(extended, contexts0, contexts1) ==
  [Extended |-> extended,
   root |-> 0 :> [Present |-> TRUE, contexts |-> contexts0] @@ 1 :> [Present |-> contexts1 # << >>, contexts |-> contexts1]]
Empty == Root(FALSE, << >>, << >>)
TablesOf(one, two) == [u \in {"unit 1", "unit 2", "unit 3"} |->
                         CASE u = "unit 1" -> one [] u = "unit 2" -> two [] OTHER -> Empty]
OfGraphics(p) == Root(FALSE, <<2, 0>> :> {p}, << >>)
OfUsb(p) == Root(FALSE, <<4, 0>> :> {}, <<0, 0>> :> {p, Page(99, {})})
Upper(p) == Root(TRUE, <<2, 0>> :> {} @@ <<20, 0>> :> {p}, << >>)
Tabless ==
  {TablesOf(Empty, Empty),
   TablesOf(OfGraphics(Page(10, RW)), OfUsb(Page(10, {"read"}))),
   TablesOf(OfGraphics(Page(20, RW)), OfUsb(Page(21, {"read"}))),
   TablesOf(OfUsb(Page(90, RW)), Empty),
   TablesOf(Empty, Upper(Page(90, RW))),
   TablesOf(Empty, OfGraphics(Big(90))),
   TablesOf(Empty, Root(TRUE, <<2, 0>> :> {Page(90, {"write"})}, << >>))}

Platform(acpi, iommu, maps, exceptions, tables) ==
  [acpi |-> acpi, pci |-> Pci, iommu |-> iommu, maps |-> maps, exceptions |-> exceptions, tables |-> tables]
Dmar(structures) == [Signature |-> "DMAR", structures |-> structures]
Facp == [Signature |-> "FACP"]
InXsdt(structures) == [Revision |-> 2, Xsdt |-> <<NULL, Facp, Dmar(structures)>>, Rsdt |-> <<Facp>>]
OtherRoots ==
  {NULL, [Revision |-> 0, Xsdt |-> NULL, Rsdt |-> <<Facp, Dmar(<<All(<<>>)>>)>>],
   [Revision |-> 2, Xsdt |-> <<Facp>>, Rsdt |-> <<NULL, Dmar(<<All(<<>>)>>)>>],
   [Revision |-> 2, Xsdt |-> <<Facp>>, Rsdt |-> NULL], InXsdt(<<Other>>)}

MCPlatforms ==
  {Platform(InXsdt(d \o r), "works", m, e, t) :
     d \in {<<One(<<Graphics>>), Other, All(<<IoApic, IoApic>>)>>, <<One(<<Behind, Hpet>>), All(<<Hpet>>)>>},
     r \in Rmrrss, m \in Mapss, e \in Exceptionss, t \in Tabless}
    \cup {Platform(InXsdt(d \o r), "works", {}, e, t) :
            d \in Drhdss, r \in Rmrrss, e \in {NULL, <<Id("usb", "any")>>}, t \in Tabless}
    \cup {Platform(InXsdt(<<One(<<Graphics>>), All(<<>>)>>), i, {}, e, t) :
            i \in {"none", "works"}, e \in Exceptionss, t \in Tabless}
    \cup {Platform(a, "works", {}, NULL, t) : a \in OtherRoots, t \in Tabless}
=============================================================================
