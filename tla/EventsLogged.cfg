SPECIFICATION Spec
CONSTANTS
  Manifests <- SomeManifests
  Values <- SomeValues
  RawTopics = {0, 1, 5}
  MaxEventData = 9
  MaxDepth = 2
  MaxEmits = 2
INVARIANTS
  TypeOK SubscriberSees FilterExact
PROPERTIES
  EmitGoesOn
