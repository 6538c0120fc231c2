CONSTANTS
  post1 = post1
  post2 = post2
  foreign = foreign
  gateway = gateway
  Services = {gateway}
  Subscribers = {gateway}
  Messages = {post1, post2, foreign}
  Foreign = {foreign}
SPECIFICATION Spec
INVARIANTS
  ReceivedInOrder
PROPERTIES
  PostsAreShown
CHECK_DEADLOCK FALSE
